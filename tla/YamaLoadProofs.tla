--------------------------- MODULE YamaLoadProofs ---------------------------
(***************************************************************************)
(* The account of the tasks: what is counted, what is left behind and what *)
(* is reduced.                                                             *)
(*                                                                         *)
(* While nothing fails, tasks_in_progress of a node is the number of its   *)
(* tasks in process, and every task in process is of a job at the stage of *)
(* the task (LoadsAreTasks).  The counters move with the rows only if no   *)
(* result is lost, repeated or charged to another task, so the invariant   *)
(* is an account of every master: what it has reported, has to do or will  *)
(* be told of is, one for one, what is in process of its tasks.            *)
(*   The account, through the steps of a master:  Account                  *)
(*   The counters, row by row:  Balanced                                   *)
(*   All of it through the handlers of YAMA:  Working                      *)
(*                                                                         *)
(* Whatever fails, a master reduces only what was transformed well         *)
(* (ReducesTransformed).                                                   *)
(*   A master has one request unread or one reply unread, at most, and     *)
(*     after a request for the local reduction none of another stage:      *)
(*     ProtoInv                                                            *)
(*   The rows behind the entries planned for the local reductions:         *)
(*     EntriesOwned, EntriesCovered                                        *)
(*   The rows behind the replies that nobody has read:  RepliesHaveRows    *)
(*   All of it through the handlers of YAMA:  KeepsRows                    *)
(*                                                                         *)
(* While nothing fails, every block of a file is transformed and reduced   *)
(* once (PlansAreWhole, StoredPlansAreWhole).                              *)
(*   The planned transformations of a job are its blocks, each once, and   *)
(*     so are the temporaries of its reductions:  PlansKept                *)
(*   What a job has not been planned for yet it has in full in the list of *)
(*     the stage before:  CoverInv                                         *)
(***************************************************************************)
EXTENDS YamaMasterProofs

-----------------------------------------------------------------------------
(* A result of the task of stage e on node n and block b, in s; and no     *)
(* result twice.                                                           *)
IsResult(m, e, n, b) == m.op = "O" /\ m.etapa = e /\ m.node = n /\ m.block = b
Says(s, e, n, b) == \E k \in DOMAIN s : IsResult(s[k], e, n, b)
Once(s) ==
    \A i, j \in DOMAIN s :
       /\ s[i].op = "O" /\ s[j].op = "O" /\ s[i].etapa = s[j].etapa
       /\ s[i].node = s[j].node /\ s[i].block = s[j].block
       => i = j

(* The tasks of threads at stage p, and those of an answer.  A task other  *)
(* than a transformation has no block to be told apart by.                 *)
WorksOn(e, tmps, b) == IF e = "T" THEN In(tmps, b) ELSE b = <<>>
Doing(p, H, e, n, b) == p = e /\ \E h \in H : h.nodo = n /\ WorksOn(e, h.tmps, b)
Told(ss, e, n, b) ==
    /\ ss # <<>> /\ Head(ss).op = e
    /\ \E k \in DOMAIN Head(ss).data :
          Head(ss).data[k].nodo = n /\ WorksOn(e, Head(ss).data[k].tmps, b)
(* What a master owes YAMA: the tasks it has reported, has to do or will   *)
(* be told of, each in one place.                                          *)
Owed(ms, p, H, ss, e, n, b) == Says(ms, e, n, b) \/ Doing(p, H, e, n, b) \/ Told(ss, e, n, b)
Separate(p, H) ==
    /\ \A h, g \in H : h.nodo = g.nodo \/ p \in {"G", "S"} => h = g
    /\ p = "T" => \A h \in H : IsInjective(h.tmps)
Tidy(r) ==
    /\ ByNode(r.data)
    /\ r.op = "T" => Apart(r.data)
    /\ r.op \in {"G", "S"} => Len(r.data) = 1
Sound(ms, p, H, ss) ==
    /\ Once(ms) /\ Separate(p, H)
    /\ \A e, n, b : ~(Says(ms, e, n, b) /\ Doing(p, H, e, n, b))
    /\ ss # <<>> => Tidy(Head(ss))

(* The tasks in process of a master in the rows s.                         *)
IsOpen(r, fd, e, n, b) ==
    r.master = fd /\ r.status = "P" /\ r.op = e /\ r.node = n /\ r.block = b
Open(s, fd, e, n, b) == \E i \in DOMAIN s : IsOpen(s[i], fd, e, n, b)
OpenOnce(s, fd) ==
    \A i, j \in DOMAIN s :
       /\ s[i].master = fd /\ s[j].master = fd /\ s[i].status = "P" /\ s[j].status = "P"
       /\ s[i].op = s[j].op /\ s[i].node = s[j].node /\ s[i].block = s[j].block
       => i = j

(* What a master owes is what is in process of its tasks, one for one.     *)
Account(fd) ==
    /\ Sound(pedidos[fd], pc[fd], hilos[fd], salida[fd])
    /\ OpenOnce(tabla_estados, fd)
    /\ \A e, n, b : Owed(pedidos[fd], pc[fd], hilos[fd], salida[fd], e, n, b)
                      <=> Open(tabla_estados, fd, e, n, b)

(* One message more, and one less.                                         *)
LEMMA SaysMore ==
    ASSUME NEW s \in Seq(Message), NEW m \in Message
    PROVE  /\ \A e, n, b : Says(s \o <<m>>, e, n, b) <=> Says(s, e, n, b) \/ IsResult(m, e, n, b)
           /\ Once(s) /\ ~Says(s, m.etapa, m.node, m.block) => Once(s \o <<m>>)
           /\ Once(s) /\ m.op # "O" => Once(s \o <<m>>)
<1> DEFINE t == s \o <<m>>
           l == Len(s) + 1
<1>1. /\ Len(s) \in Nat /\ DOMAIN s = 1 .. Len(s) /\ DOMAIN t = 1 .. Len(s) + 1
      /\ t[Len(s) + 1] = m /\ \A k \in 1 .. Len(s) : t[k] = s[k]
  OBVIOUS
<1> HIDE DEF t
<1>2. /\ DOMAIN t = DOMAIN s \cup {l} /\ l \notin DOMAIN s /\ t[l] = m
      /\ \A k \in DOMAIN s : t[k] = s[k]
  BY <1>1
<1> HIDE DEF l
<1>3. ASSUME NEW e, NEW n, NEW b
      PROVE  Says(t, e, n, b) <=> Says(s, e, n, b) \/ IsResult(m, e, n, b)
  BY <1>2 DEF Says
<1>4. ASSUME Once(s), m.op # "O" \/ ~Says(s, m.etapa, m.node, m.block)
      PROVE  Once(t)
  <2>1. \A i \in DOMAIN s : ~(/\ s[i].op = "O" /\ m.op = "O" /\ s[i].etapa = m.etapa
                              /\ s[i].node = m.node /\ s[i].block = m.block)
    BY <1>4 DEF Says, IsResult
  <2> QED
    BY <1>2, <1>4, <2>1 DEF Once
<1> QED
  BY <1>3, <1>4 DEF t

LEMMA SaysLess ==
    ASSUME NEW s \in Seq(Message), s # <<>>
    PROVE  LET m == Head(s)
           IN  /\ \A e, n, b : Says(s, e, n, b) <=> Says(Tail(s), e, n, b) \/ IsResult(m, e, n, b)
               /\ Once(s) => /\ Once(Tail(s))
                             /\ m.op = "O" => ~Says(Tail(s), m.etapa, m.node, m.block)
<1> DEFINE t == Tail(s)
           m == Head(s)
<1>1. /\ \A k \in DOMAIN t : k \in Nat \ {0} /\ k + 1 \in DOMAIN s /\ t[k] = s[k + 1]
      /\ m = s[1] /\ 1 \in DOMAIN s /\ Len(s) \in Nat \ {0}
      /\ t \in Seq(Message) /\ Len(t) = Len(s) - 1
  BY TailIs
<1>2. DOMAIN s = 1 .. Len(s) /\ DOMAIN t = 1 .. Len(t)
  BY <1>1
<1> HIDE DEF t, m
<1>3. \A k \in DOMAIN s : k = 1 \/ (k - 1 \in DOMAIN t /\ s[k] = t[k - 1])
  <2> SUFFICES ASSUME NEW k \in DOMAIN s, k # 1 PROVE k - 1 \in DOMAIN t /\ s[k] = t[k - 1]
    OBVIOUS
  <2>1. k - 1 \in DOMAIN t
    BY <1>1, <1>2
  <2> QED
    BY <1>1, <1>2, <2>1
<1>4. ASSUME NEW e, NEW n, NEW b
      PROVE  Says(s, e, n, b) <=> Says(t, e, n, b) \/ IsResult(m, e, n, b)
  BY <1>1, <1>3 DEF Says
<1>5. ASSUME Once(s)
      PROVE  Once(t) /\ (m.op = "O" => ~Says(t, m.etapa, m.node, m.block))
  <2>1. \A k \in DOMAIN t : k + 1 # 1
    BY <1>1
  <2>2. m.op = "O" => ~Says(t, m.etapa, m.node, m.block)
    BY <1>1, <1>5, <2>1 DEF Once, Says, IsResult
  <2>3. \A i, j \in DOMAIN t : i + 1 = j + 1 => i = j
    BY <1>1
  <2>4. Once(t)
    BY <1>1, <1>5, <2>3 DEF Once
  <2> QED
    BY <2>2, <2>4
<1> QED
  BY <1>4, <1>5 DEF t, m

LEMMA NothingSaid ==
    /\ \A e, n, b : ~Says(<<>>, e, n, b)
    /\ Once(<<>>)
    /\ \A m, e, n, b : m.op # "O" => ~Says(<<m>>, e, n, b) /\ Once(<<m>>)
    /\ \A m, e, n, b : Says(<<m>>, e, n, b) <=> IsResult(m, e, n, b)
    /\ \A m : Once(<<m>>)
BY DEF Says, Once, IsResult

(* What a master is told it then does.                                     *)
LEMMA SettleStarts ==
    ASSUME NEW r, r.data \in Seq(Task), Tidy(r), NEW e, r.op = e
    PROVE  /\ Sound(<<>>, e, ThreadsFor(r.data), <<>>)
           /\ \A x, n, b : Owed(<<>>, e, ThreadsFor(r.data), <<>>, x, n, b)
                             <=> Owed(<<>>, Stages[e], {}, <<r>>, x, n, b)
<1> DEFINE d == r.data
           g == Grouped(d)
           H == ThreadsFor(d)
<1>1. Node \in SUBSET Nat /\ ByNode(d)
  BY LayoutAssumption DEF Tidy
<1>2. /\ Len(d) \in Nat /\ DOMAIN d = 1 .. Len(d)
      /\ \A k \in DOMAIN d : d[k].nodo \in Node /\ d[k].tmps \in Seq(Block)
  <2>1. \A k \in DOMAIN d : d[k] \in Task
    OBVIOUS
  <2> QED
    BY <2>1 DEF Task
<1> HIDE DEF d
<1>3. /\ g \in Seq(TasksOf(Node))
      /\ \A n, b : Has(g, DOMAIN g, n, b) <=> Has(d, DOMAIN d, n, b)
      /\ \A n : (\E k \in DOMAIN g : g[k].nodo = n) <=> (\E k \in DOMAIN d : d[k].nodo = n)
      /\ \A i, j \in DOMAIN g : g[i].nodo = g[j].nodo => i = j
      /\ Apart(d) => \A k \in DOMAIN g : IsInjective(g[k].tmps)
  BY <1>1, <1>2, GroupsAre
<1> DEFINE t(k) == [nodo |-> g[k].nodo, tmps |-> g[k].tmps, estado |-> "corre"]
<1>12. /\ \A h \in H : \E k \in DOMAIN g : h = t(k)
      /\ \A k \in DOMAIN g : t(k) \in H
  BY Zenon DEF ThreadsFor, ToSet
<1>13. \A k : t(k).nodo = g[k].nodo /\ t(k).tmps = g[k].tmps
  OBVIOUS
<1> HIDE DEF g, H, t
<1>4. /\ \A h \in H : \E k \in DOMAIN g : h.nodo = g[k].nodo /\ h.tmps = g[k].tmps /\ h = t(k)
      /\ \A k \in DOMAIN g : \E h \in H : h.nodo = g[k].nodo /\ h.tmps = g[k].tmps
  BY <1>12, <1>13
<1>5. \A h, f \in H : h.nodo = f.nodo => h = f
  BY <1>3, <1>4
<1>6. Separate(e, H)
  <2>1. ASSUME e \in {"G", "S"} PROVE \A h, f \in H : h = f
    <3>1. Len(d) = 1
      BY <2>1 DEF Tidy, d
    <3>2. \A k \in DOMAIN d : k = 1
      BY <1>2, <3>1
    <3>3. \A h \in H : h.nodo = d[1].nodo
      BY <1>3, <1>4, <3>2
    <3> QED
      BY <1>5, <3>3
  <2>2. ASSUME e = "T" PROVE \A h \in H : IsInjective(h.tmps)
    <3>1. Apart(d)
      BY <2>2 DEF Tidy, d
    <3> QED
      BY <1>3, <1>4, <3>1
  <2> QED
    BY <1>5, <2>1, <2>2 DEF Separate
<1>7. Sound(<<>>, e, H, <<>>)
  BY <1>6, NothingSaid DEF Sound
<1>8. \A n, b : (\E h \in H : h.nodo = n /\ In(h.tmps, b)) <=> Has(d, DOMAIN d, n, b)
  <2>1. \A n, b : (\E h \in H : h.nodo = n /\ In(h.tmps, b)) <=> Has(g, DOMAIN g, n, b)
    BY <1>4 DEF Has
  <2> QED
    BY <1>3, <2>1
<1>9. \A n : (\E h \in H : h.nodo = n) <=> (\E k \in DOMAIN d : d[k].nodo = n)
  <2>1. \A n : (\E h \in H : h.nodo = n) <=> (\E k \in DOMAIN g : g[k].nodo = n)
    BY <1>4
  <2> QED
    BY <1>3, <2>1
<1>10. ASSUME NEW x, NEW n, NEW b
       PROVE  Doing(e, H, x, n, b) <=> Told(<<r>>, x, n, b)
  <2>1. <<r>> # <<>> /\ Head(<<r>>) = r
    OBVIOUS
  <2>2. Told(<<r>>, x, n, b) <=> e = x /\ \E k \in DOMAIN d : d[k].nodo = n /\ WorksOn(x, d[k].tmps, b)
    BY <2>1 DEF Told, d
  <2>3. CASE x = "T"
    BY <1>8, <2>2, <2>3 DEF Doing, WorksOn, Has
  <2>4. CASE x # "T"
    BY <1>9, <2>2, <2>4 DEF Doing, WorksOn
  <2> QED
    BY <2>3, <2>4
<1>11. \A x, n, b : ~Doing(Stages[e], {}, x, n, b) /\ ~Told(<<>>, x, n, b)
  BY DEF Doing, Told
<1> QED
  BY <1>7, <1>10, <1>11 DEF Owed, H, d

(* A sequence without its element k.                                       *)
LEMMA RemovedIs ==
    ASSUME NEW E, NEW s \in Seq(E), NEW k \in DOMAIN s
    PROVE  LET w == RemoveAt(s, k)
           IN  /\ w \in Seq(E) /\ DOMAIN w = 1 .. Len(s) - 1
               /\ \A i \in DOMAIN w : w[i] = s[IF i < k THEN i ELSE i + 1]
<1>1. Len(s) \in Nat /\ k \in 1 .. Len(s) /\ DOMAIN s = 1 .. Len(s)
  OBVIOUS
<1> DEFINE x == SubSeq(s, 1, k - 1)
           y == SubSeq(s, k + 1, Len(s))
           w == RemoveAt(s, k)
           l == Len(s)
<1>2. /\ x \in Seq(E) /\ Len(x) = k - 1 /\ \A i \in 1 .. k - 1 : x[i] = s[i]
      /\ y \in Seq(E) /\ Len(y) = Len(s) - k /\ \A i \in 1 .. Len(s) - k : y[i] = s[k + i]
  BY <1>1
<1>3. w = x \o y
  BY DEF RemoveAt
<1> HIDE DEF x, y, w
<1>4. w \in Seq(E) /\ Chain(x, y, w)
  BY <1>2, <1>3, ConcatIs
<1>5. /\ DOMAIN w = 1 .. l - 1
      /\ \A i \in 1 .. k - 1 : w[i] = s[i]
      /\ \A i \in 1 .. l - k : w[k - 1 + i] = s[k + i]
  BY <1>1, <1>2, <1>4 DEF Chain
<1> HIDE DEF l
<1>6. ASSUME NEW i \in DOMAIN w
      PROVE  w[i] = s[IF i < k THEN i ELSE i + 1]
  <2>1. l \in Nat /\ k \in 1 .. l
    BY <1>1 DEF l
  <2>2. i \in 1 .. l - 1
    BY <1>5
  <2>3. CASE i < k
    BY <1>5, <2>1, <2>2, <2>3
  <2>4. CASE ~(i < k)
    <3>1. i - k + 1 \in 1 .. l - k /\ k - 1 + (i - k + 1) = i /\ k + (i - k + 1) = i + 1
      BY <2>1, <2>2, <2>4
    <3> QED
      BY <1>5, <2>4, <3>1
  <2> QED
    BY <2>3, <2>4
<1> QED
  BY <1>4, <1>5, <1>6 DEF w, l

LEMMA RemovedApart ==
    ASSUME NEW E, NEW s \in Seq(E), IsInjective(s), NEW k \in DOMAIN s
    PROVE  LET w == RemoveAt(s, k)
           IN  IsInjective(w) /\ \A b : In(w, b) <=> In(s, b) /\ b # s[k]
<1> DEFINE w == RemoveAt(s, k)
           l == Len(s)
           at(i) == IF i < k THEN i ELSE i + 1
<1>1. l \in Nat /\ k \in 1 .. l /\ DOMAIN s = 1 .. l
  OBVIOUS
<1>2. DOMAIN w = 1 .. l - 1 /\ \A i \in DOMAIN w : w[i] = s[at(i)]
  BY RemovedIs
<1>3. \A i, j \in DOMAIN s : s[i] = s[j] => i = j
  BY DEF IsInjective
<1> HIDE DEF w, l
<1>4. /\ \A i \in DOMAIN w : at(i) \in DOMAIN s /\ at(i) # k
      /\ \A i, j \in DOMAIN w : at(i) = at(j) => i = j
  BY <1>1, <1>2
<1>5. \A i \in DOMAIN s : i # k => \E j \in DOMAIN w : at(j) = i
  <2> SUFFICES ASSUME NEW i \in DOMAIN s, i # k PROVE \E j \in DOMAIN w : at(j) = i
    OBVIOUS
  <2>1. CASE i < k
    <3>1. i \in DOMAIN w /\ at(i) = i
      BY <1>1, <1>2, <2>1
    <3> QED
      BY <3>1
  <2>2. CASE i > k
    <3>1. i - 1 \in DOMAIN w /\ at(i - 1) = i
      BY <1>1, <1>2, <2>2
    <3> QED
      BY <3>1
  <2> QED
    BY <1>1, <2>1, <2>2
<1> HIDE DEF at
<1>6. IsInjective(w)
  BY <1>2, <1>3, <1>4 DEF IsInjective
<1>7. \A b : In(w, b) <=> In(s, b) /\ b # s[k]
  BY <1>1, <1>2, <1>3, <1>4, <1>5 DEF In
<1> QED
  BY <1>6, <1>7 DEF w

(* A transformation reported is one no longer to be done.                  *)
LEMMA SettleTransforms ==
    ASSUME NEW ms \in Seq(Message), NEW H \in SUBSET Thread, Sound(ms, "T", H, <<>>),
           NEW h \in H, NEW k \in DOMAIN h.tmps
    PROVE  LET m == Result("T", h.nodo, h.tmps[k])
               G == OneLess(H, h, k)
           IN  /\ Sound(ms \o <<m>>, "T", G, <<>>)
               /\ \A x, n, b : Owed(ms \o <<m>>, "T", G, <<>>, x, n, b)
                                 <=> Owed(ms, "T", H, <<>>, x, n, b)
<1> DEFINE m == Result("T", h.nodo, h.tmps[k])
           G == OneLess(H, h, k)
           rest == RemoveAt(h.tmps, k)
           g == [h EXCEPT !.tmps = rest]
<1>1. h \in Thread /\ h.nodo \in Node /\ h.tmps \in Seq(Block) /\ h.tmps[k] \in Block
  BY DEF Thread
<1>2. /\ \A f, e \in H : f.nodo = e.nodo => f = e
      /\ \A f \in H : IsInjective(f.tmps)
  BY DEF Sound, Separate
<1>3. /\ IsInjective(rest) /\ \A b : In(rest, b) <=> In(h.tmps, b) /\ b # h.tmps[k]
      /\ DOMAIN rest = 1 .. Len(h.tmps) - 1
  BY <1>1, <1>2, RemovedApart, RemovedIs
<1>4. g.nodo = h.nodo /\ g.tmps = rest
  BY <1>1 DEF Thread
<1>5. /\ m \in Message /\ m.op = "O" /\ m.etapa = "T" /\ m.node = h.nodo /\ m.block = h.tmps[k]
  BY <1>1, ResultIs DEF Stage
<1>6. /\ G \subseteq (H \ {h}) \cup {g} /\ H \ {h} \subseteq G
      /\ rest # <<>> => g \in G
  BY Zenon DEF OneLess
<1>7. In(h.tmps, h.tmps[k])
  BY DEF In
<1>8. rest = <<>> => \A b : ~In(rest, b)
  BY DEF In
<1> HIDE DEF m, G, rest, g
<1>9. \A n, b : (\E f \in G : f.nodo = n /\ In(f.tmps, b))
                  <=> /\ \E f \in H : f.nodo = n /\ In(f.tmps, b)
                      /\ ~(n = h.nodo /\ b = h.tmps[k])
  <2> TAKE n, b
  <2>1. CASE n = h.nodo
    <3>1. (\E f \in H : f.nodo = n /\ In(f.tmps, b)) <=> In(h.tmps, b)
      BY <1>2, <2>1
    <3>2. (\E f \in G : f.nodo = n /\ In(f.tmps, b)) <=> In(rest, b)
      BY <1>2, <1>4, <1>6, <1>8, <2>1
    <3> QED
      BY <1>3, <2>1, <3>1, <3>2
  <2>2. CASE n # h.nodo
    BY <1>4, <1>6, <2>2
  <2> QED
    BY <2>1, <2>2
<1>10. \A x, n, b : Doing("T", G, x, n, b) <=> Doing("T", H, x, n, b) /\ ~IsResult(m, x, n, b)
  <2> TAKE x, n, b
  <2>1. IsResult(m, x, n, b) <=> x = "T" /\ n = h.nodo /\ b = h.tmps[k]
    BY <1>5 DEF IsResult
  <2>2. CASE x = "T"
    <3>1. \A K : Doing("T", K, x, n, b) <=> \E f \in K : f.nodo = n /\ In(f.tmps, b)
      BY <2>2 DEF Doing, WorksOn
    <3> QED
      BY <1>9, <2>1, <2>2, <3>1
  <2>3. CASE x # "T"
    BY <2>3 DEF Doing
  <2> QED
    BY <2>2, <2>3
<1>11. Doing("T", H, m.etapa, m.node, m.block) /\ \A x, n, b : IsResult(m, x, n, b) => Doing("T", H, x, n, b)
  BY <1>5, <1>7 DEF Doing, WorksOn, IsResult
<1>12. /\ Once(ms) /\ \A x, n, b : ~(Says(ms, x, n, b) /\ Doing("T", H, x, n, b))
  BY DEF Sound
<1>13. ~Says(ms, m.etapa, m.node, m.block)
  BY <1>11, <1>12
<1>14. /\ \A x, n, b : Says(ms \o <<m>>, x, n, b) <=> Says(ms, x, n, b) \/ IsResult(m, x, n, b)
       /\ Once(ms \o <<m>>)
  BY <1>5, <1>12, <1>13, SaysMore
<1>15. Separate("T", G)
  <2>1. \A f \in G : f.nodo = h.nodo => f = g
    BY <1>2, <1>4, <1>6
  <2>2. \A f, e \in G : f.nodo = e.nodo => f = e
    BY <1>2, <1>4, <1>6, <2>1
  <2>3. \A f \in G : IsInjective(f.tmps)
    BY <1>2, <1>3, <1>4, <1>6
  <2> QED
    BY <2>2, <2>3 DEF Separate
<1>16. Sound(ms \o <<m>>, "T", G, <<>>)
  BY <1>10, <1>12, <1>14, <1>15 DEF Sound
<1>17. \A x, n, b : Owed(ms \o <<m>>, "T", G, <<>>, x, n, b) <=> Owed(ms, "T", H, <<>>, x, n, b)
  BY <1>10, <1>11, <1>14 DEF Owed
<1> QED
  BY <1>16, <1>17 DEF m, G

(* Nor is a reduction or a store that is reported.                         *)
LEMMA SettleReports ==
    ASSUME NEW e \in {"L", "G", "S"}, NEW ms \in Seq(Message), NEW H, Sound(ms, e, H, <<>>),
           NEW h \in H, h.nodo \in Node
    PROVE  LET m == Result(e, h.nodo, <<>>)
               G == H \ {h}
           IN  /\ Sound(ms \o <<m>>, e, G, <<>>)
               /\ \A x, n, b : Owed(ms \o <<m>>, e, G, <<>>, x, n, b)
                                 <=> Owed(ms, e, H, <<>>, x, n, b)
<1> DEFINE m == Result(e, h.nodo, <<>>)
           G == H \ {h}
<1>1. \A f, g \in H : f.nodo = g.nodo => f = g
  BY DEF Sound, Separate
<1>2. /\ m \in Message /\ m.op = "O" /\ m.etapa = e /\ m.node = h.nodo /\ m.block = <<>>
  BY ResultIs DEF Stage
<1> HIDE DEF m
<1>3. ASSUME NEW x, NEW n, NEW b
      PROVE  /\ Doing(e, G, x, n, b) <=> Doing(e, H, x, n, b) /\ ~IsResult(m, x, n, b)
             /\ IsResult(m, x, n, b) => Doing(e, H, x, n, b)
  <2>1. IsResult(m, x, n, b) <=> x = e /\ n = h.nodo /\ b = <<>>
    BY <1>2 DEF IsResult
  <2>2. \A K : Doing(e, K, x, n, b) <=> x = e /\ b = <<>> /\ \E f \in K : f.nodo = n
    BY DEF Doing, WorksOn
  <2> QED
    BY <1>1, <2>1, <2>2
<1>4. /\ Once(ms) /\ \A x, n, b : ~(Says(ms, x, n, b) /\ Doing(e, H, x, n, b))
  BY DEF Sound
<1>5. IsResult(m, m.etapa, m.node, m.block)
  BY <1>2 DEF IsResult
<1>6. ~Says(ms, m.etapa, m.node, m.block)
  BY <1>3, <1>4, <1>5
<1>7. /\ \A x, n, b : Says(ms \o <<m>>, x, n, b) <=> Says(ms, x, n, b) \/ IsResult(m, x, n, b)
      /\ Once(ms \o <<m>>)
  BY <1>2, <1>4, <1>6, SaysMore
<1>8. Separate(e, G)
  BY DEF Sound, Separate
<1>9. Sound(ms \o <<m>>, e, G, <<>>)
  BY <1>3, <1>4, <1>7, <1>8 DEF Sound
<1>10. \A x, n, b : Owed(ms \o <<m>>, e, G, <<>>, x, n, b) <=> Owed(ms, e, H, <<>>, x, n, b)
  BY <1>3, <1>7 DEF Owed
<1> QED
  BY <1>9, <1>10 DEF m

(* A request adds nothing, and nothing is done without threads.            *)
LEMMA SettleRequests ==
    ASSUME NEW ms \in Seq(Message), NEW p, Sound(ms, p, {}, <<>>), NEW m \in Message, m.op # "O",
           NEW q
    PROVE  /\ Sound(ms \o <<m>>, q, {}, <<>>)
           /\ \A x, n, b : Owed(ms \o <<m>>, q, {}, <<>>, x, n, b) <=> Owed(ms, p, {}, <<>>, x, n, b)
<1>1. \A x, n, b : ~IsResult(m, x, n, b)
  BY DEF IsResult
<1>2. Once(ms)
  BY DEF Sound
<1>3. /\ \A x, n, b : Says(ms \o <<m>>, x, n, b) <=> Says(ms, x, n, b)
      /\ Once(ms \o <<m>>)
  BY <1>1, <1>2, SaysMore
<1>4. \A r, x, n, b : ~Doing(r, {}, x, n, b)
  BY DEF Doing
<1>5. Separate(q, {})
  BY DEF Separate
<1>6. Sound(ms \o <<m>>, q, {}, <<>>)
  BY <1>3, <1>4, <1>5 DEF Sound
<1>7. \A x, n, b : Owed(ms \o <<m>>, q, {}, <<>>, x, n, b) <=> Owed(ms, p, {}, <<>>, x, n, b)
  BY <1>3, <1>4 DEF Owed
<1> QED
  BY <1>6, <1>7

(* The steps of a master leave the account as it is.                       *)
LEMMA MovesAccount ==
    ASSUME NEW fd \in FDs, Account(fd), NEW ms, NEW p, NEW H, Moves(fd, ms, p, H),
           tabla_estados' = tabla_estados, Sound(ms, p, H, <<>>),
           \A x, n, b : Owed(ms, p, H, <<>>, x, n, b)
                          <=> Owed(pedidos[fd], pc[fd], hilos[fd], salida[fd], x, n, b)
    PROVE  Account(fd)'
<1>1. pedidos'[fd] = ms /\ salida'[fd] = <<>> /\ pc'[fd] = p /\ hilos'[fd] = H
  BY DEF Moves
<1>2. /\ OpenOnce(tabla_estados, fd)
      /\ \A x, n, b : Owed(pedidos[fd], pc[fd], hilos[fd], salida[fd], x, n, b)
                      <=> Open(tabla_estados, fd, x, n, b)
  BY DEF Account
<1>3. \A x, n, b : Owed(ms, p, H, <<>>, x, n, b) <=> Open(tabla_estados, fd, x, n, b)
  BY <1>2
<1> QED
  BY <1>1, <1>2, <1>3, Zenon DEF Account

LEMMA AsksAccount ==
    ASSUME TypeInv, NEW fd \in FDs, Calm(fd), Account(fd), tabla_estados' = tabla_estados,
           Asks(fd) \/ GoesOn(fd)
    PROVE  Account(fd)'
<1>0. PICK m \in Message :
         /\ m.op # "O" /\ hilos[fd] = {} /\ salida[fd] = <<>>
         /\ \E q : Moves(fd, pedidos[fd] \o <<m>>, q, {})
  <2>1. CASE Asks(fd)
    <3>1. PICK arch \in Files : Moves(fd, <<[op |-> "T", file |-> arch]>>, "esperaT", {})
      BY <2>1 DEF Asks
    <3> DEFINE m == [op |-> "T", file |-> arch]
    <3>2. m \in Message /\ m.op # "O"
      BY MessagesAre
    <3>3. pedidos[fd] = <<>> /\ hilos[fd] = {} /\ salida[fd] = <<>>
      BY <2>1, CourseAt DEF Asks
    <3>4. Moves(fd, <<m>>, "esperaT", {})
      BY <3>1
    <3> HIDE DEF m
    <3>5. pedidos[fd] \o <<m>> = <<m>>
      BY <3>2, <3>3
    <3> QED
      BY <3>2, <3>3, <3>4, <3>5
  <2>2. CASE GoesOn(fd)
    <3>1. PICK to \in Stage : /\ hilos[fd] = {} /\ pc[fd] \in {"T", "L"} /\ to \in {"L", "G"}
                              /\ Moves(fd, pedidos[fd] \o <<[op |-> to]>>, Stages[to], {})
      BY <2>2 DEF GoesOn, Stage
    <3> DEFINE m == [op |-> to]
    <3>2. m \in Message /\ m.op # "O"
      BY <3>1, MessagesAre
    <3>3. salida[fd] = <<>>
      BY <3>1, CourseAt
    <3> QED
      BY <3>1, <3>2, <3>3
  <2> QED
    BY <2>1, <2>2
<1>1. PICK q : /\ m.op # "O" /\ hilos[fd] = {} /\ salida[fd] = <<>>
               /\ Moves(fd, pedidos[fd] \o <<m>>, q, {})
  BY <1>0, Zenon
<1> DEFINE ms == pedidos[fd] \o <<m>>
<1>2. pedidos[fd] \in Seq(Message)
  BY DEF TypeInv, SocketsOK
<1>3. Sound(pedidos[fd], pc[fd], {}, <<>>)
  BY <1>1 DEF Account
<1>4. /\ Sound(ms, q, {}, <<>>)
      /\ \A x, n, b : Owed(ms, q, {}, <<>>, x, n, b)
                        <=> Owed(pedidos[fd], pc[fd], {}, <<>>, x, n, b)
  BY <1>1, <1>2, <1>3, SettleRequests
<1>5. \A x, n, b : Owed(ms, q, {}, <<>>, x, n, b)
                        <=> Owed(pedidos[fd], pc[fd], hilos[fd], salida[fd], x, n, b)
  BY <1>1, <1>4
<1>6. Moves(fd, ms, q, {})
  BY <1>1
<1> HIDE DEF ms
<1> QED
  BY <1>4, <1>5, <1>6, MovesAccount

LEMMA StartsAccount ==
    ASSUME TypeInv, NEW fd \in FDs, Calm(fd), Account(fd), tabla_estados' = tabla_estados,
           Starts(fd)
    PROVE  Account(fd)'
<1> DEFINE r == Head(salida[fd])
           H == ThreadsFor(r.data)
<1>1. PICK e \in Stage : /\ pc[fd] = Stages[e] /\ pedidos[fd] = <<>> /\ salida[fd] # <<>>
                         /\ Moves(fd, <<>>, e, H)
  BY DEF Starts
<1>2. hilos[fd] = {} /\ r.op = e
  BY <1>1, CourseAt DEF Waits
<1>3. r.data \in Seq(Task)
  <2>1. salida[fd] \in Seq(Reply)
    BY DEF TypeInv, SocketsOK
  <2>2. r \in Reply
    BY <1>1, <2>1
  <2> QED
    BY <2>2 DEF Reply
<1>4. Tidy(r)
  BY <1>1 DEF Account, Sound
<1>5. \A x, n, b : Told(salida[fd], x, n, b) <=> Told(<<r>>, x, n, b)
  <2>1. Head(<<r>>) = r /\ <<r>> # <<>>
    OBVIOUS
  <2> QED
    BY <1>1, <2>1 DEF Told
<1> HIDE DEF r
<1>6. /\ Sound(<<>>, e, H, <<>>)
      /\ \A x, n, b : Owed(<<>>, e, H, <<>>, x, n, b) <=> Owed(<<>>, Stages[e], {}, <<r>>, x, n, b)
  BY <1>2, <1>3, <1>4, SettleStarts
<1> HIDE DEF H
<1>7. \A x, n, b : Owed(<<>>, e, H, <<>>, x, n, b)
                     <=> Owed(pedidos[fd], pc[fd], hilos[fd], salida[fd], x, n, b)
  BY <1>1, <1>2, <1>5, <1>6 DEF Owed
<1> QED
  BY <1>1, <1>6, <1>7, MovesAccount

LEMMA ReportsAccount ==
    ASSUME TypeInv, NEW fd \in FDs, Calm(fd), Account(fd), tabla_estados' = tabla_estados,
           Transforms(fd) \/ Reduces(fd)
    PROVE  Account(fd)'
<1> DEFINE ms == pedidos[fd]
           p == pc[fd]
           H == hilos[fd]
<1>1. ms \in Seq(Message) /\ H \in SUBSET Thread
  BY DEF TypeInv, SocketsOK, MasterOK
<1>2. salida[fd] = <<>>
  BY CourseAt DEF Transforms, Reduces
<1>3. Sound(ms, p, H, <<>>)
  BY <1>2 DEF Account
<1>4. CASE Transforms(fd)
  <2>1. PICK h \in hilos[fd] : \E k \in DOMAIN h.tmps :
           Moves(fd, ms \o <<Result("T", h.nodo, h.tmps[k])>>, "T", OneLess(H, h, k))
    BY <1>4, Zenon DEF Transforms
  <2>2. PICK k \in DOMAIN h.tmps :
           Moves(fd, ms \o <<Result("T", h.nodo, h.tmps[k])>>, "T", OneLess(H, h, k))
    BY <2>1
  <2>3. p = "T"
    BY <1>4, Zenon DEF Transforms
  <2> DEFINE m == Result("T", h.nodo, h.tmps[k])
             G == OneLess(H, h, k)
             t == ms \o <<m>>
  <2>4. h \in H
    OBVIOUS
  <2>9. Sound(ms, "T", H, <<>>)
    BY <1>3, <2>3
  <2>5. Moves(fd, t, "T", G)
    BY <2>2
  <2> HIDE DEF H, ms
  <2>6. /\ Sound(t, "T", G, <<>>)
        /\ \A x, n, b : Owed(t, "T", G, <<>>, x, n, b) <=> Owed(ms, "T", H, <<>>, x, n, b)
    BY <1>1, <2>4, <2>9, SettleTransforms, Zenon
  <2> HIDE DEF t, G, p
  <2>7. \A x, n, b : Owed(t, "T", G, <<>>, x, n, b) <=> Owed(ms, p, H, salida[fd], x, n, b)
    BY <1>2, <2>3, <2>6
  <2>8. \A x, n, b : Owed(t, "T", G, <<>>, x, n, b)
                       <=> Owed(pedidos[fd], pc[fd], hilos[fd], salida[fd], x, n, b)
    BY <2>7, Zenon DEF p, H, ms
  <2> QED
    BY <2>5, <2>6, <2>8, MovesAccount
<1>5. CASE Reduces(fd)
  <2>1. PICK h \in hilos[fd] :
           pc[fd] = "L" /\ Moves(fd, ms \o <<Result("L", h.nodo, <<>>)>>, "L", hilos[fd] \ {h})
    BY <1>5, Zenon DEF Reduces
  <2>2. p = "L"
    BY <2>1
  <2> DEFINE m == Result("L", h.nodo, <<>>)
             G == H \ {h}
             t == ms \o <<m>>
  <2>3. h \in H /\ h.nodo \in Node
    BY ThreadIs DEF TypeInv
  <2>4. Sound(ms, "L", H, <<>>)
    BY <1>3, <2>2
  <2>5. Moves(fd, t, "L", G)
    BY <2>1
  <2> HIDE DEF H, ms
  <2>9. "L" \in {"L", "G", "S"}
    OBVIOUS
  <2>6. /\ Sound(t, "L", G, <<>>)
        /\ \A x, n, b : Owed(t, "L", G, <<>>, x, n, b) <=> Owed(ms, "L", H, <<>>, x, n, b)
    BY <1>1, <2>3, <2>4, <2>9, SettleReports, Zenon
  <2> HIDE DEF t, G, p
  <2>7. \A x, n, b : Owed(t, "L", G, <<>>, x, n, b) <=> Owed(ms, p, H, salida[fd], x, n, b)
    BY <1>2, <2>2, <2>6
  <2>8. \A x, n, b : Owed(t, "L", G, <<>>, x, n, b)
                       <=> Owed(pedidos[fd], pc[fd], hilos[fd], salida[fd], x, n, b)
    BY <2>7, Zenon DEF p, H, ms
  <2> QED
    BY <2>5, <2>6, <2>8, MovesAccount
<1> QED
  BY <1>4, <1>5

LEMMA EndsAccount ==
    ASSUME TypeInv, NEW fd \in FDs, Calm(fd), Account(fd), tabla_estados' = tabla_estados,
           Ends(fd)
    PROVE  Account(fd)'
<1>0. PICK e \in {"G", "S"}, h \in hilos[fd], m \in Message :
         /\ pc[fd] = e /\ pedidos[fd] = <<>> /\ m.op # "O"
         /\ \E q : Moves(fd, <<Result(e, h.nodo, <<>>), m>>, q, {})
  <2>1. PICK e \in {"G", "S"} :
         /\ pc[fd] = e /\ pedidos[fd] = <<>>
         /\ LET m == IF e = "G" THEN [op |-> "S"] ELSE [op |-> "FIN"]
                l == IF e = "G" THEN "esperaS" ELSE "off"
            IN  \E h \in hilos[fd] : Moves(fd, <<Result(e, h.nodo, <<>>), m>>, l, {})
    BY Zenon DEF Ends
  <2> DEFINE m == IF e = "G" THEN [op |-> "S"] ELSE [op |-> "FIN"]
             l == IF e = "G" THEN "esperaS" ELSE "off"
  <2>2. PICK h \in hilos[fd] : Moves(fd, <<Result(e, h.nodo, <<>>), m>>, l, {})
    BY <2>1
  <2>3. m \in Message /\ m.op # "O"
    BY MessagesAre
  <2> HIDE DEF m, l
  <2> QED
    BY <2>1, <2>2, <2>3
<1>1. PICK q : /\ pc[fd] = e /\ pedidos[fd] = <<>> /\ m.op # "O"
               /\ Moves(fd, <<Result(e, h.nodo, <<>>), m>>, q, {})
  BY <1>0, Zenon
<1> DEFINE o == Result(e, h.nodo, <<>>)
           H == hilos[fd]
<1>2. salida[fd] = <<>>
  BY <1>1, CourseAt
<1>3. Sound(<<>>, e, H, <<>>)
  BY <1>1, <1>2 DEF Account
<1>4. h \in H /\ h.nodo \in Node /\ o \in Message
  BY ThreadIs, ResultIs DEF TypeInv, Stage
<1>5. \A f \in H : f = h
  BY <1>3, <1>4 DEF Sound, Separate
<1>6. H \ {h} = {}
  BY <1>5
<1>7. <<>> \in Seq(Message) /\ e \in {"L", "G", "S"}
  OBVIOUS
<1>8. Moves(fd, <<o, m>>, q, {})
  BY <1>1
<1> HIDE DEF H
<1>9. /\ Sound(<<>> \o <<o>>, e, H \ {h}, <<>>)
      /\ \A x, n, b : Owed(<<>> \o <<o>>, e, H \ {h}, <<>>, x, n, b) <=> Owed(<<>>, e, H, <<>>, x, n, b)
  BY <1>3, <1>4, <1>7, SettleReports, Zenon
<1> HIDE DEF o
<1>10. <<>> \o <<o>> = <<o>> /\ <<o>> \in Seq(Message) /\ <<o>> \o <<m>> = <<o, m>>
  <2>1. <<o>> \o <<m>> = Append(<<o>>, m)
    BY <1>4
  <2>2. Append(<<o>>, m) = <<o, m>>
    BY TwoInOrder
  <2>3. <<>> \o <<o>> = <<o>> /\ <<o>> \in Seq(Message)
    BY <1>4
  <2> QED
    BY <2>1, <2>2, <2>3, Zenon
<1>11. /\ Sound(<<o>>, e, {}, <<>>)
       /\ \A x, n, b : Owed(<<o>>, e, {}, <<>>, x, n, b) <=> Owed(<<>>, e, H, <<>>, x, n, b)
  BY <1>6, <1>9, <1>10
<1>12. /\ Sound(<<o>> \o <<m>>, q, {}, <<>>)
       /\ \A x, n, b : Owed(<<o>> \o <<m>>, q, {}, <<>>, x, n, b) <=> Owed(<<o>>, e, {}, <<>>, x, n, b)
  BY <1>1, <1>10, <1>11, SettleRequests
<1>13. /\ Sound(<<o, m>>, q, {}, <<>>)
       /\ \A x, n, b : Owed(<<o, m>>, q, {}, <<>>, x, n, b)
                         <=> Owed(pedidos[fd], pc[fd], hilos[fd], salida[fd], x, n, b)
  BY <1>1, <1>2, <1>10, <1>11, <1>12 DEF H
<1> QED
  BY <1>8, <1>13, MovesAccount

LEMMA WorksAccount ==
    ASSUME TypeInv, NEW fd \in FDs, Calm(fd), Account(fd), MasterStep(fd), UNCHANGED yamaVars
    PROVE  Account(fd)'
<1>1. tabla_estados' = tabla_estados
  BY DEF yamaVars
<1> QED
  BY <1>1, CalmWorks, AsksAccount, StartsAccount, ReportsAccount, EndsAccount

(* What is left of a number, by any quotient that leaves less than a word. *)
LEMMA RestIs ==
    ASSUME NEW x \in Int, NEW q \in Int, NEW r \in 0 .. WordSize - 1, x = WordSize * q + r
    PROVE  x % WordSize = r
<1> DEFINE W == WordSize
           p == x \div W
           s == x % W
<1>1. W \in Nat /\ W > 1
  BY WordAssumption
<1>2. p \in Int /\ s \in 0 .. W - 1 /\ x = W * p + s
  BY <1>1, SMT
<1> HIDE DEF p, s
<1> DEFINE d == p - q
<1>3. d \in Int /\ W * d = r - s
  BY <1>1, <1>2, SMT
<1>4. p = q + d
  BY <1>2
<1> HIDE DEF d, W
<1>9. r \in Int /\ s \in Int /\ r - s < W /\ r - s > 0 - W
  BY <1>1, <1>2 DEF W
<1>5. CASE d >= 1
  <2>1. W * d >= W
    BY <1>1, <1>3, <1>5, SMT
  <2> QED
    BY <1>1, <1>3, <1>9, <2>1
<1>6. CASE d <= 0 - 1
  <2>1. W * d <= 0 - W
    BY <1>1, <1>3, <1>6, SMT
  <2> QED
    BY <1>1, <1>3, <1>9, <2>1
<1>7. CASE d = 0
  <2>1. W * d = 0
    BY <1>1, <1>7
  <2> QED
    BY <1>3, <1>9, <2>1 DEF s, W
<1> QED
  BY <1>3, <1>5, <1>6, <1>7

(* The counter of a node counts modulo WordSize.                           *)
LEMMA CountsOn ==
    ASSUME NEW c \in Nat
    PROVE  /\ ((c % WordSize) + 1) % WordSize = (c + 1) % WordSize
           /\ (((c + 1) % WordSize) - 1) % WordSize = c % WordSize
<1> DEFINE W == WordSize
           q == c \div W
           r == c % W
<1>1. W \in Nat /\ W > 1
  BY WordAssumption
<1>2. q \in Int /\ r \in 0 .. W - 1 /\ c = W * q + r
  BY <1>1, SMT
<1> HIDE DEF q, r
<1>3. CASE r + 1 < W
  <2>1. r + 1 \in 0 .. W - 1 /\ c + 1 = W * q + (r + 1) /\ r + 1 = W * 0 + (r + 1) /\ r = W * 0 + r
    BY <1>1, <1>2, <1>3
  <2>2. (c + 1) % W = r + 1
    BY <1>2, <2>1, RestIs
  <2>3. (r + 1) % W = r + 1 /\ r % W = r
    BY <1>2, <2>1, RestIs
  <2>4. (r + 1) - 1 = r
    BY <1>2
  <2> QED
    BY <2>2, <2>3, <2>4 DEF r
<1>4. CASE r + 1 = W
  <2>1. 0 \in 0 .. W - 1 /\ c + 1 = W * (q + 1) + 0 /\ q + 1 \in Int
    BY <1>1, <1>2, <1>4
  <2>2. (c + 1) % W = 0
    BY <1>2, <2>1, RestIs
  <2>3. (r + 1) % W = 0
    <3>1. r + 1 = W * 1 + 0 /\ r + 1 \in Int
      BY <1>1, <1>2, <1>4
    <3> QED
      BY <2>1, <3>1, RestIs
  <2>4. (0 - 1) % W = r
    <3>1. 0 - 1 = W * (0 - 1) + r /\ 0 - 1 \in Int
      BY <1>1, <1>2, <1>4
    <3> QED
      BY <1>2, <3>1, RestIs
  <2> QED
    BY <2>2, <2>3, <2>4 DEF r
<1> QED
  BY <1>1, <1>2, <1>3, <1>4

(* The tasks in process on a node, in the rows s; every counter of the     *)
(* table t has their number.                                               *)
On(s, n) == {i \in DOMAIN s : s[i].status = "P" /\ s[i].node = n}
Balanced(t, s) ==
    \A k \in DOMAIN t :
       t[k].tasks_in_progress = Cardinality(On(s, t[k].node_id)) % WordSize

LEMMA OnIsFinite ==
    ASSUME NEW R, NEW s \in Seq(R), NEW n
    PROVE  IsFiniteSet(On(s, n)) /\ Cardinality(On(s, n)) \in Nat
<1>1. On(s, n) \in SUBSET (1 .. Len(s)) /\ Len(s) \in Nat
  BY DEF On
<1>2. IsFiniteSet(1 .. Len(s))
  BY <1>1, FS_Interval
<1>3. IsFiniteSet(On(s, n))
  BY <1>1, <1>2, FS_Subset
<1> QED
  BY <1>3, FS_CardinalityType

(* Tables that differ in nothing but availabilities, errors and counts of  *)
(* what was done.                                                          *)
SameLoads(t, g) ==
    /\ DOMAIN g = DOMAIN t
    /\ \A i \in DOMAIN t : /\ g[i].node_id = t[i].node_id
                           /\ g[i].tasks_in_progress = t[i].tasks_in_progress
LEMMA LoadsStay ==
    ASSUME NEW t, NEW g, SameLoads(t, g), NEW s, Balanced(t, s)
    PROVE  Balanced(g, s)
BY DEF SameLoads, Balanced

LEMMA OtherRow ==
    ASSUME NEW t, Table_OK(t), NEW k \in DOMAIN t, NEW n, t[k].node_id # n
    PROVE  k # FindNode(t, n)
<1>1. CASE Known(t, n)
  BY <1>1, FindNodeFindsRow DEF Known
<1>2. CASE ~Known(t, n)
  BY <1>2 DEF FindNode, Table_OK
<1> QED
  BY <1>1, <1>2

(* One task more, charged to its node.                                     *)
LEMMA ChargeBalances ==
    ASSUME NEW t, Table_OK(t), NEW R, NEW s \in Seq(R), Balanced(t, s),
           NEW r \in R, r.status = "P"
    PROVE  Balanced(IncreaseNodeCharge(t, r.node), Append(s, r))
<1> DEFINE g == IncreaseNodeCharge(t, r.node)
           w == Append(s, r)
           l == Len(s) + 1
<1>1. /\ l \in Nat /\ DOMAIN w = DOMAIN s \cup {l} /\ l \notin DOMAIN s /\ w[l] = r
      /\ \A i \in DOMAIN s : w[i] = s[i]
  OBVIOUS
<1> HIDE DEF w, l
<1>2. /\ \A n : n # r.node => On(w, n) = On(s, n)
      /\ On(w, r.node) = On(s, r.node) \cup {l} /\ l \notin On(s, r.node)
  BY <1>1 DEF On
<1>3. \A n : IsFiniteSet(On(s, n)) /\ Cardinality(On(s, n)) \in Nat
  BY OnIsFinite
<1>4. Cardinality(On(w, r.node)) = Cardinality(On(s, r.node)) + 1
  BY <1>2, <1>3, FS_AddElement
<1> SUFFICES ASSUME NEW k \in DOMAIN g
             PROVE  g[k].tasks_in_progress = Cardinality(On(w, g[k].node_id)) % WordSize
  BY DEF Balanced, w
<1>5. DOMAIN g = DOMAIN t /\ t[k] \in NodeRow
  BY DEF IncreaseNodeCharge, Table_OK
<1>6. g[k] = IF k = FindNode(t, r.node) THEN Charged(t[k]) ELSE t[k]
  BY <1>5 DEF IncreaseNodeCharge
<1> HIDE DEF g
<1>7. t[k].tasks_in_progress = Cardinality(On(s, t[k].node_id)) % WordSize
  BY <1>5 DEF Balanced
<1>8. FindNode(t, t[k].node_id) = k
  BY <1>5, FindNodeFindsRow
<1>9. Charged(t[k]).tasks_in_progress = (t[k].tasks_in_progress + 1) % WordSize
      /\ Charged(t[k]).node_id = t[k].node_id
  BY <1>5 DEF Charged, NodeRow
<1>10. CASE t[k].node_id = r.node
  BY <1>3, <1>4, <1>6, <1>7, <1>8, <1>9, <1>10, CountsOn
<1>11. CASE t[k].node_id # r.node
  <2>1. k # FindNode(t, r.node)
    BY <1>5, <1>11, OtherRow
  <2> QED
    BY <1>2, <1>6, <1>7, <1>11, <2>1
<1> QED
  BY <1>10, <1>11

(* One task less, discharged from its node.                                *)
LEMMA DischargeBalances ==
    ASSUME NEW t, Table_OK(t), NEW R, NEW s \in Seq(R), Balanced(t, s), NEW w,
           NEW i \in DOMAIN s, s[i].status = "P", DOMAIN w = DOMAIN s, w[i].status # "P",
           \A j \in DOMAIN s : w[j].node = s[j].node /\ (j # i => w[j].status = s[j].status)
    PROVE  Balanced(DecreaseNodeCharge(t, s[i].node), w)
<1> DEFINE n == s[i].node
           g == DecreaseNodeCharge(t, n)
<1>1. /\ \A m : m # n => On(w, m) = On(s, m)
      /\ On(w, n) = On(s, n) \ {i} /\ i \in On(s, n)
  BY DEF On
<1>2. \A m : IsFiniteSet(On(s, m)) /\ Cardinality(On(s, m)) \in Nat
  BY OnIsFinite
<1>3. /\ Cardinality(On(w, n)) \in Nat
      /\ Cardinality(On(s, n)) = Cardinality(On(w, n)) + 1
  <2>1. IsFiniteSet(On(w, n)) /\ Cardinality(On(w, n)) = Cardinality(On(s, n)) - 1
    <3>1. i \in On(s, n) /\ IsFiniteSet(On(s, n))
      BY <1>1, <1>2
    <3> HIDE DEF n
    <3>2. /\ IsFiniteSet(On(s, n) \ {i})
          /\ Cardinality(On(s, n) \ {i}) = Cardinality(On(s, n)) - 1
      BY <3>1, FS_RemoveElement
    <3> QED
      BY <1>1, <3>2
  <2>2. Cardinality(On(w, n)) \in Nat
    BY <2>1, FS_CardinalityType
  <2> QED
    BY <1>2, <2>1, <2>2
<1> SUFFICES ASSUME NEW k \in DOMAIN g
             PROVE  g[k].tasks_in_progress = Cardinality(On(w, g[k].node_id)) % WordSize
  BY DEF Balanced
<1>5. DOMAIN g = DOMAIN t /\ t[k] \in NodeRow
  BY DEF DecreaseNodeCharge, Table_OK
<1>6. g[k] = IF k = FindNode(t, n) THEN Discharged(t[k]) ELSE t[k]
  BY <1>5 DEF DecreaseNodeCharge
<1> HIDE DEF g
<1>7. t[k].tasks_in_progress = Cardinality(On(s, t[k].node_id)) % WordSize
  BY <1>5 DEF Balanced
<1>8. FindNode(t, t[k].node_id) = k
  BY <1>5, FindNodeFindsRow
<1>9. Discharged(t[k]).tasks_in_progress = (t[k].tasks_in_progress - 1) % WordSize
      /\ Discharged(t[k]).node_id = t[k].node_id
  BY <1>5 DEF Discharged, NodeRow
<1> HIDE DEF n
<1>10. CASE t[k].node_id = n
  BY <1>3, <1>6, <1>7, <1>8, <1>9, <1>10, CountsOn
<1>11. CASE t[k].node_id # n
  <2>1. k # FindNode(t, n)
    BY <1>5, <1>11, OtherRow
  <2> QED
    BY <1>1, <1>6, <1>7, <1>11, <2>1
<1> QED
  BY <1>10, <1>11

(* A node that joins has nothing in process.                               *)
LEMMA JoinBalances ==
    ASSUME NEW t, Table_OK(t), NEW s, Balanced(t, s), NEW n, NEW base,
           \A i \in DOMAIN s : Known(t, s[i].node)
    PROVE  /\ Balanced(AddToNodeList(t, n, base), s)
           /\ \A m : Known(t, m) => Known(AddToNodeList(t, n, base), m)
<1> DEFINE g == AddToNodeList(t, n, base)
           r == NewNode(n, base)
           l == Len(t) + 1
<1>1. CASE Known(t, n)
  BY <1>1 DEF AddToNodeList
<1>2. CASE ~Known(t, n)
  <2>1. g = Append(t, r)
    BY <1>2 DEF AddToNodeList
  <2>2. t \in Seq(NodeRow)
    BY DEF Table_OK
  <2>3. r.node_id = n /\ r.tasks_in_progress = 0
    BY DEF NewNode
  <2> HIDE DEF g, r
  <2>4. /\ DOMAIN g = DOMAIN t \cup {l} /\ g[l] = r /\ \A i \in DOMAIN t : g[i] = t[i]
    BY <2>1, <2>2
  <2>5. On(s, n) = {}
    BY <1>2 DEF On
  <2>6. Cardinality(On(s, n)) % WordSize = 0
    <3>1. Cardinality(On(s, n)) = 0
      BY <2>5, FS_EmptySet
    <3>2. 0 % WordSize = 0
      <4>1. 0 \in 0 .. WordSize - 1 /\ 0 = WordSize * 0 + 0
        BY WordAssumption
      <4> QED
        BY <4>1, RestIs
    <3> QED
      BY <3>1, <3>2
  <2>7. Balanced(g, s)
    BY <2>3, <2>4, <2>6 DEF Balanced
  <2>8. \A m : Known(t, m) => Known(g, m)
    BY <2>4 DEF Known
  <2> QED
    BY <2>7, <2>8 DEF g
<1> QED
  BY <1>1, <1>2

(* Where a planning that started with t stands: the loads of t until it    *)
(* finds a node, then those with one charge on it.                         *)
ChargedOn(t, g, n) == \E u : Table_OK(u) /\ SameLoads(t, u) /\ g = IncreaseNodeCharge(u, n)
Charging(t, p) ==
    IF p.found = {} THEN SameLoads(t, p.tabla_nodos)
                    ELSE \E n : p.found = {n} /\ ChargedOn(t, p.tabla_nodos, n)

LEMMA CallCharges ==
    ASSUME NEW t, NEW replicas, NEW p, Planning(t, replicas, p), p.found = {},
           Charging(t, p), NEW base \in Int
    PROVE  Charging(t, EvaluateClock(p, replicas, base))
<1> DEFINE q == EvaluateClock(p, replicas, base)
           g == p.tabla_nodos
<1>1. PlanningOK(p) /\ SameLoads(t, g) /\ Table_OK(g)
  BY DEF Planning, Charging
<1>2. \A i \in DOMAIN g : g[i] \in NodeRow
  BY <1>1 DEF Table_OK
<1>3. CASE Suitable(p, replicas) /\ Available(p)
  <2>1. q = UpdateNodeInTable(p)
    BY <1>3 DEF EvaluateClock
  <2>2. q.found = {g[p.at].node_id} /\ q.tabla_nodos = IncreaseNodeCharge(g, g[p.at].node_id)
    BY <1>1, <2>1 DEF UpdateNodeInTable, PlanningOK, PlanState
  <2> HIDE DEF q, g
  <2>3. ChargedOn(t, q.tabla_nodos, g[p.at].node_id)
    BY <1>1, <2>2 DEF ChargedOn
  <2>4. q.found # {}
    BY <2>2
  <2>5. Charging(t, q)
    BY <2>2, <2>3, <2>4, Zenon DEF Charging
  <2> QED
    BY <2>5 DEF q
<1>4. CASE ~(Suitable(p, replicas) /\ Available(p))
  <2>1. q = RestoreAvailability(p, base) \/ q = AdvanceClockAux(p, base)
    BY <1>4 DEF EvaluateClock
  <2>2. q.found = {}
    BY <1>1, <2>1, RestoreOK, AdvanceOK
  <2>3. SameLoads(g, q.tabla_nodos)
    <3>1. CASE q = RestoreAvailability(p, base)
      <4>1. q.tabla_nodos = [g EXCEPT ![p.at].availability = base]
        BY <1>1, <3>1 DEF RestoreAvailability, PlanningOK, PlanState
      <4>2. p.at \in DOMAIN g
        BY <1>1 DEF PlanningOK
      <4> HIDE DEF q, g
      <4> QED
        BY <1>2, <4>1, <4>2 DEF SameLoads, NodeRow
    <3>2. CASE q = AdvanceClockAux(p, base)
      <4>1. q.tabla_nodos = AddAvailBase(g, base) \/ q.tabla_nodos = g
        BY <1>1, <3>2 DEF AdvanceClockAux, PlanningOK, PlanState
      <4> HIDE DEF q, g
      <4>2. \A i \in DOMAIN g : /\ [g[i] EXCEPT !.availability = @ + base].node_id = g[i].node_id
                                /\ [g[i] EXCEPT !.availability = @ + base].tasks_in_progress
                                     = g[i].tasks_in_progress
        BY <1>2 DEF NodeRow
      <4>3. SameLoads(g, AddAvailBase(g, base))
        BY <4>2 DEF SameLoads, AddAvailBase
      <4> QED
        BY <4>1, <4>3 DEF SameLoads
    <3> QED
      BY <2>1, <3>1, <3>2
  <2> HIDE DEF q, g
  <2>4. SameLoads(t, q.tabla_nodos)
    BY <1>1, <2>3 DEF SameLoads
  <2>5. Charging(t, q)
    BY <2>2, <2>4, Zenon DEF Charging
  <2> QED
    BY <2>5 DEF q
<1> QED
  BY <1>3, <1>4

LEMMA PlanningCharges ==
    ASSUME NEW t, Table_OK(t), t # <<>>, NEW replicas, NEW base \in Int,
           NEW depth \in Nat
    PROVE  Charging(t, DoPlanning(t, replicas, base, depth))
<1>1. PICK f : Calls(f, t, replicas, base, depth)
  BY DoPlanningByCalls
<1> DEFINE S == {k \in 0 .. depth : Charging(t, f[k])}
<1>2. 0 \in S
  <2>1. f[0].found = {} /\ f[0].tabla_nodos = t
    BY <1>1, StartOK DEF Calls
  <2>2. SameLoads(t, t)
    BY DEF SameLoads
  <2> QED
    BY <2>1, <2>2 DEF Charging
<1>3. \A k \in 0 .. depth - 1 : k \in S => k + 1 \in S
  <2> SUFFICES ASSUME NEW k \in 0 .. depth - 1, Charging(t, f[k]) PROVE Charging(t, f[k + 1])
    OBVIOUS
  <2>1. k + 1 \in 1 .. depth /\ (k + 1) - 1 = k /\ k \in 0 .. depth
    OBVIOUS
  <2>2. f[k + 1] = IF f[k].found # {} THEN f[k] ELSE EvaluateClock(f[k], replicas, base)
    BY <1>1, <2>1 DEF Calls
  <2>3. Planning(t, replicas, f[k])
    BY <1>1, <2>1 DEF Calls
  <2> QED
    BY <2>2, <2>3, CallCharges
<1>4. DoPlanning(t, replicas, base, depth) = f[depth] /\ depth \in 0 .. depth
  BY <1>1 DEF Calls
<1> HIDE DEF S
<1>5. depth \in S
  BY <1>2, <1>3, <1>4, Hasta
<1> QED
  BY <1>4, <1>5 DEF S

(* The pass of PlanBlocks, one block after the other.                      *)
PlanPass(f, t, bs) ==
    /\ f[0] = [nodos |-> t, tasks |-> <<>>, overflow |-> FALSE]
    /\ \A k \in 1 .. Len(bs) : f[k] = PlanBlock(f[k - 1], bs[k])
    /\ \A k \in 0 .. Len(bs) : f[k] \in PlanOf(t)

LEMMA PlanBlocksSteps ==
    ASSUME config \in Configs, NEW t, Table_OK(t), t # <<>>, NEW bs \in Seq(Block)
    PROVE  \E f : PlanPass(f, t, bs) /\ PlanBlocks(t, bs) = f[Len(bs)]
<1> DEFINE n == Len(bs)
           V == PlanOf(t)
           a == [nodos |-> t, tasks |-> <<>>, overflow |-> FALSE]
           next(k, v) == PlanBlock(v, bs[k])
           paso == [k \in 1 .. n |-> [v \in V |-> next(k, v)]]
           Es(h) == h = [k \in 0 .. n |-> IF k = 0 THEN [nodos |-> t, tasks |-> <<>>, overflow |-> FALSE] ELSE PlanBlock(h[k - 1], bs[k])]
           f == CHOOSE h : Es(h)
<1>1. n \in Nat
  OBVIOUS
<1>2. \A k \in 1 .. n, v \in V : next(k, v) \in V
  <2> HIDE DEF V
  <2>1. \A k \in 1 .. n : bs[k] \in Block
    OBVIOUS
  <2> HIDE DEF n
  <2>2. \A k \in 1 .. n, v \in V : PlanBlock(v, bs[k]) \in V
    BY <2>1, PlanBlockIs DEF V
  <2> QED
    BY <2>2
<1>3. a \in V
  <2>1. SameNodes(t, t) /\ SameErrors(t, t) /\ t \in Seq(NodeRow)
    BY DEF SameNodes, SameErrors, Table_OK
  <2>2. <<>> \in Seq(TasksOf(Node)) /\ DOMAIN <<>> = {}
    BY EmptySeq
  <2>3. a \in [nodos : Seq(NodeRow), tasks : Seq(TasksOf(Node)), overflow : BOOLEAN]
    BY <2>1, <2>2
  <2>4. a.nodos = t /\ a.tasks = <<>>
    OBVIOUS
  <2> HIDE DEF a
  <2> QED
    BY <2>1, <2>2, <2>3, <2>4 DEF PlanOf
<1>4. PICK g : Ecuacion(g, n, V, a, paso)
  <2>1. paso \in [1 .. n -> [V -> V]]
    <3> HIDE DEF n, next, V
    <3> QED
      BY <1>2
  <2> HIDE DEF n, paso, V, a
  <2> QED
    BY <1>1, <1>3, <2>1, RecursivaEs
<1>5. Es(g)
  <2>1. /\ g \in [0 .. n -> V]
        /\ g = [k \in 0 .. n |-> IF k = 0 THEN a ELSE paso[k][g[k - 1]]]
    BY <1>4, Zenon DEF Ecuacion
  <2>2. \A k \in 1 .. n : paso[k][g[k - 1]] = next(k, g[k - 1])
    <3>1. \A k \in 1 .. n : k - 1 \in 0 .. n
      BY <1>1
    <3> HIDE DEF n, next, V
    <3> QED
      BY <2>1, <3>1
  <2>3. \A k \in 0 .. n : k # 0 => k \in 1 .. n
    BY <1>1
  <2>4. g = [k \in 0 .. n |-> IF k = 0 THEN a ELSE next(k, g[k - 1])]
    <3> HIDE DEF n, next, paso, V, a
    <3> QED
      BY <2>1, <2>2, <2>3
  <2> QED
    BY <2>4, Zenon
<1>6. Es(f)
  <2> HIDE DEF Es
  <2> QED
    BY <1>5
<1>7. PlanBlocks(t, bs) = f[n]
  BY Zenon DEF PlanBlocks
<1>8. f[0] = a /\ \A k \in 1 .. n : f[k] = next(k, f[k - 1])
  <2>1. f = [k \in 0 .. n |-> IF k = 0 THEN a ELSE next(k, f[k - 1])]
    BY <1>6, Zenon
  <2> HIDE DEF f, next, a, n
  <2> QED
    BY <1>1, <2>1
<1> HIDE DEF f, n, Es, paso
<1>9. \A k \in 0 .. n : f[k] \in V
  <2>1. \A k \in 1 .. n : f[k - 1] \in V => f[k] \in V
    <3> HIDE DEF V, next
    <3> QED
      BY <1>2, <1>8
  <2> HIDE DEF V, a
  <2> QED
    BY <1>1, <1>3, <1>8, <2>1, EnTipo
<1>10. PlanPass(f, t, bs)
  BY <1>8, <1>9, Zenon DEF PlanPass, n
<1> QED
  BY <1>7, <1>10 DEF n

(* The nodes of a file join the table, one block after the other.          *)
JoinNodes(v, b) ==
    AddToNodeList(AddToNodeList(v, b[1], config.availBase), b[2], config.availBase)
JoinPass(f, bs) ==
    /\ f[0] = tabla_nodos
    /\ \A k \in 1 .. Len(bs) : f[k] = JoinNodes(f[k - 1], bs[k])
    /\ \A k \in 0 .. Len(bs) : Table_OK(f[k]) /\ NodesOf(tabla_nodos) \subseteq NodesOf(f[k])

LEMMA AddNodesSteps ==
    ASSUME config \in Configs, Table_OK(tabla_nodos), NEW arch \in Files
    PROVE  \E f : JoinPass(f, Layout[arch]) /\ AddNodesOf(arch) = f[Len(Layout[arch])]
<1> DEFINE n == Len(Layout[arch])
           V == {t \in Seq(NodeRow) : Table_OK(t) /\ NodesOf(tabla_nodos) \subseteq NodesOf(t)}
           a == tabla_nodos
           next(k, v) == AddToNodeList(AddToNodeList(v, Layout[arch][k][1], config.availBase),
                                      Layout[arch][k][2], config.availBase)
           paso == [k \in 1 .. n |-> [v \in V |-> next(k, v)]]
           Es(h) == h = [k \in 0 .. n |-> IF k = 0 THEN tabla_nodos ELSE AddToNodeList(AddToNodeList(h[k - 1], Layout[arch][k][1], config.availBase),
                                             Layout[arch][k][2], config.availBase)]
           f == CHOOSE h : Es(h)
<1>1. n \in Nat /\ Layout[arch] \in Seq(Node \X Node)
  <2>1. Layout[arch] \in Seq(Node \X Node)
    BY LayoutAssumption
  <2> QED
    BY <2>1
<1>2. \A k \in 1 .. n, v \in V : next(k, v) \in V
  <2> DEFINE base == config.availBase
  <2>1. base \in Int
    <3>1. config \in [algoritm : Algorithm, availBase : Int]
      BY YamaAssumption
    <3> QED
      BY <3>1
  <2>2. Layout[arch] \in Seq(Node \X Node)
    BY LayoutAssumption
  <2> SUFFICES ASSUME NEW k \in 1 .. n, NEW v \in V PROVE next(k, v) \in V
    OBVIOUS
  <2>3. Layout[arch][k][1] \in Node /\ Layout[arch][k][2] \in Node
    BY <2>2
  <2> HIDE DEF base, n
  <2> DEFINE w == AddToNodeList(v, Layout[arch][k][1], base)
             u == AddToNodeList(w, Layout[arch][k][2], base)
  <2>4. Table_OK(w) /\ NodesOf(v) \subseteq NodesOf(w)
    BY <2>1, <2>3, JoinKeepsTable, JoinAddsNodes
  <2> HIDE DEF w
  <2>5. Table_OK(u) /\ NodesOf(w) \subseteq NodesOf(u)
    BY <2>1, <2>3, <2>4, JoinKeepsTable, JoinAddsNodes
  <2> HIDE DEF u
  <2>6. u \in Seq(NodeRow) /\ NodesOf(tabla_nodos) \subseteq NodesOf(u)
    BY <2>4, <2>5 DEF Table_OK
  <2>7. next(k, v) = u
    BY Zenon DEF u, w, base
  <2> HIDE DEF next
  <2> QED
    BY <2>5, <2>6, <2>7
<1>3. a \in V
  BY DEF Table_OK
<1>4. PICK g : Ecuacion(g, n, V, a, paso)
  <2>1. paso \in [1 .. n -> [V -> V]]
    <3> HIDE DEF n, next, V
    <3> QED
      BY <1>2
  <2> HIDE DEF n, paso, V, a
  <2> QED
    BY <1>1, <1>3, <2>1, RecursivaEs
<1>5. Es(g)
  <2>1. /\ g \in [0 .. n -> V]
        /\ g = [k \in 0 .. n |-> IF k = 0 THEN a ELSE paso[k][g[k - 1]]]
    BY <1>4, Zenon DEF Ecuacion
  <2>2. \A k \in 1 .. n : paso[k][g[k - 1]] = next(k, g[k - 1])
    <3>1. \A k \in 1 .. n : k - 1 \in 0 .. n
      BY <1>1
    <3> HIDE DEF n, next, V
    <3> QED
      BY <2>1, <3>1
  <2>3. \A k \in 0 .. n : k # 0 => k \in 1 .. n
    BY <1>1
  <2>4. g = [k \in 0 .. n |-> IF k = 0 THEN a ELSE next(k, g[k - 1])]
    <3> HIDE DEF n, next, paso, V, a
    <3> QED
      BY <2>1, <2>2, <2>3
  <2> QED
    BY <2>4, Zenon
<1>6. Es(f)
  <2> HIDE DEF Es
  <2> QED
    BY <1>5
<1>7. AddNodesOf(arch) = f[n]
  BY Zenon DEF AddNodesOf
<1>8. f[0] = a /\ \A k \in 1 .. n : f[k] = next(k, f[k - 1])
  <2>1. f = [k \in 0 .. n |-> IF k = 0 THEN a ELSE next(k, f[k - 1])]
    BY <1>6, Zenon
  <2> HIDE DEF f, next, a, n
  <2> QED
    BY <1>1, <2>1
<1> HIDE DEF f, n, Es, paso
<1>9. \A k \in 0 .. n : f[k] \in V
  <2>1. \A k \in 1 .. n : f[k - 1] \in V => f[k] \in V
    <3> HIDE DEF V, next
    <3> QED
      BY <1>2, <1>8
  <2> HIDE DEF V, a
  <2> QED
    BY <1>1, <1>3, <1>8, <2>1, EnTipo
<1>10. JoinPass(f, Layout[arch])
  <2>1. \A k \in 1 .. n : f[k] = JoinNodes(f[k - 1], Layout[arch][k])
    BY <1>8, Zenon DEF JoinNodes
  <2>2. \A k \in 0 .. n : Table_OK(f[k]) /\ NodesOf(tabla_nodos) \subseteq NodesOf(f[k])
    BY <1>9
  <2> QED
    BY <1>8, <2>1, <2>2, Zenon DEF JoinPass, n
<1> QED
  BY <1>7, <1>10 DEF n

(* The pass over the runs of a local reduction.                            *)
LocalPass(f, runs, job, fd, arch) ==
    /\ f[0] = [nodos |-> tabla_nodos, estados |-> tabla_estados, lr |-> tabla_LR_planificados]
    /\ \A k \in 1 .. Len(runs) : f[k] = PlanLocalReduction(f[k - 1], runs[k], job, fd, arch)
    /\ \A k \in 0 .. Len(runs) : f[k] \in LocalPlans(job, fd)

LEMMA LocalReductionSteps ==
    ASSUME Table_OK(tabla_nodos), NEW job \in Nat, NEW fd \in FDs,
           tabla_estados \in Seq(RowsOver(NodesOf(tabla_nodos), Findable(tabla_info_archivos))),
           tabla_LR_planificados \in Seq(PlannedOn(NodesOf(tabla_nodos))),
           NEW runs \in Seq(TasksOf(NodesOf(tabla_nodos))),
           NEW arch, runs # <<>> => arch \in Files
    PROVE  \E f : /\ LocalPass(f, runs, job, fd, arch)
                  /\ PlanLocalReductions(runs, job, fd, arch) = f[Len(runs)]
<1> DEFINE n == Len(runs)
           V == LocalPlans(job, fd)
           a == [nodos |-> tabla_nodos, estados |-> tabla_estados,
                 lr |-> tabla_LR_planificados]
           next(k, v) == PlanLocalReduction(v, runs[k], job, fd, arch)
           paso == [k \in 1 .. n |-> [v \in V |-> next(k, v)]]
           Es(h) == h = [k \in 0 .. n |-> IF k = 0 THEN [nodos |-> tabla_nodos, estados |-> tabla_estados,
                 lr |-> tabla_LR_planificados] ELSE PlanLocalReduction(h[k - 1], runs[k], job, fd, arch)]
           f == CHOOSE h : Es(h)
<1>1. n \in Nat
  OBVIOUS
<1>2. \A k \in 1 .. n, v \in V : next(k, v) \in V
  <2> SUFFICES ASSUME NEW k \in 1 .. n, NEW v \in V PROVE next(k, v) \in V
    OBVIOUS
  <2>1. runs[k] \in TasksOf(NodesOf(tabla_nodos)) /\ runs # <<>>
    OBVIOUS
  <2>2. arch \in Files
    BY <2>1
  <2> HIDE DEF n
  <2> QED
    BY <2>1, <2>2, LocalReductionIs
<1>3. a \in V
  <2>1. /\ SameNodes(tabla_nodos, tabla_nodos) /\ tabla_nodos \in Seq(NodeRow)
        /\ More(tabla_estados, tabla_estados, job, fd, "L")
    BY DEF SameNodes, Table_OK, More
  <2> QED
    BY <2>1 DEF LocalPlans
<1>4. PICK g : Ecuacion(g, n, V, a, paso)
  <2>1. paso \in [1 .. n -> [V -> V]]
    <3> HIDE DEF n, next, V
    <3> QED
      BY <1>2
  <2> HIDE DEF n, paso, V, a
  <2> QED
    BY <1>1, <1>3, <2>1, RecursivaEs
<1>5. Es(g)
  <2>1. /\ g \in [0 .. n -> V]
        /\ g = [k \in 0 .. n |-> IF k = 0 THEN a ELSE paso[k][g[k - 1]]]
    BY <1>4, Zenon DEF Ecuacion
  <2>2. \A k \in 1 .. n : paso[k][g[k - 1]] = next(k, g[k - 1])
    <3>1. \A k \in 1 .. n : k - 1 \in 0 .. n
      BY <1>1
    <3> HIDE DEF n, next, V
    <3> QED
      BY <2>1, <3>1
  <2>3. \A k \in 0 .. n : k # 0 => k \in 1 .. n
    BY <1>1
  <2>4. g = [k \in 0 .. n |-> IF k = 0 THEN a ELSE next(k, g[k - 1])]
    <3> HIDE DEF n, next, paso, V, a
    <3> QED
      BY <2>1, <2>2, <2>3
  <2> QED
    BY <2>4, Zenon
<1>6. Es(f)
  <2> HIDE DEF Es
  <2> QED
    BY <1>5
<1>7. PlanLocalReductions(runs, job, fd, arch) = f[n]
  BY Zenon DEF PlanLocalReductions
<1>8. f[0] = a /\ \A k \in 1 .. n : f[k] = next(k, f[k - 1])
  <2>1. f = [k \in 0 .. n |-> IF k = 0 THEN a ELSE next(k, f[k - 1])]
    BY <1>6, Zenon
  <2> HIDE DEF f, next, a, n
  <2> QED
    BY <1>1, <2>1
<1> HIDE DEF f, n, Es, paso
<1>9. \A k \in 0 .. n : f[k] \in V
  <2>1. \A k \in 1 .. n : f[k - 1] \in V => f[k] \in V
    <3> HIDE DEF V, next
    <3> QED
      BY <1>2, <1>8
  <2> HIDE DEF V, a
  <2> QED
    BY <1>1, <1>3, <1>8, <2>1, EnTipo
<1>10. LocalPass(f, runs, job, fd, arch)
  BY <1>8, <1>9, Zenon DEF LocalPass, n
<1> QED
  BY <1>7, <1>10 DEF n

(* The task that PlanBlock adds is charged to its node.                    *)
LEMMA PlanBlockCharges ==
    ASSUME config \in Configs, NEW t, Table_OK(t), t # <<>>, NEW acc \in PlanOf(t),
           NEW b \in Block, ~PlanBlock(acc, b).overflow
    PROVE  LET q == PlanBlock(acc, b)
           IN  /\ ~acc.overflow
               /\ \E n \in Node : /\ ChargedOn(acc.nodos, q.nodos, n)
                                  /\ q.tasks = Append(acc.tasks, [nodo |-> n, tmps |-> <<b>>])
<1> DEFINE p == DoPlanning(acc.nodos, Replicas(b), config.availBase, StackDepth)
           q == PlanBlock(acc, b)
           n == CHOOSE n \in p.found : TRUE
           l == [nodo |-> n, tmps |-> <<b>>]
           g == p.tabla_nodos
<1>1. Table_OK(acc.nodos) /\ SameNodes(t, acc.nodos)
  BY DEF PlanOf
<1>2. acc.nodos # <<>>
  BY <1>1 DEF SameNodes, Table_OK
<1>3. config.availBase \in Int /\ StackDepth \in Nat
  <2>1. config \in [algoritm : Algorithm, availBase : Int]
    BY YamaAssumption
  <2> QED
    BY <2>1, YamaAssumption
<1>4. Charging(acc.nodos, p) /\ Planning(acc.nodos, Replicas(b), p)
  BY <1>1, <1>2, <1>3, PlanningCharges, DoPlanningOK
<1> HIDE DEF p
<1>5. ~(acc.overflow \/ p.found = {})
  <2> SUFFICES ASSUME acc.overflow \/ p.found = {} PROVE FALSE
    OBVIOUS
  <2>1. q = [acc EXCEPT !.overflow = TRUE]
    BY Zenon DEF PlanBlock, p
  <2>2. q.overflow
    BY <2>1 DEF PlanOf
  <2> QED
    BY <2>2
<1>6. PICK m : p.found = {m} /\ ChargedOn(acc.nodos, g, m)
  BY <1>4, <1>5, Zenon DEF Charging
<1>7. n = m
  BY <1>6
<1>8. n \in Node
  <2>1. PICK i \in DOMAIN acc.nodos : p.found = {acc.nodos[i].node_id}
    BY <1>4, <1>5 DEF Planning
  <2>2. acc.nodos[i] \in NodeRow
    BY <1>1, <2>1 DEF Table_OK
  <2> QED
    BY <1>6, <1>7, <2>1, <2>2, RowFields
<1>9. q = Planned1(acc, g, l)
  BY <1>5, Zenon DEF PlanBlock, p, Planned1
<1> HIDE DEF n
<1>10. q.nodos = g /\ q.tasks = Append(acc.tasks, l)
  <2> DEFINE s == Append(acc.tasks, l)
             q1 == [acc EXCEPT !.nodos = g]
  <2>1. q = [q1 EXCEPT !.tasks = s]
    BY <1>9, Zenon DEF Planned1
  <2> HIDE DEF s, l, g, q
  <2>2. q1.nodos = g /\ q1 \in [nodos : {g}, tasks : Seq(TasksOf(Node)), overflow : BOOLEAN]
    BY DEF PlanOf
  <2> HIDE DEF q1
  <2>3. q.nodos = g /\ q.tasks = s
    BY <2>1, <2>2
  <2> QED
    BY <2>3 DEF s
<1> HIDE DEF g, q
<1> QED
  BY <1>5, <1>6, <1>7, <1>8, <1>10 DEF l, q

(* One more task is one more row.                                          *)
LEMMA RowsOneMore ==
    ASSUME NEW R, NEW s \in Seq(R), NEW E, NEW x \in Seq(E), NEW l \in E, NEW job, NEW fd,
           NEW arch, s \o TransformationRows(x, job, fd, arch) \in Seq(R)
    PROVE  s \o TransformationRows(Append(x, l), job, fd, arch)
             = Append(s \o TransformationRows(x, job, fd, arch),
                      NewRow(job, fd, l.nodo, l.tmps[1], "T", arch))
<1> DEFINE row(z) == NewRow(job, fd, z.nodo, z.tmps[1], "T", arch)
           A == {row(z) : z \in E}
           w == TransformationRows(x, job, fd, arch)
           v == TransformationRows(Append(x, l), job, fd, arch)
           r == row(l)
<1>1. /\ Append(x, l) \in Seq(E) /\ Len(Append(x, l)) = Len(x) + 1 /\ Append(x, l)[Len(x) + 1] = l
      /\ Len(x) \in Nat /\ DOMAIN x = 1 .. Len(x) /\ DOMAIN Append(x, l) = 1 .. Len(x) + 1
      /\ \A k \in 1 .. Len(x) : Append(x, l)[k] = x[k] /\ x[k] \in E
  OBVIOUS
<1>2. w = [k \in 1 .. Len(x) |-> row(x[k])] /\ v = [k \in 1 .. Len(x) + 1 |-> row(Append(x, l)[k])]
  BY <1>1, Zenon DEF TransformationRows
<1> HIDE DEF row
<1>3. w \in Seq(A) /\ Len(w) = Len(x) /\ r \in A
  BY <1>1, <1>2
<1>4. /\ v \in Seq(A) /\ Len(v) = Len(x) + 1 /\ v[Len(x) + 1] = r
      /\ \A k \in 1 .. Len(x) : v[k] = w[k]
  BY <1>1, <1>2
<1> HIDE DEF w, v, r, A
<1>5. v = Append(w, r)
  BY <1>1, <1>3, <1>4
<1>6. s \o Append(w, r) = Append(s \o w, r)
  BY <1>3
<1> QED
  BY <1>5, <1>6 DEF w, v, r, row

(* The tasks of a planning are charged as its rows are added.              *)
LEMMA PlanBlocksBalance ==
    ASSUME config \in Configs, NEW t, Table_OK(t), NEW bs \in Seq(Block), bs # <<>> => t # <<>>,
           ~PlanBlocks(t, bs).overflow, NEW s \in Seq(Row), Balanced(t, s),
           NEW job \in Nat, NEW fd \in FDs, NEW arch \in Files
    PROVE  LET q == PlanBlocks(t, bs)
           IN  Balanced(q.nodos, s \o TransformationRows(q.tasks, job, fd, arch))
<1> DEFINE rows(x) == TransformationRows(x, job, fd, arch)
           q == PlanBlocks(t, bs)
<1>1. ASSUME NEW x, x = <<>> PROVE s \o rows(x) = s
  <2>1. rows(x) = <<>>
    <3>1. DOMAIN x = {}
      BY <1>1
    <3>2. rows(x) = [k \in {} |-> NewRow(job, fd, x[k].nodo, x[k].tmps[1], "T", arch)]
      BY <3>1, Zenon DEF TransformationRows
    <3> QED
      BY <3>2
  <2> QED
    BY <2>1
<1>2. CASE t # <<>>
  <2>1. PICK f : PlanPass(f, t, bs) /\ q = f[Len(bs)]
    BY <1>2, PlanBlocksSteps
  <2> DEFINE n == Len(bs)
             good(v) == ~v.overflow => /\ s \o rows(v.tasks) \in Seq(Row)
                                       /\ Balanced(v.nodos, s \o rows(v.tasks))
             W == {k \in 0 .. n : good(f[k])}
  <2>2. n \in Nat
    OBVIOUS
  <2>3. 0 \in W
    <3>1. f[0] = [nodos |-> t, tasks |-> <<>>, overflow |-> FALSE]
      BY <2>1 DEF PlanPass
    <3>2. f[0].nodos = t /\ f[0].tasks = <<>>
      BY <3>1
    <3> DEFINE v == f[0]
    <3> HIDE DEF rows, v
    <3>3. s \o rows(v.tasks) = s
      BY <1>1, <3>2 DEF v
    <3>4. good(v)
      BY <3>2, <3>3 DEF v
    <3> QED
      BY <2>2, <3>4 DEF v
  <2>4. ASSUME NEW k \in 0 .. n - 1, k \in W PROVE k + 1 \in W
    <3> DEFINE v == f[k]
               w == f[k + 1]
               b == bs[k + 1]
    <3>1. k + 1 \in 1 .. n /\ (k + 1) - 1 = k /\ k \in 0 .. n
      BY <2>2
    <3>2. w = PlanBlock(v, b) /\ v \in PlanOf(t) /\ b \in Block /\ good(v)
      BY <2>1, <2>4, <3>1 DEF PlanPass
    <3> HIDE DEF v, w, b
    <3> SUFFICES ASSUME ~w.overflow
                 PROVE  s \o rows(w.tasks) \in Seq(Row) /\ Balanced(w.nodos, s \o rows(w.tasks))
      BY <3>1 DEF w
    <3>3. /\ ~v.overflow
          /\ \E m \in Node : /\ ChargedOn(v.nodos, w.nodos, m)
                             /\ w.tasks = Append(v.tasks, [nodo |-> m, tmps |-> <<b>>])
      BY <1>2, <3>2, PlanBlockCharges
    <3>4. PICK m \in Node : /\ ChargedOn(v.nodos, w.nodos, m)
                            /\ w.tasks = Append(v.tasks, [nodo |-> m, tmps |-> <<b>>])
      BY <3>3
    <3>5. PICK u : Table_OK(u) /\ SameLoads(v.nodos, u) /\ w.nodos = IncreaseNodeCharge(u, m)
      BY <3>4 DEF ChargedOn
    <3> DEFINE l == [nodo |-> m, tmps |-> <<b>>]
               r == NewRow(job, fd, l.nodo, l.tmps[1], "T", arch)
               z == s \o rows(v.tasks)
    <3>6. z \in Seq(Row) /\ Balanced(v.nodos, z) /\ v.tasks \in Seq(TasksOf(Node))
      BY <3>2, <3>3 DEF PlanOf
    <3>7. l \in TasksOf(Node) /\ l.nodo = m /\ l.tmps[1] = b
      <4>1. <<b>> \in Seq(Block) /\ <<b>>[1] = b
        BY <3>2
      <4> DEFINE c == <<b>>
      <4> HIDE DEF c
      <4> QED
        BY <4>1 DEF TasksOf, c
    <3>8. r \in Row /\ r.node = m /\ r.status = "P"
      BY <3>2, <3>7 DEF NewRow, Row, Stage
    <3> HIDE DEF l
    <3>9. s \o rows(Append(v.tasks, l)) = Append(z, r)
      <4> DEFINE x == v.tasks
                 R == Row
                 E == TasksOf(Node)
      <4>1. x \in Seq(E) /\ l \in E /\ s \in Seq(R) /\ s \o TransformationRows(x, job, fd, arch) \in Seq(R)
        BY <3>6, <3>7
      <4> HIDE DEF x, R, E
      <4>2. s \o TransformationRows(Append(x, l), job, fd, arch)
              = Append(s \o TransformationRows(x, job, fd, arch),
                       NewRow(job, fd, l.nodo, l.tmps[1], "T", arch))
        BY <4>1, RowsOneMore
      <4> QED
        BY <4>2, Zenon DEF x
    <3> HIDE DEF r, z
    <3>10. Balanced(u, z)
      BY <3>5, <3>6, LoadsStay
    <3>11. Append(z, r) \in Seq(Row) /\ Balanced(w.nodos, Append(z, r))
      BY <3>5, <3>6, <3>8, <3>10, ChargeBalances
    <3> QED
      BY <3>4, <3>9, <3>11 DEF l
  <2>5. n \in W
    <3> HIDE DEF W, n
    <3>1. \A k \in 0 .. n : k \in W
      BY <2>2, <2>3, <2>4, Hasta
    <3> QED
      BY <2>2, <3>1
  <2> HIDE DEF rows, n
  <2> QED
    BY <2>1, <2>5 DEF n, rows
<1>3. CASE bs = <<>>
  <2>1. q.nodos = t /\ q.tasks = <<>>
    <3> DEFINE a == [nodos |-> t, tasks |-> <<>>, overflow |-> FALSE]
               body(h) == [k \in 0 .. Len(bs) |-> IF k = 0 THEN a ELSE PlanBlock(h[k - 1], bs[k])]
               f == CHOOSE h : h = body(h)
    <3>1. Len(bs) = 0 /\ 0 .. 0 = {0}
      BY <1>3
    <3>2. [k \in {0} |-> a] = body([k \in {0} |-> a])
      BY <3>1
    <3>3. f = body(f)
      <4> HIDE DEF body
      <4> QED
        BY <3>2
    <3>4. f[0] = a
      BY <3>1, <3>3
    <3>5. q = f[Len(bs)]
      BY Zenon DEF PlanBlocks
    <3> HIDE DEF f, q
    <3> QED
      BY <3>1, <3>4, <3>5
  <2> HIDE DEF rows, q
  <2>2. s \o rows(q.tasks) = s
    BY <1>1, <2>1
  <2> QED
    BY <2>1, <2>2 DEF rows, q
<1> QED
  BY <1>2, <1>3

(* The rows of w that are not in s are of the tasks M, one each.           *)
Tasked(s, w, M) ==
    /\ \A i, j \in DOMAIN w \ DOMAIN s : w[i].node = w[j].node /\ w[i].block = w[j].block => i = j
    /\ \A n, b : <<n, b>> \in M
                   <=> \E i \in DOMAIN w \ DOMAIN s : w[i].node = n /\ w[i].block = b

LEMMA NothingTasked == \A s : Tasked(s, s, {})
BY DEF Tasked

LEMMA TaskedOne ==
    ASSUME NEW R, NEW s, NEW w \in Seq(R), NEW M, Tasked(s, w, M), DOMAIN s \subseteq DOMAIN w,
           NEW r \in R, <<r.node, r.block>> \notin M
    PROVE  Tasked(s, Append(w, r), M \cup {<<r.node, r.block>>})
<1> DEFINE v == Append(w, r)
           l == Len(w) + 1
           N == M \cup {<<r.node, r.block>>}
<1>1. /\ DOMAIN v = DOMAIN w \cup {l} /\ l \notin DOMAIN w /\ v[l] = r
      /\ \A i \in DOMAIN w : v[i] = w[i]
  OBVIOUS
<1> HIDE DEF v, l
<1>2. DOMAIN v \ DOMAIN s = (DOMAIN w \ DOMAIN s) \cup {l}
  BY <1>1
<1>3. \A n, b : <<n, b>> \in N <=> <<n, b>> \in M \/ (n = r.node /\ b = r.block)
  OBVIOUS
<1> HIDE DEF N
<1>4. ASSUME NEW n, NEW b
      PROVE  <<n, b>> \in N <=> \E i \in DOMAIN v \ DOMAIN s : v[i].node = n /\ v[i].block = b
  <2>1. <<n, b>> \in M <=> \E i \in DOMAIN w \ DOMAIN s : w[i].node = n /\ w[i].block = b
    BY DEF Tasked
  <2>2. <<n, b>> \in N <=> <<n, b>> \in M \/ (n = r.node /\ b = r.block)
    BY <1>3
  <2>3. \A i \in DOMAIN w \ DOMAIN s : v[i] = w[i]
    BY <1>1
  <2> HIDE DEF N
  <2> QED
    BY <1>1, <1>2, <2>1, <2>2, <2>3
<1>5. \A i \in DOMAIN w \ DOMAIN s : ~(w[i].node = r.node /\ w[i].block = r.block)
  BY DEF Tasked
<1>6. \A i, j \in DOMAIN v \ DOMAIN s : v[i].node = v[j].node /\ v[i].block = v[j].block => i = j
  BY <1>1, <1>2, <1>5 DEF Tasked
<1>7. Tasked(s, v, N)
  BY <1>4, <1>6, Zenon DEF Tasked
<1> QED
  BY <1>7 DEF v, N

(* A task more of any kind: the row is added and the node charged.         *)
LEMMA RowCharged ==
    ASSUME NEW t, Table_OK(t), NEW s, NEW w \in Seq(Row), Balanced(t, w),
           NEW M, Tasked(s, w, M), DOMAIN s \subseteq DOMAIN w,
           NEW job \in Nat, NEW fd \in FDs, NEW n \in Node, NEW op \in Stage, NEW arch \in Files,
           <<n, <<>>>> \notin M
    PROVE  LET v == Append(w, NewRow(job, fd, n, <<>>, op, arch))
           IN  /\ Balanced(IncreaseNodeCharge(t, n), v)
               /\ Tasked(s, v, M \cup {<<n, <<>>>>})
<1> DEFINE r == NewRow(job, fd, n, <<>>, op, arch)
<1>1. r \in Row /\ r.node = n /\ r.status = "P" /\ r.block = <<>>
  BY DEF NewRow, Row
<1> HIDE DEF r
<1>2. Balanced(IncreaseNodeCharge(t, r.node), Append(w, r))
  BY <1>1, ChargeBalances
<1>3. Tasked(s, Append(w, r), M \cup {<<r.node, r.block>>})
  BY <1>1, TaskedOne
<1> QED
  BY <1>1, <1>2, <1>3 DEF r

(* The local reductions of runs of different nodes, when none is in        *)
(* process: one row each, all charged.                                     *)
Different(runs) == \A i, j \in DOMAIN runs : runs[i].nodo = runs[j].nodo => i = j
NoneReducing(job) ==
    ~\E i \in DOMAIN tabla_estados : /\ tabla_estados[i].job = job /\ tabla_estados[i].op = "L"
                                     /\ tabla_estados[i].status = "P"
UpTo(runs, k) == {<<runs[j].nodo, <<>>>> : j \in 1 .. k}
Locals(runs, v, k) ==
    Balanced(v.nodos, v.estados) /\ Tasked(tabla_estados, v.estados, UpTo(runs, k))

LEMMA LocalRowAdded ==
    ASSUME Tables, NEW job \in Nat, NEW fd \in FDs, NEW arch \in Files, NoneReducing(job),
           NEW runs \in Seq(TasksOf(NodesOf(tabla_nodos))), Different(runs),
           NEW v \in LocalPlans(job, fd), NEW k \in Nat, k + 1 \in DOMAIN runs, Locals(runs, v, k)
    PROVE  Locals(runs, PlanLocalReduction(v, runs[k + 1], job, fd, arch), k + 1)
<1> DEFINE n == runs[k + 1].nodo
           q == PlanLocalReduction(v, runs[k + 1], job, fd, arch)
           lr == Append(v.lr, [job |-> job, master |-> fd, nodo |-> n,
                               tmps |-> runs[k + 1].tmps, file |-> arch])
           g == IncreaseNodeCharge(v.nodos, n)
           w == Append(v.estados, NewRow(job, fd, n, <<>>, "L", arch))
<1>1. n \in Node
  <2>1. runs[k + 1] \in TasksOf(NodesOf(tabla_nodos)) /\ NodesOf(tabla_nodos) \subseteq Node
    BY NodesAreNodes DEF Tables
  <2> QED
    BY <2>1 DEF TasksOf
<1>2. /\ Table_OK(v.nodos) /\ More(tabla_estados, v.estados, job, fd, "L")
      /\ v.estados \in Seq(RowsOver(NodesOf(tabla_nodos), Findable(tabla_info_archivos)))
  BY DEF LocalPlans
<1>3. v.estados \in Seq(Row)
  <2>1. RowsOver(NodesOf(tabla_nodos), Findable(tabla_info_archivos)) \subseteq Row
    <3>1. NodesOf(tabla_nodos) \subseteq Node
      BY NodesAreNodes DEF Tables
    <3> QED
      BY <3>1 DEF RowsOver, Row
  <2> QED
    BY <1>2, <2>1
<1>4. \A j \in 1 .. k : j \in DOMAIN runs /\ j # k + 1
  OBVIOUS
<1>5. <<n, <<>>>> \notin UpTo(runs, k)
  <2>1. \A j \in 1 .. k : runs[j].nodo # n
    BY <1>4 DEF Different
  <2> HIDE DEF n
  <2> QED
    BY <2>1 DEF UpTo
<1>6. ~\E i \in DOMAIN v.estados :
         /\ v.estados[i].job = job /\ v.estados[i].node = n
         /\ v.estados[i].op = "L" /\ v.estados[i].status = "P"
  <2> SUFFICES ASSUME NEW i \in DOMAIN v.estados, v.estados[i].job = job, v.estados[i].node = n,
                      v.estados[i].op = "L", v.estados[i].status = "P"
               PROVE  FALSE
    OBVIOUS
  <2>1. CASE i \in DOMAIN tabla_estados
    <3>1. v.estados[i] = tabla_estados[i]
      BY <1>2, <2>1 DEF More
    <3> QED
      BY <2>1, <3>1 DEF NoneReducing
  <2>2. CASE i \notin DOMAIN tabla_estados
    <3> DEFINE b == v.estados[i].block
    <3>1. <<n, b>> \in UpTo(runs, k)
      BY <2>2 DEF Locals, Tasked
    <3>2. PICK j \in 1 .. k : runs[j].nodo = n
      BY <3>1 DEF UpTo
    <3> QED
      BY <1>4, <3>2 DEF Different
  <2> QED
    BY <2>1, <2>2
<1>7. q = [nodos |-> g, estados |-> w, lr |-> lr]
  BY <1>6, Zenon DEF PlanLocalReduction
<1>8. Balanced(v.nodos, v.estados) /\ Tasked(tabla_estados, v.estados, UpTo(runs, k))
  BY DEF Locals
<1>9. DOMAIN tabla_estados \subseteq DOMAIN v.estados /\ "L" \in Stage
  BY <1>2 DEF More, Stage
<1>10. UpTo(runs, k + 1) = UpTo(runs, k) \cup {<<n, <<>>>>}
  <2>1. 1 .. k + 1 = 1 .. k \cup {k + 1}
    OBVIOUS
  <2> QED
    BY <2>1 DEF UpTo
<1> HIDE DEF n, lr
<1>11. Balanced(g, w) /\ Tasked(tabla_estados, w, UpTo(runs, k) \cup {<<n, <<>>>>})
  BY <1>1, <1>2, <1>3, <1>5, <1>8, <1>9, RowCharged
<1> HIDE DEF g, w
<1>12. q.nodos = g /\ q.estados = w
  BY <1>7
<1> QED
  BY <1>10, <1>11, <1>12 DEF Locals

LEMMA LocalRowsAdded ==
    ASSUME Tables, NEW job \in Nat, NEW fd \in FDs, NEW arch, NoneReducing(job),
           NEW runs \in Seq(TasksOf(NodesOf(tabla_nodos))), Different(runs),
           runs # <<>> => arch \in Files, Balanced(tabla_nodos, tabla_estados)
    PROVE  LET q == PlanLocalReductions(runs, job, fd, arch)
           IN  Balanced(q.nodos, q.estados) /\ Tasked(tabla_estados, q.estados, UpTo(runs, Len(runs)))
<1> DEFINE q == PlanLocalReductions(runs, job, fd, arch)
           n == Len(runs)
<1>1. PICK f : LocalPass(f, runs, job, fd, arch) /\ q = f[n]
  <2>1. /\ Table_OK(tabla_nodos)
        /\ tabla_estados \in Seq(RowsOver(NodesOf(tabla_nodos), Findable(tabla_info_archivos)))
        /\ tabla_LR_planificados \in Seq(PlannedOn(NodesOf(tabla_nodos)))
    BY DEF Tables, KnownNodes, KnownBlocks
  <2> QED
    BY <2>1, LocalReductionSteps
<1> DEFINE W == {k \in 0 .. n : Locals(runs, f[k], k)}
<1>2. n \in Nat /\ DOMAIN runs = 1 .. n
  OBVIOUS
<1>3. 0 \in W
  <2>1. f[0].nodos = tabla_nodos /\ f[0].estados = tabla_estados
    BY <1>1 DEF LocalPass
  <2>2. UpTo(runs, 0) = {}
    BY DEF UpTo
  <2> DEFINE v == f[0]
  <2> HIDE DEF v
  <2>3. Tasked(tabla_estados, tabla_estados, {})
    BY NothingTasked
  <2>4. Locals(runs, v, 0)
    BY <2>1, <2>2, <2>3 DEF Locals, v
  <2> QED
    BY <1>2, <2>4 DEF v
<1>4. ASSUME NEW k \in 0 .. n - 1, k \in W PROVE k + 1 \in W
  <2>1. k + 1 \in 1 .. n /\ (k + 1) - 1 = k /\ k \in 0 .. n /\ k \in Nat /\ runs # <<>>
    BY <1>2
  <2>2. f[k + 1] = PlanLocalReduction(f[k], runs[k + 1], job, fd, arch) /\ f[k] \in LocalPlans(job, fd)
    BY <1>1, <2>1 DEF LocalPass
  <2>3. Locals(runs, f[k], k) /\ k + 1 \in DOMAIN runs /\ arch \in Files
    BY <1>2, <1>4, <2>1
  <2> DEFINE v == f[k]
  <2> HIDE DEF v
  <2>4. Locals(runs, PlanLocalReduction(v, runs[k + 1], job, fd, arch), k + 1)
    BY <2>1, <2>2, <2>3, LocalRowAdded DEF v
  <2> QED
    BY <2>1, <2>2, <2>4 DEF v
<1>5. n \in W
  <2> HIDE DEF W, n
  <2>1. \A k \in 0 .. n : k \in W
    BY <1>2, <1>3, <1>4, Hasta
  <2> QED
    BY <1>2, <2>1
<1> HIDE DEF n, q
<1>6. Locals(runs, q, n)
  BY <1>1, <1>5
<1> QED
  BY <1>6 DEF Locals, n, q

(* Nodes that join, availabilities and errors leave the loads.             *)
LEMMA KnownNode ==
    ASSUME NEW t, NEW n
    PROVE  n \in NodesOf(t) <=> Known(t, n)
BY DEF NodesOf, Known

LEMMA JoinNodesBalance ==
    ASSUME config \in Configs, NEW t, Table_OK(t), NEW s, Balanced(t, s), NEW b \in Node \X Node,
           \A i \in DOMAIN s : Known(t, s[i].node)
    PROVE  Balanced(JoinNodes(t, b), s)
<1> DEFINE base == config.availBase
           w == AddToNodeList(t, b[1], base)
<1>1. base \in Int /\ b[1] \in Node /\ b[2] \in Node
  <2>1. config \in [algoritm : Algorithm, availBase : Int]
    BY YamaAssumption
  <2> QED
    BY <2>1
<1> HIDE DEF base
<1>2. /\ Table_OK(w) /\ Balanced(w, s)
      /\ \A i \in DOMAIN s : Known(w, s[i].node)
  BY <1>1, JoinKeepsTable, JoinBalances
<1> HIDE DEF w
<1>3. Balanced(AddToNodeList(w, b[2], base), s)
  BY <1>1, <1>2, JoinBalances
<1> QED
  BY <1>3, Zenon DEF JoinNodes, w, base

LEMMA AddNodesBalance ==
    ASSUME Tables, NEW arch \in Files, Balanced(tabla_nodos, tabla_estados)
    PROVE  Balanced(AddNodesOf(arch), tabla_estados)
<1> DEFINE n == Len(Layout[arch])
<1>1. /\ config \in Configs /\ Table_OK(tabla_nodos)
      /\ tabla_estados \in Seq(RowsOver(KnownNodes, KnownBlocks))
  BY DEF Tables
<1>2. PICK f : JoinPass(f, Layout[arch]) /\ AddNodesOf(arch) = f[n]
  BY <1>1, AddNodesSteps
<1>3. \A i \in DOMAIN tabla_estados : tabla_estados[i].node \in NodesOf(tabla_nodos)
  <2> SUFFICES ASSUME NEW i \in DOMAIN tabla_estados
               PROVE  tabla_estados[i].node \in NodesOf(tabla_nodos)
    OBVIOUS
  <2>1. tabla_estados[i] \in RowsOver(KnownNodes, KnownBlocks)
    BY <1>1
  <2> QED
    BY <2>1 DEF RowsOver, KnownNodes
<1>4. Layout[arch] \in Seq(Node \X Node)
  BY LayoutAssumption
<1>5. n \in Nat /\ \A k \in 1 .. n : Layout[arch][k] \in Node \X Node
  BY <1>4
<1> DEFINE W == {k \in 0 .. n : Balanced(f[k], tabla_estados)}
<1>6. 0 \in W
  BY <1>2, <1>5 DEF JoinPass
<1>7. ASSUME NEW k \in 0 .. n - 1, k \in W PROVE k + 1 \in W
  <2>1. k + 1 \in 1 .. n /\ (k + 1) - 1 = k /\ k \in 0 .. n
    BY <1>5
  <2> DEFINE b == Layout[arch][k + 1]
             t == f[k]
  <2>2. /\ f[k + 1] = JoinNodes(t, b) /\ Table_OK(t) /\ b \in Node \X Node
        /\ NodesOf(tabla_nodos) \subseteq NodesOf(t) /\ Balanced(t, tabla_estados)
    BY <1>2, <1>5, <1>7, <2>1 DEF JoinPass
  <2> HIDE DEF t, b
  <2>3. \A i \in DOMAIN tabla_estados : Known(t, tabla_estados[i].node)
    BY <1>3, <2>2, KnownNode
  <2>4. Balanced(JoinNodes(t, b), tabla_estados)
    BY <1>1, <2>2, <2>3, JoinNodesBalance
  <2> QED
    BY <2>1, <2>2, <2>4
<1>8. n \in W
  <2> HIDE DEF W, n
  <2>1. \A k \in 0 .. n : k \in W
    BY <1>5, <1>6, <1>7, Hasta
  <2> QED
    BY <1>5, <2>1
<1> HIDE DEF n
<1> QED
  BY <1>2, <1>8

LEMMA AvailabilityLoads ==
    ASSUME NEW t, Table_OK(t), NEW alg, NEW base
    PROVE  SameLoads(t, UpdateAvailability(t, alg, base))
<1> SUFFICES ASSUME NEW i \in DOMAIN t
             PROVE  LET g == UpdateAvailability(t, alg, base)
                    IN  /\ g[i].node_id = t[i].node_id
                        /\ g[i].tasks_in_progress = t[i].tasks_in_progress
  BY DEF SameLoads, UpdateAvailability
<1> DEFINE a == SetNewAvailability(t, t[i], alg, base)
<1>1. UpdateAvailability(t, alg, base)[i] = [t[i] EXCEPT !.availability = a]
  BY DEF UpdateAvailability
<1> HIDE DEF a
<1>2. t[i] \in NodeRow
  BY DEF Table_OK
<1> QED
  BY <1>1, <1>2 DEF NodeRow

LEMMA ErrorsLoads ==
    ASSUME NEW t, Table_OK(t)
    PROVE  SameLoads(t, DeleteNodeErrors(t))
<1>1. \A i \in DOMAIN t : t[i] \in NodeRow
  BY DEF Table_OK
<1> QED
  BY <1>1 DEF SameLoads, DeleteNodeErrors, NodeRow

(* The entries of a job are planned once and in the order of their nodes;  *)
(* only a transformation has a block; a task in process is of a job at its *)
(* stage.                                                                  *)
EntriesKnown ==
    \A k \in DOMAIN tabla_T_planificados :
       \E j \in DOMAIN tabla_jobs : tabla_jobs[j].id = tabla_T_planificados[k].job
EntriesInOrder ==
    \A i, j \in DOMAIN tabla_T_planificados :
       i < j /\ tabla_T_planificados[i].job = tabla_T_planificados[j].job
       => tabla_T_planificados[i].nodo <= tabla_T_planificados[j].nodo
RowsPlain ==
    \A i \in DOMAIN tabla_estados : tabla_estados[i].op # "T" => tabla_estados[i].block = <<>>
Backs(j, r) == j.estado = "P" /\ j.id = r.job /\ j.master = r.master /\ j.etapa = r.op
Backed(i) == \E j \in DOMAIN tabla_jobs : Backs(tabla_jobs[j], tabla_estados[i])
AllBacked == \A i \in DOMAIN tabla_estados : tabla_estados[i].status = "P" => Backed(i)
Working ==
    /\ \A fd \in FDs : Account(fd)
    /\ Balanced(tabla_nodos, tabla_estados)
    /\ EntriesKnown /\ EntriesInOrder /\ RowsPlain /\ AllBacked

(* A handler of fd leaves the tasks and the jobs of the others.            *)
NoneOpen(s, fd) == \A i \in DOMAIN s : ~(s[i].master = fd /\ s[i].status = "P")
OthersRows(fd, s, w) ==
    /\ DOMAIN s \subseteq DOMAIN w
    /\ \A i \in DOMAIN s : /\ w[i].master = s[i].master
                           /\ s[i].master # fd => w[i] = s[i]
    /\ \A i \in DOMAIN w : i \in DOMAIN s \/ w[i].master = fd
OthersJobs(fd, s, w) ==
    /\ DOMAIN s \subseteq DOMAIN w
    /\ \A i \in DOMAIN s : s[i].master # fd => w[i] = s[i]

LEMMA OthersOpen ==
    ASSUME NEW fd, NEW s, NEW w, OthersRows(fd, s, w), NEW e, e # fd, OpenOnce(s, e)
    PROVE  /\ OpenOnce(w, e)
           /\ \A x, n, b : Open(w, e, x, n, b) <=> Open(s, e, x, n, b)
<1>1. \A i \in DOMAIN w : w[i].master = e => i \in DOMAIN s /\ w[i] = s[i]
  BY DEF OthersRows
<1>2. \A i \in DOMAIN s : s[i].master = e => i \in DOMAIN w /\ w[i] = s[i]
  BY DEF OthersRows
<1>3. OpenOnce(w, e)
  BY <1>1 DEF OpenOnce
<1>4. ASSUME NEW x, NEW n, NEW b
      PROVE  Open(w, e, x, n, b) <=> Open(s, e, x, n, b)
  BY <1>1, <1>2 DEF Open, IsOpen
<1> QED
  BY <1>3, <1>4

LEMMA OthersAccount ==
    ASSUME NEW fd \in FDs, Alone(fd), OthersRows(fd, tabla_estados, tabla_estados'),
           NEW e \in FDs, e # fd, Account(e)
    PROVE  Account(e)'
<1>1. /\ pc'[e] = pc[e] /\ hilos'[e] = hilos[e]
      /\ pedidos'[e] = pedidos[e] /\ salida'[e] = salida[e]
  BY DEF Alone
<1>2. OpenOnce(tabla_estados, e)
  BY DEF Account
<1>3. /\ OpenOnce(tabla_estados', e)
      /\ \A x, n, b : Open(tabla_estados', e, x, n, b) <=> Open(tabla_estados, e, x, n, b)
  BY <1>2, OthersOpen
<1>4. Sound(pedidos'[e], pc'[e], hilos'[e], salida'[e])
  BY <1>1 DEF Account
<1>5. ASSUME NEW x, NEW n, NEW b
      PROVE  Owed(pedidos'[e], pc'[e], hilos'[e], salida'[e], x, n, b)
               <=> Open(tabla_estados', e, x, n, b)
  <2>1. Owed(pedidos[e], pc[e], hilos[e], salida[e], x, n, b) <=> Open(tabla_estados, e, x, n, b)
    BY Zenon DEF Account
  <2> QED
    BY <1>1, <1>3, <2>1
<1> QED
  BY <1>3, <1>4, <1>5, Zenon DEF Account

LEMMA BackedThen ==
    ASSUME NEW fd, OthersRows(fd, tabla_estados, tabla_estados'),
           OthersJobs(fd, tabla_jobs, tabla_jobs'), AllBacked,
           \A i \in DOMAIN tabla_estados' :
              tabla_estados'[i].master = fd /\ tabla_estados'[i].status = "P" => Backed(i)'
    PROVE  AllBacked'
<1> SUFFICES ASSUME NEW i \in DOMAIN tabla_estados', tabla_estados'[i].status = "P",
                    tabla_estados'[i].master # fd
             PROVE  Backed(i)'
  BY Zenon DEF AllBacked
<1>1. i \in DOMAIN tabla_estados /\ tabla_estados'[i] = tabla_estados[i]
  BY DEF OthersRows
<1>2. PICK j \in DOMAIN tabla_jobs : Backs(tabla_jobs[j], tabla_estados[i])
  BY <1>1, Zenon DEF AllBacked, Backed
<1>3. tabla_jobs[j].master = tabla_estados[i].master
  BY <1>2 DEF Backs
<1>4. j \in DOMAIN tabla_jobs' /\ tabla_jobs'[j] = tabla_jobs[j]
  BY <1>1, <1>3 DEF OthersJobs
<1>5. Backs(tabla_jobs'[j], tabla_estados'[i])
  BY <1>1, <1>2, <1>4
<1> QED
  BY <1>4, <1>5, Zenon DEF Backed

LEMMA WorkingThen ==
    ASSUME Working, NEW fd \in FDs, Alone(fd), OthersRows(fd, tabla_estados, tabla_estados'),
           OthersJobs(fd, tabla_jobs, tabla_jobs'), Account(fd)',
           Balanced(tabla_nodos', tabla_estados'),
           EntriesKnown', EntriesInOrder', RowsPlain',
           \A i \in DOMAIN tabla_estados' :
              tabla_estados'[i].master = fd /\ tabla_estados'[i].status = "P" => Backed(i)'
    PROVE  Working'
<1>1. ASSUME NEW e \in FDs PROVE Account(e)'
  <2>1. Account(e)
    BY DEF Working
  <2> QED
    BY <2>1, OthersAccount
<1>2. AllBacked
  BY DEF Working
<1>3. AllBacked'
  BY <1>2, BackedThen
<1> QED
  BY <1>1, <1>3, Zenon DEF Working

(* While the master waits for an answer, or is gone, nothing is open.      *)
LEMMA NothingOwed ==
    ASSUME NEW ms \in Seq(Message), NEW p, NEW e, NEW n, NEW b,
           ms = <<>> \/ (Head(ms).op # "O" /\ Tail(ms) = <<>>)
    PROVE  ~Owed(ms, p, {}, <<>>, e, n, b)
<1>1. ~Doing(p, {}, e, n, b) /\ ~Told(<<>>, e, n, b)
  BY DEF Doing, Told
<1>2. ~Says(<<>>, e, n, b)
  BY NothingSaid
<1>3. ~Says(ms, e, n, b)
  <2>1. CASE ms = <<>>
    BY <1>2, <2>1
  <2>2. CASE ms # <<>>
    <3>1. Says(ms, e, n, b) <=> Says(Tail(ms), e, n, b) \/ IsResult(Head(ms), e, n, b)
      BY <2>2, SaysLess
    <3> QED
      BY <1>2, <2>2, <3>1 DEF IsResult
  <2> QED
    BY <2>1, <2>2
<1> QED
  BY <1>1, <1>3 DEF Owed

LEMMA AskedNothing ==
    ASSUME TypeInv, NEW fd \in FDs, Calm(fd), Account(fd), pedidos[fd] # <<>>,
           Head(pedidos[fd]).op # "O"
    PROVE  NoneOpen(tabla_estados, fd)
<1>1. hilos[fd] = {} /\ salida[fd] = <<>> /\ Tail(pedidos[fd]) = <<>>
  BY CalmHead
<1>2. pedidos[fd] \in Seq(Message)
  BY DEF TypeInv, SocketsOK
<1> SUFFICES ASSUME NEW i \in DOMAIN tabla_estados, tabla_estados[i].master = fd,
                    tabla_estados[i].status = "P"
             PROVE  FALSE
  BY DEF NoneOpen
<1> DEFINE r == tabla_estados[i]
<1>3. Open(tabla_estados, fd, r.op, r.node, r.block)
  BY DEF Open, IsOpen
<1>4. Owed(pedidos[fd], pc[fd], hilos[fd], salida[fd], r.op, r.node, r.block)
  BY <1>3, Zenon DEF Account
<1> HIDE DEF r
<1>5. ~Owed(pedidos[fd], pc[fd], {}, <<>>, r.op, r.node, r.block)
  BY <1>1, <1>2, NothingOwed
<1> QED
  BY <1>1, <1>4, <1>5

LEMMA NothingLeft ==
    ASSUME NEW fd \in FDs, NoneOpen(tabla_estados', fd),
           pedidos'[fd] = <<>>, hilos'[fd] = {}, salida'[fd] = <<>>
    PROVE  Account(fd)'
<1>1. \A e, n, b : ~Open(tabla_estados', fd, e, n, b)
  BY DEF NoneOpen, Open, IsOpen
<1>2. OpenOnce(tabla_estados', fd)
  BY DEF NoneOpen, OpenOnce
<1>3. <<>> \in Seq(Message)
  BY EmptySeq
<1>4. \A e, n, b : ~Owed(<<>>, pc'[fd], {}, <<>>, e, n, b)
  BY <1>3, NothingOwed
<1>5. Sound(<<>>, pc'[fd], {}, <<>>)
  <2>1. Once(<<>>) /\ \A e, n, b : ~Says(<<>>, e, n, b)
    BY NothingSaid
  <2> QED
    BY <2>1 DEF Sound, Separate
<1>6. ASSUME NEW e, NEW n, NEW b
      PROVE  Owed(pedidos'[fd], pc'[fd], hilos'[fd], salida'[fd], e, n, b)
               <=> Open(tabla_estados', fd, e, n, b)
  BY <1>1, <1>4
<1> QED
  BY <1>2, <1>5, <1>6, Zenon DEF Account

(* An answer that tells of the tasks M, each of which has a new row.       *)
Tells(r, M) ==
    /\ Tidy(r)
    /\ \A n, b : <<n, b>> \in M
                   <=> \E k \in DOMAIN r.data : r.data[k].nodo = n /\ WorksOn(r.op, r.data[k].tmps, b)

LEMMA ToldIs ==
    ASSUME NEW r, NEW M, Tells(r, M), NEW p, NEW e, NEW n, NEW b
    PROVE  Owed(<<>>, p, {}, <<r>>, e, n, b) <=> e = r.op /\ <<n, b>> \in M
<1>1. ~Doing(p, {}, e, n, b) /\ ~Says(<<>>, e, n, b)
  BY NothingSaid DEF Doing
<1>2. Head(<<r>>) = r /\ <<r>> # <<>>
  OBVIOUS
<1>3. <<n, b>> \in M
        <=> \E k \in DOMAIN r.data : r.data[k].nodo = n /\ WorksOn(r.op, r.data[k].tmps, b)
  BY Zenon DEF Tells
<1>4. Told(<<r>>, e, n, b)
        <=> r.op = e /\ \E k \in DOMAIN r.data : r.data[k].nodo = n /\ WorksOn(e, r.data[k].tmps, b)
  BY <1>2 DEF Told
<1>5. Told(<<r>>, e, n, b) <=> e = r.op /\ <<n, b>> \in M
  BY <1>3, <1>4
<1> QED
  BY <1>1, <1>5 DEF Owed

LEMMA AnswerAccount ==
    ASSUME NEW fd \in FDs, NEW job, NEW op, NoneOpen(tabla_estados, fd),
           More(tabla_estados, tabla_estados', job, fd, op), NEW M,
           Tasked(tabla_estados, tabla_estados', M), NEW r, r.op = op, Tells(r, M),
           pedidos'[fd] = <<>>, hilos'[fd] = {}, salida'[fd] = <<r>>
    PROVE  Account(fd)' /\ OthersRows(fd, tabla_estados, tabla_estados')
<1> DEFINE s == tabla_estados
           w == tabla_estados'
           new == DOMAIN w \ DOMAIN s
<1>1. /\ DOMAIN s \subseteq DOMAIN w
      /\ \A i \in DOMAIN s : w[i] = s[i]
      /\ \A i \in new : w[i].master = fd /\ w[i].op = op /\ w[i].status = "P"
  BY DEF More
<1>2. \A i \in DOMAIN w : w[i].master = fd /\ w[i].status = "P" <=> i \in new
  BY <1>1 DEF NoneOpen
<1>3. OpenOnce(w, fd)
  <2> SUFFICES ASSUME NEW i \in DOMAIN w, NEW j \in DOMAIN w,
                      w[i].master = fd, w[j].master = fd, w[i].status = "P", w[j].status = "P",
                      w[i].node = w[j].node, w[i].block = w[j].block
               PROVE  i = j
    BY DEF OpenOnce
  <2>1. i \in new /\ j \in new
    BY <1>2
  <2> QED
    BY <2>1 DEF Tasked
<1>4. ASSUME NEW e, NEW n, NEW b
      PROVE  Owed(pedidos'[fd], pc'[fd], hilos'[fd], salida'[fd], e, n, b) <=> Open(w, fd, e, n, b)
  <2>1. <<n, b>> \in M <=> \E i \in new : w[i].node = n /\ w[i].block = b
    BY DEF Tasked
  <2>2. Open(w, fd, e, n, b) <=> e = op /\ \E i \in new : w[i].node = n /\ w[i].block = b
    <3> HIDE DEF w, s
    <3>1. Open(w, fd, e, n, b) => e = op /\ \E i \in new : w[i].node = n /\ w[i].block = b
      BY <1>1, <1>2 DEF Open, IsOpen
    <3>2. ASSUME e = op, NEW i \in new, w[i].node = n, w[i].block = b
          PROVE  Open(w, fd, e, n, b)
      BY <1>1, <3>2 DEF Open, IsOpen
    <3> QED
      BY <3>1, <3>2
  <2>3. Owed(<<>>, pc'[fd], {}, <<r>>, e, n, b) <=> e = r.op /\ <<n, b>> \in M
    BY ToldIs
  <2> HIDE DEF w, s
  <2> QED
    BY <2>1, <2>2, <2>3
<1>5. Sound(pedidos'[fd], pc'[fd], hilos'[fd], salida'[fd])
  <2>1. Once(<<>>) /\ \A e, n, b : ~Says(<<>>, e, n, b)
    BY NothingSaid
  <2>2. Tidy(Head(<<r>>))
    BY DEF Tells
  <2>3. Separate(pc'[fd], {})
    BY DEF Separate
  <2>4. \A e, n, b : ~Doing(pc'[fd], {}, e, n, b)
    BY DEF Doing
  <2>5. Sound(<<>>, pc'[fd], {}, <<r>>)
    BY <2>1, <2>2, <2>3, <2>4, Zenon DEF Sound
  <2> QED
    BY <2>5
<1>6. Account(fd)'
  <2> QED
    BY <1>3, <1>4, <1>5, Zenon DEF Account
<1>7. OthersRows(fd, s, w)
  BY <1>1 DEF OthersRows
<1> QED
  BY <1>6, <1>7

(* What a handler of fd does to its job leaves those of the others.        *)
IdsStay ==
    \A i \in DOMAIN tabla_jobs : /\ i \in DOMAIN tabla_jobs'
                                 /\ tabla_jobs'[i].id = tabla_jobs[i].id
Serves(s, id, fd, e) ==
    \E k \in DOMAIN s : s[k].id = id /\ s[k].master = fd /\ s[k].estado = "P" /\ s[k].etapa = e

LEMMA SetOthers ==
    ASSUME Tables, NEW fd, NEW e, HasJob(fd, e), NEW j \in Job, SetJob(fd, e, j),
           j.id = JobOf(fd, e).id
    PROVE  /\ OthersJobs(fd, tabla_jobs, tabla_jobs') /\ IdsStay
           /\ \E k \in DOMAIN tabla_jobs' : tabla_jobs'[k] = j
<1>1. tabla_jobs \in Seq(Job)
  BY DEF Tables
<1> DEFINE i == GetJobIndex(fd, e)
<1>2. /\ i \in DOMAIN tabla_jobs /\ JobOf(fd, e) = tabla_jobs[i] /\ JobOf(fd, e).master = fd
  BY <1>1, JobOfIs
<1>3. /\ DOMAIN tabla_jobs' = DOMAIN tabla_jobs /\ tabla_jobs'[i] = j
      /\ \A k \in DOMAIN tabla_jobs : k # i => tabla_jobs'[k] = tabla_jobs[k]
  BY <1>1, SetJobIs
<1> HIDE DEF i
<1> QED
  BY <1>2, <1>3 DEF OthersJobs, IdsStay

LEMMA MovedOthers ==
    ASSUME Tables, NEW fd, NEW from, NEW to \in Stage, MovesJob(fd, from, to)
    PROVE  /\ OthersJobs(fd, tabla_jobs, tabla_jobs') /\ IdsStay
           /\ Serves(tabla_jobs', JobOf(fd, from).id, fd, to)
<1>1. tabla_jobs \in Seq(Job) /\ HasJob(fd, from)
  BY DEF Tables, MovesJob
<1>2. JobOf(fd, from) \in Job /\ JobOf(fd, from).master = fd /\ JobOf(fd, from).estado = "P"
  BY <1>1, JobOfIs
<1> DEFINE k == JobOf(fd, from)
           j == [k EXCEPT !.etapa = to]
<1>3. j \in Job /\ j.id = k.id /\ j.master = fd /\ j.estado = "P" /\ j.etapa = to
  <2> HIDE DEF k
  <2> QED
    BY <1>2, JobAdvanced DEF k
<1>4. SetJob(fd, from, j)
  BY DEF MovesJob
<1> HIDE DEF j
<1>5. /\ OthersJobs(fd, tabla_jobs, tabla_jobs') /\ IdsStay
      /\ \E i \in DOMAIN tabla_jobs' : tabla_jobs'[i] = j
  BY <1>1, <1>3, <1>4, SetOthers
<1> QED
  BY <1>3, <1>5 DEF Serves

LEMMA AddedOthers ==
    ASSUME Tables, NEW fd \in FDs, tabla_jobs' = Append(tabla_jobs, NewJob(fd))
    PROVE  /\ OthersJobs(fd, tabla_jobs, tabla_jobs') /\ IdsStay
           /\ Serves(tabla_jobs', jobs, fd, "T")
           /\ \E k \in DOMAIN tabla_jobs' : tabla_jobs'[k].id = jobs
<1> DEFINE j == NewJob(fd)
<1>1. j \in Job /\ j.id = jobs /\ j.master = fd /\ j.estado = "P" /\ j.etapa = "T"
  BY NewJobIs
<1>2. tabla_jobs \in Seq(Job) /\ tabla_jobs' = Append(tabla_jobs, j)
  BY DEF Tables
<1> HIDE DEF j
<1>3. /\ DOMAIN tabla_jobs' = DOMAIN tabla_jobs \cup {Len(tabla_jobs) + 1}
      /\ tabla_jobs'[Len(tabla_jobs) + 1] = j
      /\ \A i \in DOMAIN tabla_jobs : tabla_jobs'[i] = tabla_jobs[i]
  BY <1>1, <1>2
<1> QED
  BY <1>1, <1>3 DEF OthersJobs, IdsStay, Serves

LEMMA EntriesStay ==
    ASSUME Tables, EntriesKnown, EntriesInOrder, IdsStay, NEW S,
           \/ tabla_T_planificados' = tabla_T_planificados
           \/ tabla_T_planificados' = Keep(tabla_T_planificados, S)
    PROVE  EntriesKnown' /\ EntriesInOrder'
<1> DEFINE s == tabla_T_planificados
           w == tabla_T_planificados'
           E == PlannedOn(KnownNodes)
<1>1. s \in Seq(E)
  BY DEF Tables
<1>2. \A k \in DOMAIN w : \E i \in DOMAIN s : w[k] = s[i]
  <2>1. CASE w = s
    BY <2>1
  <2>2. CASE w = Keep(s, S)
    <3> HIDE DEF s, E, w
    <3>1. \A k \in DOMAIN Keep(s, S) : \E i \in DOMAIN s \cap S : Keep(s, S)[k] = s[i]
      BY <1>1, KeepIs
    <3> QED
      BY <2>2, <3>1
  <2> QED
    BY <2>1, <2>2
<1>3. \A i, j \in DOMAIN w : i < j => \E p, q \in DOMAIN s : p < q /\ w[i] = s[p] /\ w[j] = s[q]
  <2>1. CASE w = s
    BY <2>1
  <2>2. CASE w = Keep(s, S)
    <3> HIDE DEF s, E, w
    <3>1. Ordered(Keep(s, S), s, S)
      BY <1>1, KeepOrder
    <3> QED
      BY <2>2, <3>1 DEF Ordered
  <2> QED
    BY <2>1, <2>2
<1>4. EntriesKnown'
  BY <1>2 DEF EntriesKnown, IdsStay
<1>5. EntriesInOrder'
  BY <1>3 DEF EntriesInOrder
<1> QED
  BY <1>4, <1>5

(* A request that is answered with tasks, and one that is not.             *)
LEMMA RequestWorks ==
    ASSUME Working, NEW fd \in FDs, Alone(fd), NEW job, NEW op, NoneOpen(tabla_estados, fd),
           More(tabla_estados, tabla_estados', job, fd, op), NEW M,
           Tasked(tabla_estados, tabla_estados', M), NEW r, r.op = op, Tells(r, M),
           pedidos'[fd] = <<>>, hilos'[fd] = {}, salida'[fd] = <<r>>,
           OthersJobs(fd, tabla_jobs, tabla_jobs'), Serves(tabla_jobs', job, fd, op),
           Balanced(tabla_nodos', tabla_estados'), EntriesKnown', EntriesInOrder'
    PROVE  Working'
<1>1. Account(fd)' /\ OthersRows(fd, tabla_estados, tabla_estados')
  BY AnswerAccount
<1>2. /\ DOMAIN tabla_estados \subseteq DOMAIN tabla_estados'
      /\ \A i \in DOMAIN tabla_estados : tabla_estados'[i] = tabla_estados[i]
      /\ \A i \in DOMAIN tabla_estados' \ DOMAIN tabla_estados :
            /\ tabla_estados'[i].job = job /\ tabla_estados'[i].master = fd
            /\ tabla_estados'[i].op = op /\ tabla_estados'[i].status = "P"
  BY DEF More
<1>3. ASSUME NEW i \in DOMAIN tabla_estados', tabla_estados'[i].master = fd,
             tabla_estados'[i].status = "P"
      PROVE  Backed(i)'
  <2>1. i \notin DOMAIN tabla_estados
    BY <1>2, <1>3 DEF NoneOpen
  <2>2. tabla_estados'[i].job = job /\ tabla_estados'[i].op = op
    BY <1>2, <2>1
  <2>3. PICK k \in DOMAIN tabla_jobs' :
           /\ tabla_jobs'[k].id = job /\ tabla_jobs'[k].master = fd
           /\ tabla_jobs'[k].estado = "P" /\ tabla_jobs'[k].etapa = op
    BY DEF Serves
  <2>4. Backs(tabla_jobs'[k], tabla_estados'[i])
    BY <1>3, <2>2, <2>3 DEF Backs
  <2> QED
    BY <2>4, Zenon DEF Backed
<1>4. ASSUME NEW i \in DOMAIN tabla_estados', tabla_estados'[i].op # "T"
      PROVE  tabla_estados'[i].block = <<>>
  <2>1. CASE i \in DOMAIN tabla_estados
    BY <1>2, <1>4, <2>1 DEF Working, RowsPlain
  <2>2. CASE i \notin DOMAIN tabla_estados
    <3> DEFINE n == tabla_estados'[i].node
               b == tabla_estados'[i].block
    <3>1. r.op # "T"
      BY <1>2, <1>4, <2>2
    <3>2. <<n, b>> \in M
      BY <2>2 DEF Tasked
    <3> HIDE DEF n, b
    <3>3. \E k \in DOMAIN r.data : r.data[k].nodo = n /\ WorksOn(r.op, r.data[k].tmps, b)
      BY <3>2, Zenon DEF Tells
    <3>4. b = <<>>
      BY <3>1, <3>3 DEF WorksOn
    <3> QED
      BY <3>4 DEF b
  <2> QED
    BY <2>1, <2>2
<1>5. RowsPlain'
  BY <1>4 DEF RowsPlain
<1> QED
  BY <1>1, <1>3, <1>5, WorkingThen

LEMMA QuietWorks ==
    ASSUME Tables, Working, NEW fd \in FDs, Alone(fd), NoneOpen(tabla_estados, fd),
           tabla_estados' = tabla_estados, pedidos'[fd] = <<>>, hilos'[fd] = {}, salida'[fd] = <<>>,
           OthersJobs(fd, tabla_jobs, tabla_jobs'), IdsStay,
           SameLoads(tabla_nodos, tabla_nodos'), tabla_T_planificados' = tabla_T_planificados
    PROVE  Working'
<1>1. OthersRows(fd, tabla_estados, tabla_estados')
  BY DEF OthersRows
<1>2. NoneOpen(tabla_estados', fd)
  OBVIOUS
<1>3. Account(fd)'
  BY <1>2, NothingLeft
<1>4. Balanced(tabla_nodos, tabla_estados)
  BY DEF Working
<1>5. Balanced(tabla_nodos', tabla_estados')
  BY <1>4, LoadsStay
<1>6. EntriesKnown' /\ EntriesInOrder'
  BY EntriesStay DEF Working
<1>7. RowsPlain'
  BY DEF Working, RowsPlain
<1>8. \A i \in DOMAIN tabla_estados' :
         tabla_estados'[i].master = fd /\ tabla_estados'[i].status = "P" => Backed(i)'
  BY <1>2 DEF NoneOpen
<1> QED
  BY <1>1, <1>3, <1>5, <1>6, <1>7, <1>8, WorkingThen

(* The transformations of a request: a row for each and told once.         *)
Blocks(tasks) == {<<tasks[k].nodo, tasks[k].tmps[1]>> : k \in DOMAIN tasks}

LEMMA RowsTasked ==
    ASSUME NEW R, NEW s \in Seq(R), NEW E, NEW tasks \in Seq(E), Apart(tasks),
           NEW job, NEW fd, NEW arch, TransformationRows(tasks, job, fd, arch) \in Seq(R)
    PROVE  Tasked(s, s \o TransformationRows(tasks, job, fd, arch), Blocks(tasks))
<1> DEFINE y == TransformationRows(tasks, job, fd, arch)
           w == s \o y
           new == DOMAIN w \ DOMAIN s
<1>1. /\ DOMAIN y = DOMAIN tasks
      /\ \A k \in DOMAIN tasks : y[k].node = tasks[k].nodo /\ y[k].block = tasks[k].tmps[1]
  BY RowsShape
<1> HIDE DEF y
<1>2. Chain(s, y, w)
  BY ConcatIs DEF y
<1>3. \A k \in DOMAIN tasks : Len(s) + k \in new /\ w[Len(s) + k] = y[k]
  BY <1>1, <1>2 DEF Chain
<1>4. \A i \in new : i - Len(s) \in DOMAIN tasks /\ w[i] = y[i - Len(s)]
  <2> SUFFICES ASSUME NEW i \in new PROVE i - Len(s) \in DOMAIN tasks /\ w[i] = y[i - Len(s)]
    OBVIOUS
  <2> DEFINE k == i - Len(s)
  <2>1. k \in 1 .. Len(y) /\ i = Len(s) + k
    BY <1>2 DEF Chain
  <2>2. w[Len(s) + k] = y[k]
    BY <1>2, <2>1 DEF Chain
  <2>3. k \in DOMAIN tasks
    BY <1>1, <1>2, <2>1 DEF Chain
  <2> QED
    BY <2>1, <2>2, <2>3
<1> HIDE DEF w
<1>5. ASSUME NEW i \in new, NEW j \in new, w[i].block = w[j].block
      PROVE  i = j
  <2> DEFINE k == i - Len(s)
             l == j - Len(s)
  <2>1. k \in DOMAIN tasks /\ l \in DOMAIN tasks /\ w[i] = y[k] /\ w[j] = y[l]
    BY <1>4
  <2>2. i \in Nat /\ j \in Nat /\ Len(s) \in Nat
    BY <1>2 DEF Chain
  <2> HIDE DEF new
  <2>3. k = l
    <3> HIDE DEF k, l
    <3> QED
      BY <1>1, <1>5, <2>1 DEF Apart
  <2> QED
    BY <2>2, <2>3
<1>6. ASSUME NEW n, NEW b
      PROVE  <<n, b>> \in Blocks(tasks) <=> \E i \in new : w[i].node = n /\ w[i].block = b
  <2>1. <<n, b>> \in Blocks(tasks) <=> \E k \in DOMAIN tasks : tasks[k].nodo = n /\ tasks[k].tmps[1] = b
    BY DEF Blocks
  <2> HIDE DEF new
  <2>2. ASSUME NEW k \in DOMAIN tasks, tasks[k].nodo = n, tasks[k].tmps[1] = b
        PROVE  \E i \in new : w[i].node = n /\ w[i].block = b
    <3>1. y[k].node = n /\ y[k].block = b
      BY <1>1, <2>2
    <3>2. Len(s) + k \in new /\ w[Len(s) + k] = y[k]
      BY <1>3
    <3> QED
      BY <3>1, <3>2
  <2>3. ASSUME NEW i \in new, w[i].node = n, w[i].block = b
        PROVE  \E k \in DOMAIN tasks : tasks[k].nodo = n /\ tasks[k].tmps[1] = b
    <3>1. i - Len(s) \in DOMAIN tasks /\ w[i] = y[i - Len(s)]
      BY <1>4
    <3> QED
      BY <1>1, <2>3, <3>1
  <2> QED
    BY <2>1, <2>2, <2>3
<1>7. Tasked(s, w, Blocks(tasks))
  BY <1>5, <1>6, Zenon DEF Tasked, new
<1> QED
  BY <1>7, Zenon DEF w, y

LEMMA SortedTells ==
    ASSUME NEW N \in SUBSET Nat, NEW tasks \in Seq(TasksOf(N)), Apart(tasks)
    PROVE  Tells([op |-> "T", data |-> SortByNode(tasks)], Blocks(tasks))
<1> DEFINE v == SortByNode(tasks)
           r == [op |-> "T", data |-> v]
           l == Len(tasks)
<1>1. v \in Seq(TasksOf(N)) /\ SameTasks(v, tasks, l)
  BY SortedAre
<1> HIDE DEF v
<1>2. r.op = "T" /\ r.data = v
  OBVIOUS
<1> HIDE DEF r
<1>3. DOMAIN tasks = 1 .. l
  OBVIOUS
<1>4. ByNode(v) /\ Apart(v)
  BY <1>1 DEF SameTasks
<1>5. Tidy(r)
  BY <1>2, <1>4 DEF Tidy
<1>6. /\ \A k \in DOMAIN v : \E i \in DOMAIN tasks : v[k] = tasks[i]
      /\ \A i \in DOMAIN tasks : \E k \in DOMAIN v : v[k] = tasks[i]
  BY <1>1, <1>3 DEF SameTasks
<1>7. \A i \in DOMAIN tasks : tasks[i].tmps \in Seq(Block) /\ Len(tasks[i].tmps) = 1
  <2>1. \A i \in DOMAIN tasks : tasks[i] \in TasksOf(N)
    OBVIOUS
  <2> QED
    BY <2>1 DEF TasksOf, Apart
<1>8. \A i \in DOMAIN tasks : \A b : In(tasks[i].tmps, b) <=> tasks[i].tmps[1] = b
  <2> SUFFICES ASSUME NEW i \in DOMAIN tasks, NEW b
               PROVE  In(tasks[i].tmps, b) <=> tasks[i].tmps[1] = b
    OBVIOUS
  <2> DEFINE q == tasks[i].tmps
  <2>1. q \in Seq(Block) /\ Len(q) = 1
    BY <1>7
  <2> HIDE DEF q
  <2>2. DOMAIN q = {1}
    BY <2>1
  <2>3. In(q, b) <=> q[1] = b
    BY <2>2 DEF In
  <2> QED
    BY <2>3 DEF q
<1>9. ASSUME NEW n, NEW b
      PROVE  <<n, b>> \in Blocks(tasks)
               <=> \E k \in DOMAIN r.data : r.data[k].nodo = n /\ WorksOn(r.op, r.data[k].tmps, b)
  <2>1. <<n, b>> \in Blocks(tasks) <=> \E i \in DOMAIN tasks : tasks[i].nodo = n /\ tasks[i].tmps[1] = b
    BY DEF Blocks
  <2>2. \A k \in DOMAIN v : WorksOn(r.op, r.data[k].tmps, b) <=> In(v[k].tmps, b)
    BY <1>2 DEF WorksOn
  <2>3. (\E i \in DOMAIN tasks : tasks[i].nodo = n /\ tasks[i].tmps[1] = b)
          <=> \E k \in DOMAIN v : v[k].nodo = n /\ In(v[k].tmps, b)
    <3>1. ASSUME NEW i \in DOMAIN tasks, tasks[i].nodo = n, tasks[i].tmps[1] = b
          PROVE  \E k \in DOMAIN v : v[k].nodo = n /\ In(v[k].tmps, b)
      BY <1>6, <1>8, <3>1
    <3>2. ASSUME NEW k \in DOMAIN v, v[k].nodo = n, In(v[k].tmps, b)
          PROVE  \E i \in DOMAIN tasks : tasks[i].nodo = n /\ tasks[i].tmps[1] = b
      BY <1>6, <1>8, <3>2
    <3> QED
      BY <3>1, <3>2
  <2> QED
    BY <1>2, <2>1, <2>2, <2>3
<1>10. Tells(r, Blocks(tasks))
  BY <1>5, <1>9, Zenon DEF Tells
<1> QED
  BY <1>10, Zenon DEF r, v

(* The entries of a new job follow those of the others.                    *)
LEMMA EntriesAdded ==
    ASSUME Tables, EntriesKnown, EntriesInOrder, IdsStay,
           \A j \in DOMAIN tabla_jobs : tabla_jobs[j].id # jobs,
           \E j \in DOMAIN tabla_jobs' : tabla_jobs'[j].id = jobs,
           NEW E, NEW tasks \in Seq(E), ByNode(tasks), NEW fd, NEW arch,
           NEW R, tabla_T_planificados \in Seq(R),
           PlannedEntries(tasks, jobs, fd, arch) \in Seq(R),
           tabla_T_planificados' = tabla_T_planificados \o PlannedEntries(tasks, jobs, fd, arch)
    PROVE  EntriesKnown' /\ EntriesInOrder'
<1> DEFINE x == tabla_T_planificados
           y == PlannedEntries(tasks, jobs, fd, arch)
           z == tabla_T_planificados'
<1>1. DOMAIN y = DOMAIN tasks /\ \A k \in DOMAIN y : y[k].job = jobs /\ y[k].nodo = tasks[k].nodo
  BY DEF PlannedEntries
<1>2. Chain(x, y, z)
  <2> HIDE DEF y
  <2> QED
    BY ConcatIs DEF y
<1> HIDE DEF y, x, z
<1>3. \A k \in DOMAIN z : \/ k \in DOMAIN x /\ z[k] = x[k]
                          \/ k \notin DOMAIN x /\ k - Len(x) \in DOMAIN y /\ z[k] = y[k - Len(x)]
  <2> SUFFICES ASSUME NEW k \in DOMAIN z, k \notin DOMAIN x
               PROVE  k - Len(x) \in DOMAIN y /\ z[k] = y[k - Len(x)]
    BY <1>2 DEF Chain
  <2> DEFINE i == k - Len(x)
  <2>1. i \in 1 .. Len(y) /\ k = Len(x) + i
    BY <1>2 DEF Chain
  <2>2. z[Len(x) + i] = y[i]
    BY <1>2, <2>1 DEF Chain
  <2> QED
    BY <1>2, <2>1, <2>2 DEF Chain
<1>4. \A k \in DOMAIN x : x[k].job # jobs
  BY DEF EntriesKnown, x
<1>5. EntriesKnown'
  <2>1. \A k \in DOMAIN z : \E j \in DOMAIN tabla_jobs' : tabla_jobs'[j].id = z[k].job
    <3> SUFFICES ASSUME NEW k \in DOMAIN z
                 PROVE  \E j \in DOMAIN tabla_jobs' : tabla_jobs'[j].id = z[k].job
      OBVIOUS
    <3>1. CASE k \in DOMAIN x /\ z[k] = x[k]
      <4>1. PICK j \in DOMAIN tabla_jobs : tabla_jobs[j].id = x[k].job
        BY <3>1 DEF EntriesKnown, x
      <4> QED
        BY <3>1, <4>1 DEF IdsStay
    <3>2. CASE k \notin DOMAIN x /\ k - Len(x) \in DOMAIN y /\ z[k] = y[k - Len(x)]
      BY <1>1, <3>2
    <3> QED
      BY <1>3, <3>1, <3>2
  <2> QED
    BY <2>1 DEF EntriesKnown, z
<1>6. EntriesInOrder'
  <2>1. ASSUME NEW i \in DOMAIN z, NEW j \in DOMAIN z, i < j, z[i].job = z[j].job
        PROVE  z[i].nodo <= z[j].nodo
    <3>1. i \in Nat /\ j \in Nat /\ Len(x) \in Nat
      BY <1>2 DEF Chain
    <3>2. CASE j \in DOMAIN x
      <4>1. i \in DOMAIN x
        BY <1>2, <2>1, <3>1, <3>2 DEF Chain
      <4>2. z[i] = x[i] /\ z[j] = x[j]
        BY <1>3, <3>2, <4>1
      <4> QED
        BY <2>1, <3>2, <4>1, <4>2 DEF EntriesInOrder, x
    <3>3. CASE j \notin DOMAIN x
      <4>1. j - Len(x) \in DOMAIN y /\ z[j] = y[j - Len(x)]
        BY <1>3, <3>3
      <4>2. z[j].job = jobs /\ z[j].nodo = tasks[j - Len(x)].nodo /\ j - Len(x) \in DOMAIN tasks
        BY <1>1, <4>1
      <4>3. i \notin DOMAIN x
        BY <1>3, <1>4, <2>1, <4>2
      <4>4. i - Len(x) \in DOMAIN y /\ z[i] = y[i - Len(x)]
        BY <1>3, <4>3
      <4>5. z[i].nodo = tasks[i - Len(x)].nodo /\ i - Len(x) \in DOMAIN tasks
        BY <1>1, <4>4
      <4>6. i - Len(x) < j - Len(x)
        BY <2>1, <3>1
      <4> QED
        BY <4>2, <4>5, <4>6 DEF ByNode
    <3> QED
      BY <3>2, <3>3
  <2> QED
    BY <2>1 DEF EntriesInOrder, z
<1> QED
  BY <1>5, <1>6

(* What a handler finds when the message is not a result, and what its     *)
(* reply is.                                                               *)
Finds(fd, op) ==
    /\ Alone(fd) /\ NoneOpen(tabla_estados, fd)
    /\ pedidos'[fd] = <<>> /\ hilos'[fd] = {} /\ salida[fd] = <<>>
    /\ op \in Stage \cup {"FIN"} /\ (op \in Stage => fd \in abiertos)
LEMMA FindsIs ==
    ASSUME ~FSFails, TypeInv, NEW fd \in FDs, Calm(fd), Account(fd), GetMasterMessage(fd),
           UNCHANGED masterVars, Head(pedidos[fd]).op # "O"
    PROVE  Finds(fd, Head(pedidos[fd]).op)
<1> DEFINE op == Head(pedidos[fd]).op
<1>1. pedidos[fd] # <<>> /\ pedidos' = [pedidos EXCEPT ![fd] = Tail(pedidos[fd])]
  BY YamaLinkShape
<1>2. /\ op \in Stage \cup {"O", "FIN"} /\ salida[fd] = <<>>
      /\ Tail(pedidos[fd]) = <<>> /\ hilos[fd] = {}
      /\ op \in Stage => pc[fd] = Stages[op]
  BY <1>1, CalmHead
<1>3. NoneOpen(tabla_estados, fd)
  BY <1>1, AskedNothing
<1>4. Alone(fd)
  BY ServedCalm
<1>5. pedidos'[fd] = <<>> /\ hilos'[fd] = {}
  <2>1. DOMAIN pedidos = FDs
    BY DEF TypeInv, SocketsOK
  <2> QED
    BY <1>1, <1>2, <2>1 DEF masterVars
<1>6. op \in Stage => fd \in abiertos
  BY <1>2, StageNames DEF Calm, Stage
<1> QED
  BY <1>2, <1>3, <1>4, <1>5, <1>6 DEF Finds

LEMMA RepliedIs ==
    ASSUME TypeInv, NEW fd \in FDs, NEW op, NEW data, Respond(fd, op, data),
           fd \in abiertos, salida[fd] = <<>>
    PROVE  salida'[fd] = <<[op |-> op, data |-> data]>>
<1> DEFINE r == [op |-> op, data |-> data]
<1>1. salida' = [salida EXCEPT ![fd] = Append(salida[fd], r)]
  BY Zenon DEF Respond
<1> HIDE DEF r
<1>2. salida' = [salida EXCEPT ![fd] = Append(<<>>, r)]
  BY <1>1
<1>3. DOMAIN salida = FDs
  BY DEF TypeInv, SocketsOK
<1>4. salida'[fd] = Append(<<>>, r)
  BY <1>2, <1>3
<1>5. Append(<<>>, r) = <<r>>
  OBVIOUS
<1> QED
  BY <1>4, <1>5 DEF r

LEMMA SilentIs ==
    ASSUME TypeInv, NEW fd \in FDs, salida' = salida, salida[fd] = <<>>
    PROVE  salida'[fd] = <<>>
OBVIOUS

LEMMA CrashWorks ==
    ASSUME TypeInv, Working, NEW fd \in FDs, NEW op, Finds(fd, op), Crash
    PROVE  Working'
<1>1. /\ tabla_estados' = tabla_estados /\ tabla_jobs' = tabla_jobs /\ salida' = salida
      /\ tabla_nodos' = tabla_nodos /\ tabla_T_planificados' = tabla_T_planificados
  BY DEF Crash, planificados
<1>2. OthersJobs(fd, tabla_jobs, tabla_jobs') /\ IdsStay /\ SameLoads(tabla_nodos, tabla_nodos')
  BY <1>1 DEF OthersJobs, IdsStay, SameLoads
<1>3. Tables
  BY DEF TypeInv
<1> QED
  BY <1>1, <1>2, <1>3, QuietWorks DEF Finds

LEMMA TransformationWorks ==
    ASSUME TypeInv, JobsInv, Working, NEW fd \in FDs, Greeting(fd), Finds(fd, "T"),
           ProcessTransformation(fd)
    PROVE  Working'
<1> DEFINE arch == Head(pedidos[fd]).file
           t1 == AddNodesOf(arch)
           t2 == UpdateAvailability(t1, config.algoritm, config.availBase)
           bs == [k \in DOMAIN Layout[arch] |-> <<arch, k>>]
           p == PlanBlocks(t2, bs)
           sorted == SortByNode(p.tasks)
           N == NodesOf(t2)
<1>1. /\ Attend(fd, "T")
      /\ \/ p.overflow /\ Crash
         \/ /\ ~p.overflow
            /\ tabla_nodos' = p.nodos
            /\ tabla_jobs' = Append(tabla_jobs, NewJob(fd))
            /\ tabla_info_archivos' = Append(tabla_info_archivos, arch)
            /\ tabla_estados' = tabla_estados \o TransformationRows(p.tasks, jobs, fd, arch)
            /\ tabla_T_planificados' = tabla_T_planificados
                                         \o PlannedEntries(sorted, jobs, fd, arch)
            /\ Respond(fd, "T", sorted)
            /\ UNCHANGED <<tabla_LR_planificados, tabla_GR_planificados,
                           jobs, config, conectados, vivo, abiertos>>
  BY Zenon DEF ProcessTransformation
<1>2. CASE p.overflow /\ Crash
  BY <1>2, CrashWorks
<1>3. CASE /\ ~p.overflow
           /\ tabla_nodos' = p.nodos
           /\ tabla_jobs' = Append(tabla_jobs, NewJob(fd))
           /\ tabla_info_archivos' = Append(tabla_info_archivos, arch)
           /\ tabla_estados' = tabla_estados \o TransformationRows(p.tasks, jobs, fd, arch)
           /\ tabla_T_planificados' = tabla_T_planificados
                                        \o PlannedEntries(sorted, jobs, fd, arch)
           /\ Respond(fd, "T", sorted)
           /\ UNCHANGED <<tabla_LR_planificados, tabla_GR_planificados,
                          jobs, config, conectados, vivo, abiertos>>
  <2>1. Tables /\ SocketsOK /\ Table_OK(tabla_nodos) /\ jobs \in Nat
    BY DEF TypeInv, Tables
  <2>2. arch \in Files /\ Layout[arch] \in Seq(Node \X Node)
    <3>1. pedidos[fd] # <<>> /\ Head(pedidos[fd]).op = "T"
      BY <1>1 DEF Attend, Receive
    <3>2. arch \in Files
      BY <2>1, <3>1, MessageIs
    <3> QED
      BY <3>2, LayoutAssumption
  <2>3. /\ bs \in Seq(Block) /\ DOMAIN bs = DOMAIN Layout[arch]
        /\ \A k \in DOMAIN bs : bs[k] = <<arch, k>>
        /\ bs # <<>> => Layout[arch] # <<>>
    <3>1. DOMAIN Layout[arch] = 1 .. Len(Layout[arch]) /\ Len(Layout[arch]) \in Nat
      BY <2>2
    <3>2. \A k \in DOMAIN Layout[arch] : <<arch, k>> \in Block
      BY <2>2, <3>1 DEF Block
    <3>3. bs \in Seq(Block) /\ DOMAIN bs = DOMAIN Layout[arch]
      BY <3>1, <3>2
    <3> QED
      BY <3>1, <3>3
  <2> HIDE DEF arch
  <2>4. /\ Table_OK(t1) /\ KnownNodes \subseteq NodesOf(t1)
        /\ Layout[arch] # <<>> => t1 # <<>>
    BY <2>1, <2>2, AddNodesOfIs, ConfigIs DEF KnownNodes
  <2>5. Balanced(t1, tabla_estados)
    BY <2>1, <2>2, AddNodesBalance DEF Working
  <2> HIDE DEF t1
  <2>6. Table_OK(t2) /\ SameNodes(t1, t2)
    BY <2>1, <2>4, AvailabilityKeepsTable, ConfigIs
  <2>7. Balanced(t2, tabla_estados)
    <3>1. SameLoads(t1, t2)
      BY <2>4, AvailabilityLoads
    <3> HIDE DEF t2
    <3> QED
      BY <2>5, <3>1, LoadsStay
  <2> HIDE DEF t2
  <2>8. N \in SUBSET Node /\ (bs # <<>> => t2 # <<>>)
    <3>1. N \in SUBSET Node
      BY <2>6, NodesAreNodes
    <3>2. t1 # <<>> => t2 # <<>>
      BY <2>4, <2>6 DEF SameNodes, Table_OK
    <3> QED
      BY <2>3, <2>4, <3>1, <3>2
  <2> HIDE DEF bs
  <2>9. /\ Table_OK(p.nodos) /\ SameNodes(t2, p.nodos)
        /\ p.tasks \in Seq(TasksOf(Node)) /\ DOMAIN p.tasks = DOMAIN bs
        /\ \A k \in DOMAIN bs : /\ Healthy(t2, p.tasks[k].nodo)
                                /\ p.tasks[k].tmps = <<bs[k]>>
    BY <1>3, <2>1, <2>3, <2>6, <2>8, ConfigIs, PlanBlocksIs
  <2>10. Node \in SUBSET Nat
    BY LayoutAssumption
  <2> DEFINE tasks == p.tasks
             rows == TransformationRows(tasks, jobs, fd, arch)
             es == PlannedEntries(sorted, jobs, fd, arch)
             E == TasksOf(Node)
             r == [op |-> "T", data |-> sorted]
  <2>11. Apart(tasks)
    <3>1. \A k \in DOMAIN tasks : tasks[k].tmps = <<bs[k]>> /\ bs[k] = <<arch, k>>
      BY <2>3, <2>9
    <3> HIDE DEF tasks
    <3>2. \A k \in DOMAIN tasks : Len(tasks[k].tmps) = 1 /\ tasks[k].tmps[1] = bs[k]
      BY <3>1
    <3> QED
      BY <3>1, <3>2 DEF Apart
  <2>12. Balanced(tabla_nodos', tabla_estados')
    <3>1. tabla_estados \in Seq(Row)
      BY TypeInvIsType DEF TypeOK, YamaOK
    <3>2. config \in Configs
      BY <2>1 DEF Tables
    <3>3. Balanced(p.nodos, tabla_estados \o rows)
      BY <1>3, <2>1, <2>2, <2>3, <2>6, <2>7, <2>8, <3>1, <3>2, PlanBlocksBalance
    <3> QED
      BY <1>3, <3>3
  <2>13. rows \in Seq(Row)
    <3>1. \A k \in DOMAIN tasks : \E b \in Block : tasks[k].tmps = <<b>> /\ b[2] \in Nat
      <4>1. \A b \in Block : b[2] \in Nat
        BY DEF Block
      <4>2. \A k \in DOMAIN bs : bs[k] \in Block
        BY <2>3
      <4> QED
        BY <2>9, <4>1, <4>2
    <3>2. tasks \in Seq(E)
      BY <2>9
    <3> HIDE DEF tasks
    <3>3. rows \in Seq(RowsOver(Node, Nat))
      BY <2>1, <2>2, <3>1, <3>2, RowsOfTasks
    <3>4. RowsOver(Node, Nat) \subseteq Row
      BY DEF RowsOver
    <3> HIDE DEF rows
    <3> QED
      BY <3>3, <3>4
  <2>14. Tasked(tabla_estados, tabla_estados', Blocks(tasks)) /\ Tells(r, Blocks(tasks))
    <3>1. tabla_estados \in Seq(Row)
      BY TypeInvIsType DEF TypeOK, YamaOK
    <3>2. tasks \in Seq(E)
      BY <2>9
    <3>3. tabla_estados' = tabla_estados \o rows
      BY <1>3
    <3>4. r = [op |-> "T", data |-> SortByNode(tasks)]
      OBVIOUS
    <3> HIDE DEF tasks, r
    <3>5. Tasked(tabla_estados, tabla_estados \o rows, Blocks(tasks))
      BY <2>11, <2>13, <3>1, <3>2, RowsTasked
    <3>6. Tells([op |-> "T", data |-> SortByNode(tasks)], Blocks(tasks))
      BY <2>10, <2>11, <3>2, SortedTells
    <3> QED
      BY <3>3, <3>4, <3>5, <3>6
  <2>15. sorted \in Seq(E) /\ ByNode(sorted)
    <3>1. tasks \in Seq(E)
      BY <2>9
    <3> HIDE DEF tasks
    <3>2. /\ SortByNode(tasks) \in Seq(E)
          /\ SameTasks(SortByNode(tasks), tasks, Len(tasks))
      BY <2>10, <3>1, SortedAre
    <3> QED
      BY <3>2 DEF SameTasks, tasks
  <2>16. /\ OthersJobs(fd, tabla_jobs, tabla_jobs') /\ IdsStay
         /\ Serves(tabla_jobs', jobs, fd, "T")
         /\ \E j \in DOMAIN tabla_jobs' : tabla_jobs'[j].id = jobs
    BY <1>3, <2>1, AddedOthers
  <2>17. \A j \in DOMAIN tabla_jobs : tabla_jobs[j].id # jobs
    <3>1. \A j \in DOMAIN tabla_jobs : tabla_jobs[j].id < jobs /\ tabla_jobs[j].id \in Nat
      BY <2>1, JobFields DEF JobsInv, IdsBefore
    <3> QED
      BY <2>1, <3>1
  <2>18. EntriesKnown' /\ EntriesInOrder'
    <3>1. tabla_T_planificados \in Seq(PlannedOn(Node))
      <4>1. KnownNodes \subseteq Node
        BY <2>1, NodesAreNodes DEF KnownNodes
      <4>2. Seq(PlannedOn(KnownNodes)) \subseteq Seq(PlannedOn(Node))
        BY <4>1, MoreKnown
      <4> QED
        BY <2>1, <4>2 DEF Tables
    <3> HIDE DEF sorted
    <3>2. es \in Seq(PlannedOn(Node))
      BY <2>1, <2>2, <2>15, EntriesOfTasks
    <3>3. tabla_T_planificados' = tabla_T_planificados \o es
      BY <1>3
    <3>4. EntriesKnown /\ EntriesInOrder
      BY DEF Working
    <3> QED
      BY <2>1, <2>15, <2>16, <2>17, <3>1, <3>2, <3>3, <3>4, EntriesAdded
  <2>19. salida'[fd] = <<r>>
    <3>1. Respond(fd, "T", sorted) /\ fd \in abiertos /\ salida[fd] = <<>>
      BY <1>3 DEF Finds, Stage
    <3> HIDE DEF sorted
    <3> QED
      BY <3>1, RepliedIs
  <2>20. More(tabla_estados, tabla_estados', jobs, fd, "T")
    <3>1. tabla_jobs' # tabla_jobs
      BY <2>16, <2>17
    <3> QED
      BY <3>1, TransformationTables
  <2>21. r.op = "T"
    OBVIOUS
  <2> HIDE DEF r, tasks
  <2>22. Alone(fd) /\ NoneOpen(tabla_estados, fd) /\ pedidos'[fd] = <<>> /\ hilos'[fd] = {}
    BY DEF Finds
  <2> QED
    BY <2>12, <2>14, <2>16, <2>18, <2>19, <2>20, <2>21, <2>22, RequestWorks
<1> QED
  BY <1>1, <1>2, <1>3

(* The reductions and the final store.                                     *)
LEMMA LocalsTell ==
    ASSUME NEW N \in SUBSET Nat, NEW planed \in Seq(PlannedOn(N)), ByNode(planed)
    PROVE  LET runs == Runs(planed)
               data == [k \in DOMAIN planed |-> [nodo |-> planed[k].nodo, tmps |-> planed[k].tmps]]
           IN  /\ runs \in Seq(TasksOf(N)) /\ Different(runs)
               /\ Tells([op |-> "L", data |-> data], UpTo(runs, Len(runs)))
<1> DEFINE runs == Runs(planed)
           data == [k \in DOMAIN planed |-> [nodo |-> planed[k].nodo, tmps |-> planed[k].tmps]]
           r == [op |-> "L", data |-> data]
           M == UpTo(runs, Len(runs))
<1>1. /\ Len(planed) \in Nat /\ DOMAIN planed = 1 .. Len(planed)
      /\ \A k \in DOMAIN planed : planed[k].nodo \in N /\ planed[k].tmps \in Seq(Block)
  <2>1. \A k \in DOMAIN planed : planed[k] \in PlannedOn(N)
    OBVIOUS
  <2> QED
    BY <2>1 DEF PlannedOn
<1>2. /\ runs \in Seq(TasksOf(N))
      /\ \A n : (\E k \in DOMAIN runs : runs[k].nodo = n)
                  <=> (\E k \in DOMAIN planed : planed[k].nodo = n)
      /\ \A i, j \in DOMAIN runs : runs[i].nodo = runs[j].nodo => i = j
  BY <1>1, GroupsAre DEF Runs
<1> HIDE DEF runs
<1>3. DOMAIN data = DOMAIN planed /\ \A k \in DOMAIN data : data[k].nodo = planed[k].nodo
  OBVIOUS
<1> HIDE DEF data
<1>4. r.op = "L" /\ r.data = data
  OBVIOUS
<1> HIDE DEF r
<1>5. Tidy(r)
  <2>1. ByNode(data)
    BY <1>3 DEF ByNode
  <2> QED
    BY <1>4, <2>1 DEF Tidy
<1>6. DOMAIN runs = 1 .. Len(runs)
  BY <1>2
<1>7. ASSUME NEW n, NEW b
      PROVE  <<n, b>> \in M
               <=> \E k \in DOMAIN r.data : r.data[k].nodo = n /\ WorksOn(r.op, r.data[k].tmps, b)
  <2>1. <<n, b>> \in M <=> b = <<>> /\ \E k \in DOMAIN runs : runs[k].nodo = n
    BY <1>6 DEF UpTo
  <2>2. (\E k \in DOMAIN r.data : r.data[k].nodo = n /\ WorksOn(r.op, r.data[k].tmps, b))
          <=> b = <<>> /\ \E k \in DOMAIN planed : planed[k].nodo = n
    BY <1>3, <1>4 DEF WorksOn
  <2> HIDE DEF M
  <2> QED
    BY <1>2, <2>1, <2>2
<1>8. Tells(r, M)
  BY <1>5, <1>7, Zenon DEF Tells
<1>9. Different(runs)
  BY <1>2 DEF Different
<1> QED
  BY <1>2, <1>8, <1>9, Zenon DEF r, M, data, runs

LEMMA PlannedByNode ==
    ASSUME Tables, EntriesInOrder, NEW id, NEW fd
    PROVE  ByNode(PlannedFor(tabla_T_planificados, id, fd))
<1> DEFINE s == tabla_T_planificados
           S == {i \in DOMAIN s : s[i].job = id /\ s[i].master = fd}
           v == PlannedFor(s, id, fd)
<1>1. s \in Seq(PlannedOn(KnownNodes))
  BY DEF Tables
<1>2. v = Keep(s, S)
  BY Zenon DEF PlannedFor
<1>3. Ordered(Keep(s, S), s, S)
  <2> HIDE DEF S
  <2> QED
    BY <1>1, KeepOrder
<1>4. \A i, j \in DOMAIN v : i < j =>
         \E p, q \in DOMAIN s \cap S : p < q /\ v[i] = s[p] /\ v[j] = s[q]
  <2> HIDE DEF S, v
  <2> QED
    BY <1>2, <1>3 DEF Ordered
<1> HIDE DEF v
<1>5. ByNode(v)
  BY <1>4 DEF ByNode, EntriesInOrder
<1> QED
  BY <1>5 DEF v

(* No task is in process of the job of a master that has none.             *)
LEMMA NoneOfJob ==
    ASSUME Tables, IdsApart, AllBacked, NEW fd, NoneOpen(tabla_estados, fd), NEW e, HasJob(fd, e)
    PROVE  NoneReducing(JobOf(fd, e).id)
<1>1. tabla_jobs \in Seq(Job)
  BY DEF Tables
<1> DEFINE k == GetJobIndex(fd, e)
<1>2. k \in DOMAIN tabla_jobs /\ JobOf(fd, e) = tabla_jobs[k] /\ JobOf(fd, e).master = fd
  BY <1>1, JobOfIs
<1> HIDE DEF k
<1> SUFFICES ASSUME NEW i \in DOMAIN tabla_estados, tabla_estados[i].job = JobOf(fd, e).id,
                    tabla_estados[i].status = "P"
             PROVE  FALSE
  BY DEF NoneReducing
<1>3. PICK j \in DOMAIN tabla_jobs : Backs(tabla_jobs[j], tabla_estados[i])
  BY Zenon DEF AllBacked, Backed
<1>4. j = k
  BY <1>2, <1>3 DEF IdsApart, Backs
<1> QED
  BY <1>2, <1>3, <1>4 DEF Backs, NoneOpen

LEMMA LocalReductionWorks ==
    ASSUME TypeInv, JobsInv, Working, NEW fd \in FDs, Finds(fd, "L"), ProcessLocalReduction(fd)
    PROVE  Working'
<1> DEFINE job == JobOf(fd, "T")
           planed == PlannedFor(tabla_T_planificados, job.id, fd)
           arch == planed[1].file
           runs == Runs(planed)
           p == PlanLocalReductions(Runs(planed), job.id, fd, arch)
           data == [k \in DOMAIN planed |-> [nodo |-> planed[k].nodo, tmps |-> planed[k].tmps]]
           r == [op |-> "L", data |-> data]
           M == UpTo(runs, Len(runs))
           id == job.id
<1>1. /\ HasJob(fd, "T")
      /\ tabla_T_planificados' = DeletePlaned(tabla_T_planificados, fd, Len(planed))
      /\ tabla_nodos' = p.nodos /\ tabla_estados' = p.estados
      /\ SetJob(fd, "T", [job EXCEPT !.etapa = "L"]) /\ Respond(fd, "L", data)
  BY Zenon DEF ProcessLocalReduction
<1>2. /\ Tables /\ tabla_jobs \in Seq(Job) /\ Table_OK(tabla_nodos)
      /\ tabla_T_planificados \in Seq(PlannedOn(KnownNodes))
  BY DEF TypeInv, Tables
<1>3. id \in Nat
  BY <1>1, <1>2, JobOfIs
<1>4. KnownNodes \in SUBSET Nat
  <2>1. KnownNodes \in SUBSET Node
    BY <1>2, NodesAreNodes DEF KnownNodes
  <2> QED
    BY <2>1, LayoutAssumption
<1>5. MovesJob(fd, "T", "L")
  BY <1>1, Zenon DEF MovesJob
<1>6. /\ OthersJobs(fd, tabla_jobs, tabla_jobs') /\ IdsStay
      /\ Serves(tabla_jobs', id, fd, "L")
  BY <1>2, <1>5, MovedOthers DEF Stage
<1>7. More(tabla_estados, tabla_estados', id, fd, "L")
  BY ProcessLocalReductionTables
<1>8. NoneReducing(id)
  BY <1>1, <1>2, NoneOfJob DEF JobsInv, Working, Finds
<1> HIDE DEF id
<1>9. planed \in Seq(PlannedOn(KnownNodes)) /\ ByNode(planed)
  BY <1>2, PlannedForIs, PlannedByNode DEF Working
<1>10. planed # <<>> => arch \in Files
  <2>1. planed # <<>> => 1 \in DOMAIN planed
    BY <1>9
  <2> QED
    BY <1>9, <2>1, EntryFields
<1>11. tabla_T_planificados' = DeletePlaned(tabla_T_planificados, fd, Len(planed))
  BY <1>1
<1>12. EntriesKnown' /\ EntriesInOrder'
  <2>1. \E S : tabla_T_planificados' = Keep(tabla_T_planificados, S)
    BY <1>11, Zenon DEF DeletePlaned
  <2> QED
    BY <1>2, <1>6, <2>1, EntriesStay DEF Working
<1>13. salida'[fd] = <<r>>
  <2>1. Respond(fd, "L", data) /\ fd \in abiertos /\ salida[fd] = <<>>
    BY <1>1 DEF Finds, Stage
  <2> HIDE DEF data
  <2> QED
    BY <2>1, RepliedIs
<1> HIDE DEF planed
<1>14. /\ runs \in Seq(TasksOf(KnownNodes)) /\ Different(runs) /\ Tells(r, M)
  BY <1>4, <1>9, LocalsTell
<1>15. runs # <<>> => arch \in Files
  BY <1>9, <1>10, RunsAre
<1>16. r.op = "L"
  OBVIOUS
<1> HIDE DEF runs, arch, r, data
<1>17. /\ Balanced(tabla_nodos', tabla_estados')
       /\ Tasked(tabla_estados, tabla_estados', M)
  <2> DEFINE q == PlanLocalReductions(runs, id, fd, arch)
  <2>1. tabla_nodos' = q.nodos /\ tabla_estados' = q.estados
    BY <1>1, Zenon DEF runs, id
  <2>2. Balanced(q.nodos, q.estados) /\ Tasked(tabla_estados, q.estados, UpTo(runs, Len(runs)))
    BY <1>2, <1>3, <1>8, <1>14, <1>15, LocalRowsAdded DEF Working, KnownNodes
  <2> HIDE DEF q
  <2> QED
    BY <2>1, <2>2
<1> HIDE DEF M
<1>18. Alone(fd) /\ NoneOpen(tabla_estados, fd) /\ pedidos'[fd] = <<>> /\ hilos'[fd] = {}
  BY DEF Finds
<1> QED
  BY <1>6, <1>7, <1>12, <1>13, <1>14, <1>16, <1>17, <1>18, RequestWorks

(* The last stages: one task on one node.                                  *)
LEMMA OneTell ==
    ASSUME NEW op \in {"G", "S"}, NEW n, NEW all
    PROVE  Tells([op |-> op, data |-> <<[nodo |-> n, tmps |-> all]>>], {<<n, <<>>>>})
<1> DEFINE d == <<[nodo |-> n, tmps |-> all]>>
           r == [op |-> op, data |-> d]
<1>1. DOMAIN d = {1} /\ Len(d) = 1 /\ d[1].nodo = n
  OBVIOUS
<1> HIDE DEF d
<1>2. r.op = op /\ r.data = d
  OBVIOUS
<1> HIDE DEF r
<1>3. Tidy(r)
  <2>1. ByNode(d)
    BY <1>1 DEF ByNode
  <2> QED
    BY <1>1, <1>2, <2>1 DEF Tidy
<1>4. ASSUME NEW x, NEW b
      PROVE  <<x, b>> \in {<<n, <<>>>>}
               <=> \E k \in DOMAIN r.data : r.data[k].nodo = x /\ WorksOn(r.op, r.data[k].tmps, b)
  BY <1>1, <1>2 DEF WorksOn
<1>5. Tells(r, {<<n, <<>>>>})
  BY <1>3, <1>4, Zenon DEF Tells
<1> QED
  BY <1>5, Zenon DEF r, d

LEMMA LastStageWorks ==
    ASSUME TypeInv, Working, NEW fd \in FDs, NEW from, NEW op \in {"G", "S"}, Finds(fd, op),
           MovesJob(fd, from, op), NEW n \in Node, NEW all, NEW arch \in Files,
           tabla_nodos' = IncreaseNodeCharge(tabla_nodos, n),
           tabla_estados' = Append(tabla_estados,
                                   NewRow(JobOf(fd, from).id, fd, n, <<>>, op, arch)),
           More(tabla_estados, tabla_estados', JobOf(fd, from).id, fd, op),
           tabla_T_planificados' = tabla_T_planificados,
           Respond(fd, op, <<[nodo |-> n, tmps |-> all]>>)
    PROVE  Working'
<1> DEFINE id == JobOf(fd, from).id
           d == <<[nodo |-> n, tmps |-> all]>>
           r == [op |-> op, data |-> d]
           M == {<<n, <<>>>>}
<1>1. Tables /\ tabla_jobs \in Seq(Job) /\ Table_OK(tabla_nodos) /\ op \in Stage
  BY DEF TypeInv, Tables, Stage
<1>2. id \in Nat
  BY <1>1, JobOfIs DEF MovesJob
<1>3. /\ OthersJobs(fd, tabla_jobs, tabla_jobs') /\ IdsStay
      /\ Serves(tabla_jobs', id, fd, op)
  BY <1>1, MovedOthers
<1> HIDE DEF id
<1>4. tabla_estados' = Append(tabla_estados, NewRow(id, fd, n, <<>>, op, arch))
  BY DEF id
<1>5. tabla_estados \in Seq(Row)
  BY TypeInvIsType DEF TypeOK, YamaOK
<1>6. Balanced(tabla_nodos, tabla_estados) /\ EntriesKnown /\ EntriesInOrder
  BY DEF Working
<1>7. Balanced(tabla_nodos', tabla_estados') /\ Tasked(tabla_estados, tabla_estados', M)
  <2>1. Tasked(tabla_estados, tabla_estados, {}) /\ <<n, <<>>>> \notin {}
    BY NothingTasked
  <2>2. /\ Balanced(IncreaseNodeCharge(tabla_nodos, n),
                    Append(tabla_estados, NewRow(id, fd, n, <<>>, op, arch)))
        /\ Tasked(tabla_estados, Append(tabla_estados, NewRow(id, fd, n, <<>>, op, arch)),
                  {} \cup {<<n, <<>>>>})
    BY <1>1, <1>2, <1>5, <1>6, <2>1, RowCharged
  <2>3. {} \cup {<<n, <<>>>>} = M
    OBVIOUS
  <2> HIDE DEF M
  <2> QED
    BY <1>4, <2>2, <2>3
<1>8. EntriesKnown' /\ EntriesInOrder'
  BY <1>1, <1>3, <1>6, EntriesStay
<1>9. Tells(r, M)
  BY OneTell
<1>10. salida'[fd] = <<r>>
  <2>1. Respond(fd, op, d) /\ fd \in abiertos /\ salida[fd] = <<>>
    BY <1>1 DEF Finds
  <2> HIDE DEF d
  <2> QED
    BY <2>1, RepliedIs
<1>11. r.op = op
  OBVIOUS
<1> HIDE DEF M, r
<1>12. Alone(fd) /\ NoneOpen(tabla_estados, fd) /\ pedidos'[fd] = <<>> /\ hilos'[fd] = {}
  BY DEF Finds
<1>13. More(tabla_estados, tabla_estados', id, fd, op)
  BY DEF id
<1> QED
  BY <1>3, <1>7, <1>8, <1>9, <1>10, <1>11, <1>12, <1>13, RequestWorks

LEMMA GlobalReductionWorks ==
    ASSUME TypeInv, Working, NEW fd \in FDs, Finds(fd, "G"), ProcessGlobalReduction(fd)
    PROVE  Working'
<1> DEFINE job == JobOf(fd, "L")
           planed == PlannedFor(tabla_LR_planificados, job.id, fd)
           n == GetLastChargedNode(planed)
           all == AllTmps(planed)
           arch == planed[1].file
<1>1. /\ HasJob(fd, "L") /\ planed # <<>>
      /\ tabla_nodos' = IncreaseNodeCharge(tabla_nodos, n)
      /\ tabla_estados' = Append(tabla_estados, NewRow(job.id, fd, n, <<>>, "G", arch))
      /\ SetJob(fd, "L", [job EXCEPT !.etapa = "G"])
      /\ Respond(fd, "G", <<[nodo |-> n, tmps |-> all]>>)
      /\ tabla_T_planificados' = tabla_T_planificados
  BY Zenon DEF ProcessGlobalReduction
<1>2. /\ Tables /\ Table_OK(tabla_nodos)
      /\ tabla_LR_planificados \in Seq(PlannedOn(KnownNodes))
  BY DEF TypeInv, Tables
<1>3. KnownNodes \in SUBSET Node
  BY <1>2, NodesAreNodes DEF KnownNodes
<1>4. planed \in Seq(PlannedOn(KnownNodes))
  BY <1>2, PlannedForIs
<1>5. n \in Node /\ arch \in Files
  <2> HIDE DEF planed
  <2>1. n \in KnownNodes
    BY <1>1, <1>2, <1>4, LastChargedIs DEF KnownNodes
  <2>2. 1 \in DOMAIN planed
    BY <1>1, <1>4
  <2>3. arch \in Files
    BY <1>4, <2>2, EntryFields
  <2> QED
    BY <1>3, <2>1, <2>3
<1>6. MovesJob(fd, "L", "G")
  BY <1>1, Zenon DEF MovesJob
<1>7. More(tabla_estados, tabla_estados', job.id, fd, "G")
  BY ProcessGlobalReductionTables
<1> HIDE DEF n, all, arch
<1> QED
  BY <1>1, <1>5, <1>6, <1>7, LastStageWorks

LEMMA FinalStoreWorks ==
    ASSUME TypeInv, Working, NEW fd \in FDs, Finds(fd, "S"), ProcessFinalStore(fd)
    PROVE  Working'
<1> DEFINE job == JobOf(fd, "G")
           planed == GRPlannedOf(fd)
           n == planed[1].nodo
           all == planed[1].tmps
           arch == planed[1].file
<1>1. /\ HasJob(fd, "G") /\ planed # <<>>
      /\ tabla_nodos' = IncreaseNodeCharge(tabla_nodos, n)
      /\ tabla_estados' = Append(tabla_estados, NewRow(job.id, fd, n, <<>>, "S", arch))
      /\ SetJob(fd, "G", [job EXCEPT !.etapa = "S"])
      /\ Respond(fd, "S", <<[nodo |-> n, tmps |-> all]>>)
      /\ tabla_T_planificados' = tabla_T_planificados
  BY Zenon DEF ProcessFinalStore
<1>2. /\ Tables /\ Table_OK(tabla_nodos)
      /\ tabla_GR_planificados \in Seq(PlannedOn(KnownNodes))
  BY DEF TypeInv, Tables
<1>3. KnownNodes \in SUBSET Node
  BY <1>2, NodesAreNodes DEF KnownNodes
<1>4. planed \in Seq(PlannedOn(KnownNodes))
  BY <1>2, KeepIs, Zenon DEF GRPlannedOf
<1>5. n \in Node /\ arch \in Files
  <2> HIDE DEF planed
  <2>1. 1 \in DOMAIN planed
    BY <1>1, <1>4
  <2>2. n \in KnownNodes /\ arch \in Files
    BY <1>4, <2>1, EntryFields
  <2> QED
    BY <1>3, <2>2
<1>6. MovesJob(fd, "G", "S")
  BY <1>1, Zenon DEF MovesJob
<1>7. More(tabla_estados, tabla_estados', job.id, fd, "S")
  BY ProcessFinalStoreTables
<1> HIDE DEF n, all, arch
<1> QED
  BY <1>1, <1>5, <1>6, <1>7, LastStageWorks

(* A refusal, and a master that is gone.                                   *)
LEMMA RefusalWorks ==
    ASSUME TypeInv, Working, NEW fd \in FDs, Finds(fd, "G"), GlobalReductionRefused(fd)
    PROVE  Working'
<1>1. /\ MovesJob(fd, "L", "G") /\ tabla_estados' = tabla_estados
      /\ tabla_nodos' = tabla_nodos /\ tabla_T_planificados' = tabla_T_planificados
      /\ salida' = salida
  BY Zenon DEF GlobalReductionRefused, MovesJob, planificados
<1>2. Tables /\ "G" \in Stage
  BY DEF TypeInv, Stage
<1>3. OthersJobs(fd, tabla_jobs, tabla_jobs') /\ IdsStay
  BY <1>1, <1>2, MovedOthers
<1>4. SameLoads(tabla_nodos, tabla_nodos')
  BY <1>1 DEF SameLoads
<1>5. /\ Alone(fd) /\ NoneOpen(tabla_estados, fd) /\ pedidos'[fd] = <<>> /\ hilos'[fd] = {}
      /\ salida'[fd] = <<>>
  BY <1>1 DEF Finds
<1> QED
  BY <1>1, <1>2, <1>3, <1>4, <1>5, QuietWorks

LEMMA DisconnectedWorks ==
    ASSUME TypeInv, Working, NEW fd \in FDs, Finds(fd, "FIN"), MasterDisconnected(fd)
    PROVE  Working'
<1> DEFINE mine == {i \in DOMAIN tabla_jobs : /\ tabla_jobs[i].master = fd
                                              /\ tabla_jobs[i].estado = "P"}
           rows == {i \in DOMAIN tabla_estados : tabla_estados[i].master = fd}
<1>1. /\ tabla_jobs' = [i \in DOMAIN tabla_jobs |->
                          IF i \in mine THEN [tabla_jobs[i] EXCEPT !.estado = "E"]
                                        ELSE tabla_jobs[i]]
      /\ tabla_estados' = IF mine = {} THEN tabla_estados ELSE Marked(InProcess(rows), "E")
      /\ tabla_nodos' = DeleteNodeErrors(tabla_nodos)
      /\ tabla_T_planificados' = tabla_T_planificados /\ salida' = salida
  BY Zenon DEF MasterDisconnected, planificados
<1>2. /\ Tables /\ Table_OK(tabla_nodos) /\ tabla_jobs \in Seq(Job)
      /\ tabla_estados \in Seq(RowsOver(KnownNodes, KnownBlocks))
  BY DEF TypeInv, Tables
<1>3. InProcess(rows) = {}
  BY DEF InProcess, Finds, NoneOpen
<1>4. tabla_estados' = tabla_estados
  <2>1. Marked({}, "E") = [i \in DOMAIN tabla_estados |-> tabla_estados[i]]
    BY DEF Marked
  <2>2. Marked({}, "E") = tabla_estados
    BY <1>2, <2>1
  <2> HIDE DEF mine, rows
  <2> QED
    BY <1>1, <1>3, <2>2
<1>5. OthersJobs(fd, tabla_jobs, tabla_jobs') /\ IdsStay
  <2>1. \A i \in DOMAIN tabla_jobs : tabla_jobs[i] \in Job
    BY <1>2
  <2>2. DOMAIN tabla_jobs' = DOMAIN tabla_jobs
    BY <1>1
  <2>3. \A i \in DOMAIN tabla_jobs :
           tabla_jobs'[i] = IF i \in mine THEN [tabla_jobs[i] EXCEPT !.estado = "E"]
                                          ELSE tabla_jobs[i]
    BY <1>1
  <2>4. \A i \in DOMAIN tabla_jobs : tabla_jobs[i].master # fd => tabla_jobs'[i] = tabla_jobs[i]
    BY <2>3
  <2>5. \A i \in DOMAIN tabla_jobs : tabla_jobs'[i].id = tabla_jobs[i].id
    BY <2>1, <2>3 DEF Job
  <2> QED
    BY <2>2, <2>4, <2>5 DEF OthersJobs, IdsStay
<1>6. SameLoads(tabla_nodos, tabla_nodos')
  BY <1>1, <1>2, ErrorsLoads
<1>7. /\ Alone(fd) /\ NoneOpen(tabla_estados, fd) /\ pedidos'[fd] = <<>> /\ hilos'[fd] = {}
      /\ salida'[fd] = <<>>
  BY <1>1 DEF Finds
<1> QED
  BY <1>1, <1>2, <1>4, <1>5, <1>6, <1>7, QuietWorks

(* A result.  The task it is of is the one in process at the stage of the  *)
(* job of its master.                                                      *)
OkRow(i, fd, e, n, b) ==
    /\ i \in DOMAIN tabla_estados /\ IsOpen(tabla_estados[i], fd, e, n, b)
    /\ HasJob(fd, e) /\ tabla_estados[i].job = JobOf(fd, e).id
    /\ FindInProcessTasks(JobOf(fd, e).id, fd, e, n, b) = {i}
LEMMA OkRowIs ==
    ASSUME Tables, JobsInv, Working, NEW fd \in FDs, NEW e, NEW n, NEW b,
           Open(tabla_estados, fd, e, n, b)
    PROVE  \E i : OkRow(i, fd, e, n, b)
<1>1. PICK i \in DOMAIN tabla_estados : IsOpen(tabla_estados[i], fd, e, n, b)
  BY Zenon DEF Open
<1> DEFINE r == tabla_estados[i]
<1>2. r.master = fd /\ r.status = "P" /\ r.op = e /\ r.node = n /\ r.block = b
  BY <1>1 DEF IsOpen
<1>3. PICK j \in DOMAIN tabla_jobs : Backs(tabla_jobs[j], r)
  BY <1>2, Zenon DEF Working, AllBacked, Backed
<1>4. /\ tabla_jobs[j].estado = "P" /\ tabla_jobs[j].id = r.job
      /\ tabla_jobs[j].master = fd /\ tabla_jobs[j].etapa = e
  BY <1>2, <1>3 DEF Backs
<1>5. HasJob(fd, e)
  BY <1>4 DEF HasJob, JobIndexes
<1> DEFINE k == GetJobIndex(fd, e)
<1>6. k \in DOMAIN tabla_jobs /\ tabla_jobs[k].estado = "P" /\ tabla_jobs[k].master = fd
  BY <1>5, JobOfIs DEF Tables
<1>7. JobOf(fd, e) = tabla_jobs[k]
  BY <1>5, JobOfIs DEF Tables
<1> HIDE DEF k
<1>8. k = j
  BY <1>4, <1>6 DEF JobsInv, OneActive, ActiveJobs
<1>9. r.job = JobOf(fd, e).id
  BY <1>4, <1>7, <1>8
<1> DEFINE id == JobOf(fd, e).id
<1>10. ASSUME NEW x
       PROVE  x \in FindInProcessTasks(id, fd, e, n, b) <=> x = i
  <2> HIDE DEF id
  <2>1. id = r.job
    BY <1>9 DEF id
  <2>2. x = i => x \in FindInProcessTasks(id, fd, e, n, b)
    BY <1>2, <2>1 DEF FindInProcessTasks, InProcess, RowsOn, RowsOf
  <2>3. ASSUME x \in FindInProcessTasks(id, fd, e, n, b) PROVE x = i
    <3>1. /\ x \in DOMAIN tabla_estados /\ tabla_estados[x].master = fd
          /\ tabla_estados[x].op = e /\ tabla_estados[x].node = n
          /\ tabla_estados[x].status = "P" /\ (e = "T" => tabla_estados[x].block = b)
      BY <2>3 DEF FindInProcessTasks, InProcess, RowsOn, RowsOf
    <3>2. tabla_estados[x].block = b
      BY <1>2, <3>1 DEF Working, RowsPlain
    <3>3. OpenOnce(tabla_estados, fd)
      BY DEF Working, Account
    <3> QED
      BY <1>2, <3>1, <3>2, <3>3 DEF OpenOnce
  <2> QED
    BY <2>2, <2>3
<1> HIDE DEF id
<1>11. FindInProcessTasks(id, fd, e, n, b) = {i}
  BY <1>10
<1> QED
  BY <1>1, <1>5, <1>9, <1>11, Zenon DEF OkRow, id

(* One task closed: of the rows s, row i.                                  *)
Closed(s, w, i) ==
    /\ DOMAIN w = DOMAIN s /\ w[i].status = "F"
    /\ \A j \in DOMAIN s : /\ j # i => w[j] = s[j]
                           /\ w[j].master = s[j].master /\ w[j].node = s[j].node
                           /\ w[j].op = s[j].op /\ w[j].block = s[j].block /\ w[j].job = s[j].job
LEMMA ClosedOpen ==
    ASSUME NEW s, NEW w, NEW i \in DOMAIN s, Closed(s, w, i), NEW fd, OpenOnce(s, fd),
           NEW e, NEW n, NEW b, IsOpen(s[i], fd, e, n, b)
    PROVE  /\ OpenOnce(w, fd) /\ OthersRows(fd, s, w)
           /\ \A x, y, z : Open(w, fd, x, y, z)
                             <=> Open(s, fd, x, y, z) /\ ~(x = e /\ y = n /\ z = b)
<1>1. \A j \in DOMAIN w : w[j].status = "P" => j \in DOMAIN s /\ w[j] = s[j] /\ j # i
  BY DEF Closed
<1>2. OpenOnce(w, fd)
  BY <1>1 DEF OpenOnce
<1>3. OthersRows(fd, s, w)
  BY DEF OthersRows, Closed, IsOpen
<1>4. ASSUME NEW x, NEW y, NEW z
      PROVE  Open(w, fd, x, y, z) <=> Open(s, fd, x, y, z) /\ ~(x = e /\ y = n /\ z = b)
  <2>1. ASSUME Open(w, fd, x, y, z) PROVE Open(s, fd, x, y, z) /\ ~(x = e /\ y = n /\ z = b)
    <3>1. PICK j \in DOMAIN w : IsOpen(w[j], fd, x, y, z)
      BY <2>1, Zenon DEF Open
    <3>2. j \in DOMAIN s /\ w[j] = s[j] /\ j # i
      BY <1>1, <3>1 DEF IsOpen
    <3>3. ~(x = e /\ y = n /\ z = b)
      BY <3>1, <3>2 DEF OpenOnce, IsOpen
    <3> QED
      BY <3>1, <3>2, <3>3 DEF Open
  <2>2. ASSUME Open(s, fd, x, y, z), ~(x = e /\ y = n /\ z = b) PROVE Open(w, fd, x, y, z)
    <3>1. PICK j \in DOMAIN s : IsOpen(s[j], fd, x, y, z)
      BY <2>2, Zenon DEF Open
    <3>2. j # i
      BY <2>2, <3>1 DEF IsOpen
    <3>3. j \in DOMAIN w /\ w[j] = s[j]
      BY <3>2 DEF Closed
    <3> QED
      BY <3>1, <3>3 DEF Open
  <2> QED
    BY <2>1, <2>2
<1> QED
  BY <1>2, <1>3, <1>4

LEMMA ResultAccount ==
    ASSUME NEW fd \in FDs, Account(fd), NEW ms \in Seq(Message), ms = pedidos[fd], ms # <<>>,
           Head(ms).op = "O", salida[fd] = <<>>,
           NEW i \in DOMAIN tabla_estados, Closed(tabla_estados, tabla_estados', i),
           IsOpen(tabla_estados[i], fd, Head(ms).etapa, Head(ms).node, Head(ms).block),
           pedidos'[fd] = Tail(ms), salida'[fd] = <<>>, pc'[fd] = pc[fd], hilos'[fd] = hilos[fd]
    PROVE  Account(fd)' /\ OthersRows(fd, tabla_estados, tabla_estados')
<1> DEFINE m == Head(ms)
           e == m.etapa
           n == m.node
           b == m.block
           p == pc[fd]
           H == hilos[fd]
           rest == Tail(ms)
<1>1. /\ Sound(ms, p, H, <<>>) /\ OpenOnce(tabla_estados, fd)
      /\ \A x, y, z : Owed(ms, p, H, <<>>, x, y, z) <=> Open(tabla_estados, fd, x, y, z)
  BY Zenon DEF Account
<1>2. /\ \A x, y, z : Says(ms, x, y, z) <=> Says(rest, x, y, z) \/ IsResult(m, x, y, z)
      /\ Once(ms) => Once(rest) /\ ~Says(rest, e, n, b)
  BY SaysLess
<1>3. \A x, y, z : IsResult(m, x, y, z) <=> x = e /\ y = n /\ z = b
  BY DEF IsResult
<1>4. IsOpen(tabla_estados[i], fd, e, n, b)
  OBVIOUS
<1> HIDE DEF m, e, n, b, p, H, rest
<1>5. /\ OpenOnce(tabla_estados', fd) /\ OthersRows(fd, tabla_estados, tabla_estados')
      /\ \A x, y, z : Open(tabla_estados', fd, x, y, z)
                        <=> Open(tabla_estados, fd, x, y, z) /\ ~(x = e /\ y = n /\ z = b)
  BY <1>1, <1>4, ClosedOpen
<1>6. Once(rest) /\ ~Says(rest, e, n, b) /\ Separate(p, H)
  BY <1>1, <1>2 DEF Sound
<1>7. ~Doing(p, H, e, n, b) /\ \A x, y, z : ~(Says(rest, x, y, z) /\ Doing(p, H, x, y, z))
  <2>1. Says(ms, e, n, b)
    BY <1>2, <1>3
  <2> QED
    BY <1>1, <1>2, <2>1 DEF Sound
<1>8. Sound(rest, p, H, <<>>)
  BY <1>6, <1>7 DEF Sound
<1>9. ASSUME NEW x, NEW y, NEW z
      PROVE  Owed(rest, p, H, <<>>, x, y, z) <=> Open(tabla_estados', fd, x, y, z)
  <2>1. ~Told(<<>>, x, y, z)
    BY DEF Told
  <2>2. Owed(ms, p, H, <<>>, x, y, z) <=> Open(tabla_estados, fd, x, y, z)
    BY <1>1
  <2>3. Owed(rest, p, H, <<>>, x, y, z)
          <=> Owed(ms, p, H, <<>>, x, y, z) /\ ~(x = e /\ y = n /\ z = b)
    BY <1>2, <1>3, <1>6, <1>7, <2>1 DEF Owed
  <2> QED
    BY <1>5, <2>2, <2>3
<1>10. pedidos'[fd] = rest /\ pc'[fd] = p /\ hilos'[fd] = H
  BY DEF rest, p, H
<1> QED
  BY <1>5, <1>8, <1>9, <1>10, Zenon DEF Account

OkDoes(fd, i, e, n) ==
    LET t == DecreaseNodeCharge(tabla_nodos, n)
    IN  /\ Closed(tabla_estados, tabla_estados', i)
        /\ tabla_nodos' = IF e = "S" THEN DeleteNodeErrors(t) ELSE t
        /\ \/ e = "S" /\ SetJob(fd, "S", [JobOf(fd, e) EXCEPT !.estado = "F"])
           \/ e # "S" /\ tabla_jobs' = tabla_jobs
        /\ tabla_T_planificados' = tabla_T_planificados /\ salida' = salida
LEMMA OkCloses ==
    ASSUME Tables, NEW fd \in FDs, ProcessOk(fd), NEW e, NEW n, NEW b,
           e = Head(pedidos[fd]).etapa, n = Head(pedidos[fd]).node,
           b = Head(pedidos[fd]).block, NEW i, OkRow(i, fd, e, n, b)
    PROVE  OkDoes(fd, i, e, n)
<1> DEFINE m == Head(pedidos[fd])
           job == JobOf(fd, m.etapa)
           done == FindInProcessTasks(job.id, fd, m.etapa, m.node, m.block)
           t == DecreaseNodeCharge(tabla_nodos, m.node)
           j == [job EXCEPT !.estado = "F"]
<1>1. /\ IF ~HasJob(fd, m.etapa)
         THEN UNCHANGED <<tabla_estados, tabla_nodos, tabla_jobs>>
         ELSE /\ tabla_estados' =
                      IF done = {} THEN tabla_estados ELSE Marked({First(done)}, "F")
              /\ tabla_nodos' = IF m.etapa = "S" THEN DeleteNodeErrors(t) ELSE t
              /\ IF m.etapa = "S" THEN SetJob(fd, "S", j) ELSE UNCHANGED tabla_jobs
      /\ UNCHANGED <<planificados, salida>>
  BY Zenon DEF ProcessOk
<1>2. HasJob(fd, e) /\ i \in DOMAIN tabla_estados
  BY DEF OkRow
<1>3. done = {i}
  BY Zenon DEF OkRow
<1>4. First({i}) = i
  <2>1. i \in Nat /\ {i} \in SUBSET Nat
    BY <1>2 DEF Tables
  <2> QED
    BY <2>1, FirstIs
<1>5. m.etapa = e /\ m.node = n
  OBVIOUS
<1> DEFINE u == DecreaseNodeCharge(tabla_nodos, n)
           q == [JobOf(fd, e) EXCEPT !.estado = "F"]
<1>6. t = u /\ j = q
  BY <1>5
<1> HIDE DEF m, done, t, j, u, q
<1>7. tabla_estados' = Marked({i}, "F")
  BY <1>1, <1>2, <1>3, <1>4, <1>5
<1>8. /\ tabla_nodos' = IF e = "S" THEN DeleteNodeErrors(u) ELSE u
      /\ e = "S" => SetJob(fd, "S", q)
      /\ e # "S" => tabla_jobs' = tabla_jobs
      /\ tabla_T_planificados' = tabla_T_planificados /\ salida' = salida
  BY <1>1, <1>2, <1>5, <1>6 DEF planificados
<1>9. Closed(tabla_estados, tabla_estados', i)
  <2> DEFINE w == Marked({i}, "F")
  <2>1. tabla_estados \in Seq(RowsOver(KnownNodes, KnownBlocks))
    BY DEF Tables
  <2>2. /\ DOMAIN w = DOMAIN tabla_estados
        /\ \A k \in DOMAIN w :
              /\ w[k].job = tabla_estados[k].job /\ w[k].master = tabla_estados[k].master
              /\ w[k].op = tabla_estados[k].op /\ w[k].block = tabla_estados[k].block
              /\ w[k].node = tabla_estados[k].node
              /\ w[k].status = IF k \in {i} THEN "F" ELSE tabla_estados[k].status
    BY <2>1, MarkedIs
  <2>3. \A k \in DOMAIN tabla_estados : k # i => w[k] = tabla_estados[k]
    BY DEF Marked
  <2> HIDE DEF w
  <2>4. Closed(tabla_estados, w, i)
    BY <1>2, <2>2, <2>3 DEF Closed
  <2> QED
    BY <1>7, <2>4 DEF w
<1>10. \/ e = "S" /\ SetJob(fd, "S", q)
       \/ e # "S" /\ tabla_jobs' = tabla_jobs
  BY <1>8
<1> QED
  BY <1>8, <1>9, <1>10, Zenon DEF u, q, OkDoes

(* A final store that is done is the last thing a master has in process.   *)
LEMMA StoreIsLast ==
    ASSUME TypeInv, NEW fd \in FDs, Calm(fd), pedidos[fd] # <<>>,
           Head(pedidos[fd]).op = "O", Head(pedidos[fd]).etapa = "S",
           pedidos'[fd] = Tail(pedidos[fd]), salida'[fd] = <<>>, hilos'[fd] = hilos[fd], Account(fd)'
    PROVE  NoneOpen(tabla_estados', fd)
<1> DEFINE s == pedidos[fd]
           rest == Tail(pedidos[fd])
<1>1. s \in Seq(Message) /\ s # <<>>
  BY DEF TypeInv, SocketsOK
<1>2. /\ Head(s) = s[1] /\ 1 \in DOMAIN s
      /\ rest \in Seq(Message) /\ Len(rest) = Len(s) - 1 /\ Len(s) \in Nat
  BY <1>1, TailIs
<1>3. pc[fd] = "off"
  BY <1>2 DEF Calm
<1>4. hilos[fd] = {} /\ (rest = <<>> \/ ResultsThen(rest, "FIN")) /\ Len(s) <= 2
  <2>1. hilos[fd] = {} /\ ResultsThen(s, "FIN") /\ Len(s) <= 2
    BY <1>1, <1>3, CourseAt
  <2>2. rest = <<>> \/ ResultsThen(rest, "FIN")
    BY <1>1, <2>1, ResultsTail
  <2> QED
    BY <2>1, <2>2
<1>5. rest = <<>> \/ (Head(rest).op # "O" /\ Tail(rest) = <<>>)
  <2>1. CASE rest # <<>>
    <3>1. \/ Len(rest) = 1 /\ Head(rest).op = "FIN" /\ Tail(rest) = <<>>
          \/ Len(rest) > 1
      BY <1>2, <1>4, <2>1, ResultsTail
    <3> QED
      BY <1>2, <1>4, <3>1
  <2> QED
    BY <2>1
<1>6. pedidos'[fd] = rest /\ hilos'[fd] = {} /\ salida'[fd] = <<>>
  BY <1>4
<1> HIDE DEF rest, s
<1>7. ASSUME NEW x, NEW y, NEW z PROVE ~Open(tabla_estados', fd, x, y, z)
  <2>1. ~Owed(rest, pc'[fd], {}, <<>>, x, y, z)
    BY <1>2, <1>5, NothingOwed
  <2>2. Owed(pedidos'[fd], pc'[fd], hilos'[fd], salida'[fd], x, y, z)
          <=> Open(tabla_estados', fd, x, y, z)
    BY Zenon DEF Account
  <2> QED
    BY <1>6, <2>1, <2>2
<1> QED
  BY <1>7 DEF NoneOpen, Open, IsOpen

LEMMA OkBalances ==
    ASSUME Table_OK(tabla_nodos), NEW R, tabla_estados \in Seq(R),
           Balanced(tabla_nodos, tabla_estados), NEW i \in DOMAIN tabla_estados,
           tabla_estados[i].status = "P", NEW n \in Node, tabla_estados[i].node = n,
           Closed(tabla_estados, tabla_estados', i), NEW e,
           LET t == DecreaseNodeCharge(tabla_nodos, n)
           IN  tabla_nodos' = IF e = "S" THEN DeleteNodeErrors(t) ELSE t
    PROVE  Balanced(tabla_nodos', tabla_estados')
<1> DEFINE t == DecreaseNodeCharge(tabla_nodos, n)
           w == tabla_estados'
<1>1. /\ DOMAIN w = DOMAIN tabla_estados /\ w[i].status # "P"
      /\ \A j \in DOMAIN tabla_estados :
            /\ w[j].node = tabla_estados[j].node
            /\ j # i => w[j].status = tabla_estados[j].status
  BY DEF Closed
<1> HIDE DEF w
<1>2. Balanced(DecreaseNodeCharge(tabla_nodos, tabla_estados[i].node), w)
  BY <1>1, DischargeBalances
<1>3. Balanced(t, w)
  BY <1>2
<1>4. Table_OK(t)
  BY HandlersKeepTable
<1> HIDE DEF t
<1>5. Balanced(DeleteNodeErrors(t), w)
  BY <1>3, <1>4, ErrorsLoads, LoadsStay
<1>6. tabla_nodos' = IF e = "S" THEN DeleteNodeErrors(t) ELSE t
  BY Zenon DEF t
<1> QED
  BY <1>3, <1>5, <1>6 DEF w

LEMMA OkWorks ==
    ASSUME ~FSFails, TypeInv, JobsInv, Working, NEW fd \in FDs, Calm(fd),
           GetMasterMessage(fd), UNCHANGED masterVars, ProcessOk(fd)
    PROVE  Working'
<1> DEFINE m == Head(pedidos[fd])
           e == m.etapa
           n == m.node
           b == m.block
<1>1. m.op = "O"
  BY Zenon DEF ProcessOk, Attend, Receive
<1>2. /\ pedidos[fd] # <<>> /\ pedidos[fd] \in Seq(Message)
      /\ Tables /\ SocketsOK /\ Account(fd)
  BY YamaLinkShape DEF TypeInv, SocketsOK, Working
<1>3. salida[fd] = <<>>
  BY <1>2, CalmHead
<1>4. Alone(fd)
  BY ServedCalm
<1>5. n \in Node
  BY <1>1, <1>2, MessageIs
<1>6. Open(tabla_estados, fd, e, n, b)
  <2>1. IsResult(m, e, n, b)
    BY <1>1 DEF IsResult
  <2>2. \A x, y, z : Says(pedidos[fd], x, y, z)
                       <=> Says(Tail(pedidos[fd]), x, y, z) \/ IsResult(m, x, y, z)
    BY <1>2, SaysLess
  <2> HIDE DEF m, e, n, b
  <2>3. Owed(pedidos[fd], pc[fd], hilos[fd], salida[fd], e, n, b)
    BY <2>1, <2>2 DEF Owed
  <2> QED
    BY <1>2, <2>3, Zenon DEF Account
<1>7. e = Head(pedidos[fd]).etapa /\ n = Head(pedidos[fd]).node /\ b = Head(pedidos[fd]).block
  OBVIOUS
<1>8. /\ pedidos'[fd] = Tail(pedidos[fd]) /\ pc'[fd] = pc[fd] /\ hilos'[fd] = hilos[fd]
  <2>1. pedidos' = [pedidos EXCEPT ![fd] = Tail(pedidos[fd])]
    BY YamaLinkShape
  <2>2. DOMAIN pedidos = FDs
    BY DEF TypeInv, SocketsOK
  <2> QED
    BY <2>1, <2>2 DEF masterVars
<1>9. Head(pedidos[fd]).op = "O"
  BY <1>1
<1> HIDE DEF m, e, n, b
<1>10. PICK i : OkRow(i, fd, e, n, b)
  BY <1>2, <1>6, OkRowIs
<1>11. i \in DOMAIN tabla_estados /\ IsOpen(tabla_estados[i], fd, e, n, b) /\ HasJob(fd, e)
  BY <1>10 DEF OkRow
<1>12. tabla_estados[i].status = "P" /\ tabla_estados[i].node = n
  BY <1>11 DEF IsOpen
<1> DEFINE t == DecreaseNodeCharge(tabla_nodos, n)
           j == [JobOf(fd, e) EXCEPT !.estado = "F"]
<1>13. /\ Closed(tabla_estados, tabla_estados', i)
       /\ tabla_nodos' = IF e = "S" THEN DeleteNodeErrors(t) ELSE t
       /\ \/ e = "S" /\ SetJob(fd, "S", j)
          \/ e # "S" /\ tabla_jobs' = tabla_jobs
       /\ tabla_T_planificados' = tabla_T_planificados /\ salida' = salida
  <2>1. OkDoes(fd, i, e, n)
    BY <1>2, <1>7, <1>10, OkCloses
  <2> QED
    BY <2>1, Zenon DEF OkDoes
<1>14. Balanced(tabla_nodos', tabla_estados')
  <2>1. /\ Table_OK(tabla_nodos) /\ tabla_estados \in Seq(RowsOver(KnownNodes, KnownBlocks))
        /\ Balanced(tabla_nodos, tabla_estados)
    BY <1>2 DEF Tables, Working
  <2> QED
    BY <1>5, <1>11, <1>12, <1>13, <2>1, OkBalances, Zenon
<1>15. Account(fd)' /\ OthersRows(fd, tabla_estados, tabla_estados')
  <2>1. IsOpen(tabla_estados[i], fd, Head(pedidos[fd]).etapa, Head(pedidos[fd]).node,
               Head(pedidos[fd]).block)
    BY <1>7, <1>11
  <2>2. salida'[fd] = <<>>
    BY <1>3, <1>13
  <2> QED
    BY <1>2, <1>3, <1>8, <1>9, <1>11, <1>13, <2>1, <2>2, ResultAccount
<1>16. j \in Job /\ j.id = JobOf(fd, e).id
  BY <1>2, <1>11, JobOfIs, JobRewritten DEF Tables
<1> HIDE DEF t, j
<1>17. OthersJobs(fd, tabla_jobs, tabla_jobs') /\ IdsStay
  <2>1. CASE tabla_jobs' = tabla_jobs
    BY <2>1 DEF OthersJobs, IdsStay
  <2>2. CASE e = "S" /\ SetJob(fd, "S", j)
    <3>1. SetJob(fd, e, j)
      BY <2>2
    <3> QED
      BY <1>2, <1>11, <1>16, <3>1, SetOthers
  <2> QED
    BY <1>13, <2>1, <2>2
<1>18. EntriesKnown' /\ EntriesInOrder'
  BY <1>2, <1>13, <1>17, EntriesStay DEF Working
<1>19. RowsPlain'
  BY <1>13 DEF Working, RowsPlain, Closed
<1>20. ASSUME NEW k \in DOMAIN tabla_estados', tabla_estados'[k].master = fd,
              tabla_estados'[k].status = "P"
       PROVE  Backed(k)'
  <2>1. CASE e = "S"
    <3>1. salida'[fd] = <<>> /\ Head(pedidos[fd]).etapa = "S"
      BY <1>3, <1>7, <1>13, <2>1
    <3>2. NoneOpen(tabla_estados', fd)
      BY <1>2, <1>8, <1>9, <1>15, <3>1, StoreIsLast
    <3> QED
      BY <1>20, <3>2 DEF NoneOpen
  <2>2. CASE e # "S"
    <3>1. k # i /\ k \in DOMAIN tabla_estados /\ tabla_estados'[k] = tabla_estados[k]
      BY <1>13, <1>20 DEF Closed
    <3>2. Backed(k)
      BY <1>20, <3>1 DEF Working, AllBacked
    <3>3. tabla_jobs' = tabla_jobs
      BY <1>13, <2>2
    <3> QED
      BY <3>1, <3>2, <3>3 DEF Backed, Backs
  <2> QED
    BY <2>1, <2>2
<1> QED
  BY <1>4, <1>14, <1>15, <1>17, <1>18, <1>19, <1>20, WorkingThen

(* Every step of the system keeps the account, while nothing fails.        *)
LEMMA ServedWorks ==
    ASSUME ~FSFails, TypeInv, LinkInv, JobsInv, Working, NEW fd \in FDs, Calm(fd),
           GetMasterMessage(fd), UNCHANGED masterVars
    PROVE  Working'
<1> DEFINE op == Head(pedidos[fd]).op
<1>1. Handles(fd, op)
  BY ServedJobs
<1>2. op = "T" => Greeting(fd)
  BY YamaGreets
<1>3. Account(fd)
  BY DEF Working
<1>4. CASE op = "O"
  <2>1. ProcessOk(fd)
    BY <1>1, <1>4, Zenon DEF Handles
  <2> QED
    BY <2>1, OkWorks
<1>5. CASE op # "O"
  <2>1. Finds(fd, op)
    BY <1>3, <1>5, FindsIs
  <2> HIDE DEF op
  <2>2. CASE op = "T" /\ ProcessTransformation(fd)
    BY <1>2, <2>1, <2>2, TransformationWorks
  <2>3. CASE op = "L" /\ (ProcessLocalReduction(fd) \/ LocalReductionNotReady(fd))
    <3>1. LocalReductionNotReady(fd) => Crash
      BY Zenon DEF LocalReductionNotReady
    <3> QED
      BY <2>1, <2>3, <3>1, LocalReductionWorks, CrashWorks
  <2>4. CASE op = "G" /\ (ProcessGlobalReduction(fd) \/ GlobalReductionRefused(fd)
                          \/ StageNotReady(fd))
    <3>1. StageNotReady(fd) => Crash
      BY Zenon DEF StageNotReady
    <3> QED
      BY <2>1, <2>4, <3>1, GlobalReductionWorks, RefusalWorks, CrashWorks
  <2>5. CASE op = "S" /\ (ProcessFinalStore(fd) \/ StageNotReady(fd))
    <3>1. StageNotReady(fd) => Crash
      BY Zenon DEF StageNotReady
    <3> QED
      BY <2>1, <2>5, <3>1, FinalStoreWorks, CrashWorks
  <2>6. CASE op = "FIN" /\ MasterDisconnected(fd)
    BY <2>1, <2>6, DisconnectedWorks
  <2> QED
    BY <1>1, <1>5, <2>2, <2>3, <2>4, <2>5, <2>6, Zenon DEF Handles
<1> QED
  BY <1>4, <1>5

(* The tables of tasks, jobs and nodes stay.                               *)
SameTables == UNCHANGED <<tabla_estados, tabla_jobs, tabla_nodos, tabla_T_planificados>>
LEMMA SameWorks ==
    ASSUME Working, SameTables, \A fd \in FDs : Account(fd)'
    PROVE  Working'
<1>1. /\ tabla_estados' = tabla_estados /\ tabla_jobs' = tabla_jobs
      /\ tabla_nodos' = tabla_nodos /\ tabla_T_planificados' = tabla_T_planificados
  BY DEF SameTables
<1>2. EntriesKnown' /\ EntriesInOrder' /\ RowsPlain'
  BY <1>1 DEF Working, EntriesKnown, EntriesInOrder, RowsPlain
<1>3. AllBacked'
  BY <1>1 DEF Working, AllBacked, Backed, Backs
<1>4. Balanced(tabla_nodos', tabla_estados')
  BY <1>1 DEF Working
<1> QED
  BY <1>2, <1>3, <1>4, Zenon DEF Working
LEMMA OneMovesWorks ==
    ASSUME Working, SameTables, NEW fd \in FDs, Alone(fd), Account(fd)'
    PROVE  Working'
<1>1. OthersRows(fd, tabla_estados, tabla_estados')
  BY DEF SameTables, OthersRows
<1>2. ASSUME NEW e \in FDs PROVE Account(e)'
  <2>1. CASE e = fd
    BY <2>1
  <2>2. CASE e # fd
    <3>1. Account(e)
      BY DEF Working
    <3> QED
      BY <1>1, <2>2, <3>1, OthersAccount
  <2> QED
    BY <2>1, <2>2
<1> QED
  BY <1>2, SameWorks

LEMMA MasterWorksOn ==
    ASSUME TypeInv, Working, NEW fd \in FDs, Calm(fd), MasterStep(fd), UNCHANGED yamaVars
    PROVE  Working'
<1>1. Alone(fd)
  BY WorksCalm
<1>2. Account(fd)
  BY DEF Working
<1>3. Account(fd)'
  BY <1>2, WorksAccount
<1>4. SameTables
  BY DEF SameTables, yamaVars, planificados
<1> QED
  BY <1>1, <1>3, <1>4, OneMovesWorks

LEMMA ConnectWorks ==
    ASSUME TypeInv, LinkInv, Working, NEW fd \in FDs, Calm(fd), MasterConnects(fd)
    PROVE  Working'
<1>1. Alone(fd)
  BY ConnectCalm
<1>2. /\ pc' = [pc EXCEPT ![fd] = "conectado"] /\ pedidos' = pedidos /\ salida' = salida
      /\ hilos' = hilos /\ tabla_estados' = tabla_estados /\ tabla_jobs' = tabla_jobs
      /\ tabla_nodos' = tabla_nodos /\ tabla_T_planificados' = tabla_T_planificados
  BY Zenon DEF MasterConnects, AcceptMasterConnection, GoTo, planificados
<1>3. fd \notin conectados
  BY DEF MasterConnects, AcceptMasterConnection
<1>4. Link(fd)
  BY DEF LinkInv
<1>5. pc[fd] = "off" /\ pedidos[fd] = <<>>
  BY <1>3, <1>4, Zenon DEF Link
<1>6. hilos[fd] = {} /\ salida[fd] = <<>>
  BY <1>5, CourseAt
<1>7. /\ OpenOnce(tabla_estados, fd)
      /\ \A x, y, z : Owed(<<>>, pc[fd], {}, <<>>, x, y, z) <=> Open(tabla_estados, fd, x, y, z)
  BY <1>5, <1>6 DEF Working, Account
<1>8. ASSUME NEW x, NEW y, NEW z PROVE ~Open(tabla_estados, fd, x, y, z)
  <2>1. <<>> \in Seq(Message)
    OBVIOUS
  <2>2. ~Owed(<<>>, pc[fd], {}, <<>>, x, y, z)
    BY <2>1, NothingOwed
  <2> QED
    BY <1>7, <2>2
<1>9. NoneOpen(tabla_estados', fd)
  BY <1>2, <1>8 DEF NoneOpen, Open, IsOpen
<1>10. pedidos'[fd] = <<>> /\ hilos'[fd] = {} /\ salida'[fd] = <<>>
  BY <1>2, <1>5, <1>6
<1>11. Account(fd)'
  BY <1>9, <1>10, NothingLeft
<1>12. SameTables
  BY <1>2 DEF SameTables
<1> QED
  BY <1>1, <1>11, <1>12, OneMovesWorks

LEMMA StillWorks ==
    ASSUME Working, SameTables, UNCHANGED <<pedidos, salida, pc, hilos>>
    PROVE  Working'
<1>1. ASSUME NEW fd \in FDs PROVE Account(fd)'
  <2>1. Account(fd)
    BY DEF Working
  <2>2. /\ pedidos' = pedidos /\ salida' = salida /\ pc' = pc /\ hilos' = hilos
        /\ tabla_estados' = tabla_estados
    BY DEF SameTables
  <2> QED
    BY <2>1, <2>2, Zenon DEF Account
<1> QED
  BY <1>1, SameWorks

LEMMA InitWorking == Init => Working
<1> SUFFICES ASSUME Init PROVE Working
  OBVIOUS
<1>1. /\ tabla_estados = <<>> /\ DOMAIN tabla_estados = {} /\ tabla_nodos = <<>>
      /\ DOMAIN tabla_nodos = {} /\ DOMAIN tabla_T_planificados = {}
  BY DEF Init, YamaInit
<1>2. ASSUME NEW fd \in FDs PROVE Account(fd)
  <2>1. pedidos[fd] = <<>> /\ salida[fd] = <<>> /\ hilos[fd] = {}
    BY DEF Init, SocketsInit, MasterInit
  <2>2. ASSUME NEW e, NEW n, NEW b
        PROVE  ~Owed(<<>>, pc[fd], {}, <<>>, e, n, b) /\ ~Open(tabla_estados, fd, e, n, b)
    <3>1. <<>> \in Seq(Message)
      OBVIOUS
    <3>2. ~Owed(<<>>, pc[fd], {}, <<>>, e, n, b)
      BY <3>1, NothingOwed
    <3> QED
      BY <1>1, <3>2 DEF Open
  <2>3. OpenOnce(tabla_estados, fd)
    BY <1>1 DEF OpenOnce
  <2>4. Sound(<<>>, pc[fd], {}, <<>>)
    BY <2>2, NothingSaid DEF Sound, Separate
  <2> QED
    BY <2>1, <2>2, <2>3, <2>4, Zenon DEF Account
<1>3. Balanced(tabla_nodos, tabla_estados)
  BY <1>1 DEF Balanced
<1>4. EntriesKnown /\ EntriesInOrder /\ RowsPlain /\ AllBacked
  BY <1>1 DEF EntriesKnown, EntriesInOrder, RowsPlain, AllBacked
<1> QED
  BY <1>2, <1>3, <1>4 DEF Working

WorkInv == faults = 0 => JobsInv /\ Working
LEMMA NextWorking ==
    ASSUME ~FSFails, ~Overlapping, TypeInv, LinkInv, LifeInv, CalmInv, WorkInv, [Next]_vars
    PROVE  WorkInv'
<1> SUFFICES ASSUME faults' = 0 PROVE JobsInv' /\ Working'
  BY DEF WorkInv
<1>1. CASE \E fd \in FDs : MasterFails(fd)
  <2>1. PICK fd \in FDs : MasterFault(fd)
    BY <1>1 DEF MasterFails
  <2>2. faults' > 0
    BY <2>1, FaultsGrow DEF TypeInv
  <2> QED
    BY <2>2
<1>2. CASE \E fd \in FDs : MasterConnects(fd)
  <2>1. PICK fd \in FDs : MasterConnects(fd)
    BY <1>2
  <2>2. faults' = faults
    BY <2>1 DEF MasterConnects
  <2>3. Calm(fd) /\ JobsInv /\ Working
    BY <2>2 DEF CalmInv, WorkInv
  <2> QED
    BY <2>1, <2>3, ConnectJobs, ConnectWorks
<1>3. CASE \E fd \in FDs : MasterWorks(fd)
  <2>1. PICK fd \in FDs : MasterStep(fd) /\ UNCHANGED yamaVars
    BY <1>3 DEF MasterWorks
  <2>2. faults' = faults
    BY <2>1, FaultsKept
  <2>3. Calm(fd) /\ JobsInv /\ Working
    BY <2>2 DEF CalmInv, WorkInv
  <2> QED
    BY <2>1, <2>3, WorksJobs, MasterWorksOn
<1>4. CASE \E fd \in FDs : YamaStep(fd)
  <2>1. PICK fd \in FDs : GetMasterMessage(fd) /\ UNCHANGED masterVars
    BY <1>4 DEF YamaStep
  <2>2. faults' = faults
    BY <2>1 DEF masterVars
  <2>3. Calm(fd) /\ JobsInv /\ Working
    BY <2>2 DEF CalmInv, WorkInv
  <2> QED
    BY <2>1, <2>3, ServedJobs, ServedWorks
<1>5. CASE (\E c \in Configs : ReloadConfig(c) /\ UNCHANGED masterVars) \/ UNCHANGED vars
  <2>1. /\ UNCHANGED <<tabla_jobs, conectados, jobs, pc, pedidos>> /\ faults' = faults
        /\ UNCHANGED <<pedidos, salida, pc, hilos>>
        /\ UNCHANGED <<tabla_estados, tabla_jobs, tabla_nodos, tabla_T_planificados>>
    BY <1>5, Zenon DEF ReloadConfig, vars, yamaVars, sockets, masterVars, planificados
  <2>2. JobsInv /\ Working
    BY <2>1 DEF WorkInv
  <2>3. SameTables
    BY <2>1 DEF SameTables
  <2> QED
    BY <2>1, <2>2, <2>3, SameJobs, StillWorks
<1> QED
  BY <1>1, <1>2, <1>3, <1>4, <1>5, Zenon DEF Next

(* The counters are the tasks, as long as a counter can hold them.         *)
LEMMA WorkingLoads ==
    ASSUME TypeInv, WorkInv, Cardinality(InProcess(RowIx)) < WordSize
    PROVE  LoadIsPendingTasks
<1> SUFFICES ASSUME faults = 0
             PROVE  LET pending == {i \in RowIx : tabla_estados[i].status = "P"}
                    IN  /\ \A k \in DOMAIN tabla_nodos :
                             tabla_nodos[k].tasks_in_progress =
                               Cardinality({i \in pending :
                                              tabla_estados[i].node = tabla_nodos[k].node_id})
                        /\ \A i \in pending : \E j \in ActiveJobs :
                             /\ tabla_jobs[j].id = tabla_estados[i].job
                             /\ tabla_jobs[j].master = tabla_estados[i].master
                             /\ tabla_jobs[j].etapa = tabla_estados[i].op
  BY Zenon DEF LoadIsPendingTasks
<1> DEFINE pending == {i \in RowIx : tabla_estados[i].status = "P"}
<1>1. Working
  BY DEF WorkInv
<1>2. tabla_estados \in Seq(RowsOver(KnownNodes, KnownBlocks))
  BY DEF TypeInv, Tables
<1>3. pending = InProcess(RowIx)
  BY DEF InProcess
<1>4. IsFiniteSet(pending)
  <2>1. pending \in SUBSET (1 .. Len(tabla_estados)) /\ Len(tabla_estados) \in Nat
    BY <1>2 DEF RowIx
  <2> HIDE DEF pending
  <2>2. IsFiniteSet(1 .. Len(tabla_estados))
    BY <2>1, FS_Interval
  <2> QED
    BY <2>1, <2>2, FS_Subset
<1>5. ASSUME NEW k \in DOMAIN tabla_nodos
      PROVE  tabla_nodos[k].tasks_in_progress =
               Cardinality({i \in pending : tabla_estados[i].node = tabla_nodos[k].node_id})
  <2> DEFINE n == tabla_nodos[k].node_id
             here == {i \in pending : tabla_estados[i].node = n}
             c == Cardinality(here)
  <2>1. here = On(tabla_estados, n)
    BY DEF On, RowIx
  <2>2. tabla_nodos[k].tasks_in_progress = Cardinality(On(tabla_estados, n)) % WordSize
    BY <1>1 DEF Working, Balanced
  <2>3. here \subseteq pending
    OBVIOUS
  <2> HIDE DEF n, here, pending
  <2>4. IsFiniteSet(here) /\ Cardinality(here) <= Cardinality(pending)
    BY <1>4, <2>3, FS_Subset
  <2>5. Cardinality(here) \in Nat /\ Cardinality(pending) \in Nat
    BY <1>4, <2>4, FS_CardinalityType
  <2>6. Cardinality(pending) < WordSize
    BY <1>3
  <2>7. c \in 0 .. WordSize - 1 /\ c = WordSize * 0 + c
    BY <2>4, <2>5, <2>6, WordAssumption
  <2> HIDE DEF c
  <2>8. c % WordSize = c
    BY <2>7, RestIs
  <2>9. tabla_nodos[k].tasks_in_progress = c
    BY <2>1, <2>2, <2>8 DEF c
  <2> QED
    BY <2>9 DEF c, here, n
<1>6. ASSUME NEW i \in pending
      PROVE  \E j \in ActiveJobs : /\ tabla_jobs[j].id = tabla_estados[i].job
                                   /\ tabla_jobs[j].master = tabla_estados[i].master
                                   /\ tabla_jobs[j].etapa = tabla_estados[i].op
  <2>1. Backed(i)
    BY <1>1 DEF Working, AllBacked, RowIx
  <2>2. PICK j \in DOMAIN tabla_jobs : Backs(tabla_jobs[j], tabla_estados[i])
    BY <2>1, Zenon DEF Backed
  <2> QED
    BY <2>2 DEF Backs, ActiveJobs
<1> QED
  BY <1>5, <1>6, Zenon

(* While nothing fails tasks_in_progress of a node is the number of its    *)
(* tasks in process, as long as a counter can hold them, and every task in *)
(* process is of a job in process at the stage of the task: the counters   *)
(* the replies and the results change, over all jobs, never drift.         *)
THEOREM LoadsAreTasks ==
    ASSUME ~FSFails, ~Overlapping
    PROVE  Spec => [](Cardinality(InProcess(RowIx)) < WordSize => LoadIsPendingTasks)
<1> DEFINE All == TypeInv /\ LinkInv /\ LifeInv /\ CalmInv /\ WorkInv
<1>1. Init => All
  BY InitTypes, InitLinks, InitLife, InitCalm, InitJobs, InitWorking DEF WorkInv
<1>2. All /\ [Next]_vars => All'
  BY NextTypes, NextLinks, NextLife, NextCalm, NextWorking
<1>3. All => (Cardinality(InProcess(RowIx)) < WordSize => LoadIsPendingTasks)
  BY WorkingLoads
<1> QED
  BY <1>1, <1>2, <1>3, PTL DEF Spec

-----------------------------------------------------------------------------
(* What a master has asked and has not been told: one request or one reply *)
(* at most, whatever fails.                                                *)

(* What YAMA answers, and what a master has asked and not been told.       *)
IsAsk(m) == m.op \in Stage \/ (m.op = "E" /\ m.etapa = "T")
NoAsk(ms) == \A k \in DOMAIN ms : ~IsAsk(ms[k])
OneAsk(ms) == \A k, l \in DOMAIN ms : IsAsk(ms[k]) /\ IsAsk(ms[l]) => k = l
Quiet(ms, ss) == ss = <<>> /\ NoAsk(ms)
AtMostOne(ms, ss) == (ss = <<>> /\ OneAsk(ms)) \/ (Len(ss) = 1 /\ NoAsk(ms))
OnlyL(ms, ss) ==
    /\ \A k \in DOMAIN ms : IsAsk(ms[k]) => ms[k].op = "L"
    /\ \A k \in DOMAIN ss : ss[k].op = "L"

LEMMA AsksMore ==
    ASSUME NEW s \in Seq(Message), NEW m \in Message
    PROVE  /\ NoAsk(s) => OneAsk(s) /\ OneAsk(s \o <<m>>)
           /\ NoAsk(s) /\ ~IsAsk(m) => NoAsk(s \o <<m>>)
           /\ OneAsk(s) /\ ~IsAsk(m) => OneAsk(s \o <<m>>)
<1> DEFINE t == s \o <<m>>
<1>1. /\ Len(s) \in Nat /\ DOMAIN t = 1 .. Len(s) + 1 /\ t[Len(s) + 1] = m
      /\ DOMAIN s = 1 .. Len(s) /\ \A k \in 1 .. Len(s) : t[k] = s[k]
  OBVIOUS
<1> HIDE DEF t
<1>2. \A k \in DOMAIN t : k = Len(s) + 1 \/ (k \in DOMAIN s /\ t[k] = s[k])
  BY <1>1
<1>3. NoAsk(s) => OneAsk(s)
  BY DEF NoAsk, OneAsk
<1>4. NoAsk(s) => OneAsk(t)
  BY <1>1, <1>2, Zenon DEF NoAsk, OneAsk
<1>5. NoAsk(s) /\ ~IsAsk(m) => NoAsk(t)
  BY <1>1, <1>2, Zenon DEF NoAsk
<1>6. OneAsk(s) /\ ~IsAsk(m) => OneAsk(t)
  BY <1>1, <1>2, Zenon DEF OneAsk
<1> QED
  BY <1>3, <1>4, <1>5, <1>6 DEF t

LEMMA AsksLess ==
    ASSUME NEW s \in Seq(Message), s # <<>>
    PROVE  /\ NoAsk(s) => ~IsAsk(Head(s)) /\ NoAsk(Tail(s))
           /\ OneAsk(s) => OneAsk(Tail(s))
           /\ OneAsk(s) /\ IsAsk(Head(s)) => NoAsk(Tail(s))
<1> DEFINE t == Tail(s)
<1>1. /\ 1 \in DOMAIN s /\ Head(s) = s[1]
      /\ \A k \in DOMAIN t : k \in Nat \ {0} /\ k + 1 \in DOMAIN s /\ t[k] = s[k + 1]
  BY TailIs
<1> HIDE DEF t
<1>2. NoAsk(s) => ~IsAsk(Head(s)) /\ NoAsk(t)
  BY <1>1 DEF NoAsk
<1>3. ASSUME OneAsk(s), NEW k \in DOMAIN t, NEW l \in DOMAIN t, IsAsk(t[k]), IsAsk(t[l])
      PROVE  k = l
  <2>1. k + 1 = l + 1
    BY <1>1, <1>3, Zenon DEF OneAsk
  <2> QED
    BY <1>1, <2>1
<1>4. ASSUME OneAsk(s), IsAsk(Head(s)), NEW k \in DOMAIN t, IsAsk(t[k])
      PROVE  FALSE
  <2>1. k + 1 = 1
    BY <1>1, <1>4, Zenon DEF OneAsk
  <2> QED
    BY <1>1, <2>1
<1>5. OneAsk(s) => OneAsk(t)
  BY <1>3 DEF OneAsk
<1>6. OneAsk(s) /\ IsAsk(Head(s)) => NoAsk(t)
  BY <1>4 DEF NoAsk
<1> QED
  BY <1>2, <1>5, <1>6 DEF t

(* One request is read, and answered if it asks.                           *)
Answered(ms, ss, ts) ==
    \/ ts = ss
    \/ \E r \in Reply : /\ ts = Append(ss, r) /\ IsAsk(Head(ms))
                        /\ Head(ms).op = "L" => r.op = "L"
LEMMA AnsweredIs ==
    ASSUME NEW ms \in Seq(Message), ms # <<>>, NEW ss \in Seq(Reply), NEW ts,
           Answered(ms, ss, ts)
    PROVE  /\ Quiet(ms, ss) => Quiet(Tail(ms), ts)
           /\ AtMostOne(ms, ss) => AtMostOne(Tail(ms), ts)
           /\ OnlyL(ms, ss) => OnlyL(Tail(ms), ts)
<1>1. /\ NoAsk(ms) => ~IsAsk(Head(ms)) /\ NoAsk(Tail(ms))
      /\ OneAsk(ms) => OneAsk(Tail(ms))
      /\ OneAsk(ms) /\ IsAsk(Head(ms)) => NoAsk(Tail(ms))
  BY AsksLess
<1>2. /\ 1 \in DOMAIN ms /\ Head(ms) = ms[1]
      /\ \A k \in DOMAIN Tail(ms) : k + 1 \in DOMAIN ms /\ Tail(ms)[k] = ms[k + 1]
  BY TailIs
<1>3. OnlyL(ms, ss) => \A k \in DOMAIN Tail(ms) : IsAsk(Tail(ms)[k]) => Tail(ms)[k].op = "L"
  BY <1>2, Zenon DEF OnlyL
<1>4. CASE ts = ss
  BY <1>1, <1>3, <1>4, Zenon DEF Quiet, AtMostOne, OnlyL
<1>5. ASSUME NEW r \in Reply, ts = Append(ss, r), IsAsk(Head(ms)), Head(ms).op = "L" => r.op = "L"
      PROVE  /\ Quiet(ms, ss) => Quiet(Tail(ms), ts)
             /\ AtMostOne(ms, ss) => AtMostOne(Tail(ms), ts)
             /\ OnlyL(ms, ss) => OnlyL(Tail(ms), ts)
  <2>1. /\ ss = <<>> => Len(ts) = 1
        /\ DOMAIN ts = 1 .. Len(ss) + 1 /\ Len(ss) \in Nat /\ DOMAIN ss = 1 .. Len(ss)
        /\ ts[Len(ss) + 1] = r /\ \A k \in 1 .. Len(ss) : ts[k] = ss[k]
    BY <1>5
  <2>2. \A k \in DOMAIN ts : k = Len(ss) + 1 \/ (k \in DOMAIN ss /\ ts[k] = ss[k])
    BY <2>1
  <2>3. ~Quiet(ms, ss)
    BY <1>1, <1>5 DEF Quiet
  <2>4. AtMostOne(ms, ss) => AtMostOne(Tail(ms), ts)
    BY <1>1, <1>5, <2>1 DEF AtMostOne
  <2>5. ASSUME OnlyL(ms, ss) PROVE OnlyL(Tail(ms), ts)
    <3>1. Head(ms).op = "L"
      BY <1>2, <1>5, <2>5 DEF OnlyL
    <3>2. \A k \in DOMAIN ts : ts[k].op = "L"
      BY <1>5, <2>1, <2>2, <2>5, <3>1 DEF OnlyL
    <3> QED
      BY <1>3, <2>5, <3>2 DEF OnlyL
  <2> QED
    BY <2>3, <2>4, <2>5
<1> QED
  BY <1>4, <1>5 DEF Answered

(* The threads that wait are those that have not been answered, and may be *)
(* more: the rest of a reply is read after they have joined.               *)
Waiting(H) == {h \in H : h.estado = "espera"}
ApartNodes(H) == \A g, h \in H : g.nodo = h.nodo => g = h
Counted(ms, ss, H, l) ==
    /\ l = 0 /\ ~Quiet(ms, ss) => Waiting(H) # {}
    /\ l = 0 /\ ~AtMostOne(ms, ss) => \E g, h \in Waiting(H) : g # h
    /\ l = 1 /\ ~AtMostOne(ms, ss) => Waiting(H) # {}
Dialogue(ms, ss, p, H, l, again) ==
    /\ p = "conectado" => Quiet(ms, ss)
    /\ p = "esperaT" => AtMostOne(ms, ss)
    /\ p = "T" => ApartNodes(H) /\ Counted(ms, ss, H, l) /\ (l > 0 => again)
    /\ p = "esperaR" /\ l = 1 => AtMostOne(ms, ss)
    /\ p = "esperaL" => OnlyL(ms, ss) /\ AtMostOne(ms, ss)
InTurn(ss) == \A k \in DOMAIN ss : ss[k].op \in {"T", "R"} => ByNode(ss[k].data)
Proto(fd) ==
    /\ pc[fd] = "off" => fd \notin abiertos /\ salida[fd] = <<>>
    /\ InTurn(salida[fd])
    /\ Dialogue(pedidos[fd], salida[fd], pc[fd], hilos[fd], leido[fd],
                replanification[fd] \/ abortJob[fd])
ProtoInv == \A fd \in FDs : Proto(fd)

LEMMA AnswerDialogue ==
    ASSUME NEW ms \in Seq(Message), ms # <<>>, NEW ss \in Seq(Reply), NEW ts,
           Answered(ms, ss, ts), NEW p, NEW H, NEW l, NEW again, Dialogue(ms, ss, p, H, l, again)
    PROVE  Dialogue(Tail(ms), ts, p, H, l, again)
<1>1. /\ Quiet(ms, ss) => Quiet(Tail(ms), ts)
      /\ AtMostOne(ms, ss) => AtMostOne(Tail(ms), ts)
      /\ OnlyL(ms, ss) => OnlyL(Tail(ms), ts)
  BY AnsweredIs
<1>2. Counted(ms, ss, H, l) => Counted(Tail(ms), ts, H, l)
  BY <1>1, Zenon DEF Counted
<1> QED
  BY <1>1, <1>2, Zenon DEF Dialogue

LEMMA OthersProto ==
    ASSUME NEW fd \in FDs, Alone(fd), NEW e \in FDs \ {fd}, Proto(e)
    PROVE  Proto(e)'
<1>1. /\ pc'[e] = pc[e] /\ hilos'[e] = hilos[e] /\ leido'[e] = leido[e]
      /\ replanification'[e] = replanification[e] /\ abortJob'[e] = abortJob[e]
      /\ pedidos'[e] = pedidos[e] /\ salida'[e] = salida[e]
      /\ e \in abiertos' <=> e \in abiertos
  BY DEF Alone
<1> QED
  BY <1>1, Zenon DEF Proto

LEMMA AllProto ==
    ASSUME ProtoInv, NEW fd \in FDs, Alone(fd), Proto(fd)'
    PROVE  ProtoInv'
<1>1. ASSUME NEW e \in FDs PROVE Proto(e)'
  <2>1. CASE e = fd
    BY <2>1
  <2>2. CASE e # fd
    BY <2>2, OthersProto DEF ProtoInv
  <2> QED
    BY <2>1, <2>2
<1> QED
  BY <1>1 DEF ProtoInv

LEMMA ProtoThen ==
    ASSUME NEW fd \in FDs, NEW ms, NEW ss, NEW p, NEW H, NEW l, NEW again,
           pedidos'[fd] = ms, salida'[fd] = ss, pc'[fd] = p, hilos'[fd] = H, leido'[fd] = l,
           (replanification'[fd] \/ abortJob'[fd]) <=> again,
           p # "off", InTurn(ss), Dialogue(ms, ss, p, H, l, again)
    PROVE  Proto(fd)'
<1>1. (replanification'[fd] \/ abortJob'[fd]) = again
  OBVIOUS
<1> QED
  BY <1>1 DEF Proto

LEMMA ExitAlone ==
    ASSUME TypeInv, NEW fd \in FDs, NEW ms, Exit(fd, ms)
    PROVE  Alone(fd) /\ pc'[fd] = "off" /\ Proto(fd)'
<1>1. /\ DOMAIN pc = FDs /\ DOMAIN hilos = FDs /\ DOMAIN leido = FDs
      /\ DOMAIN replanification = FDs /\ DOMAIN abortJob = FDs
      /\ DOMAIN pedidos = FDs /\ DOMAIN salida = FDs
  BY DEF TypeInv, SocketsOK, MasterOK
<1>2. /\ \E x : pedidos' = [pedidos EXCEPT ![fd] = x]
      /\ abiertos' = abiertos \ {fd} /\ salida' = [salida EXCEPT ![fd] = <<>>]
      /\ pc' = [pc EXCEPT ![fd] = "off"] /\ hilos' = [hilos EXCEPT ![fd] = {}]
      /\ leido' = [leido EXCEPT ![fd] = 0]
      /\ replanification' = [replanification EXCEPT ![fd] = FALSE]
      /\ abortJob' = [abortJob EXCEPT ![fd] = FALSE]
  BY Zenon DEF Exit, Send, GoTo
<1>3. Alone(fd)
  BY <1>1, <1>2 DEF Alone
<1>4. pc'[fd] = "off" /\ salida'[fd] = <<>> /\ fd \notin abiertos'
  BY <1>1, <1>2
<1>5. InTurn(salida'[fd])
  BY <1>4 DEF InTurn
<1>6. Dialogue(pedidos'[fd], salida'[fd], pc'[fd], hilos'[fd], leido'[fd],
               replanification'[fd] \/ abortJob'[fd])
  BY <1>4 DEF Dialogue
<1> QED
  BY <1>3, <1>4, <1>5, <1>6, Zenon DEF Proto

(* What the steps that stay do to the master of fd.                        *)
Does(fd, ms, ss, p, H, l, rep, ab) ==
    /\ pedidos' = [pedidos EXCEPT ![fd] = ms] /\ salida' = [salida EXCEPT ![fd] = ss]
    /\ pc' = [pc EXCEPT ![fd] = p] /\ hilos' = [hilos EXCEPT ![fd] = H]
    /\ leido' = [leido EXCEPT ![fd] = l]
    /\ replanification' = [replanification EXCEPT ![fd] = rep]
    /\ abortJob' = [abortJob EXCEPT ![fd] = ab] /\ abiertos' = abiertos
LEMMA DoesIs ==
    ASSUME TypeInv, NEW fd \in FDs, NEW ms, NEW ss, NEW p, NEW H, NEW l, NEW rep, NEW ab,
           Does(fd, ms, ss, p, H, l, rep, ab)
    PROVE  /\ pedidos'[fd] = ms /\ salida'[fd] = ss /\ pc'[fd] = p /\ hilos'[fd] = H
           /\ leido'[fd] = l /\ replanification'[fd] = rep /\ abortJob'[fd] = ab
           /\ Alone(fd)
<1>1. /\ DOMAIN pc = FDs /\ DOMAIN hilos = FDs /\ DOMAIN leido = FDs
      /\ DOMAIN replanification = FDs /\ DOMAIN abortJob = FDs
      /\ DOMAIN pedidos = FDs /\ DOMAIN salida = FDs
  BY DEF TypeInv, SocketsOK, MasterOK
<1>2. Alone(fd)
  BY <1>1, Zenon DEF Alone, Does
<1> QED
  BY <1>1, <1>2 DEF Does

LEMMA DoesProto ==
    ASSUME TypeInv, NEW fd \in FDs, NEW ms, NEW ss, NEW p, NEW H, NEW l, NEW rep, NEW ab,
           Does(fd, ms, ss, p, H, l, rep, ab), p # "off", InTurn(ss),
           Dialogue(ms, ss, p, H, l, rep \/ ab)
    PROVE  Alone(fd) /\ Proto(fd)'
<1>1. /\ pedidos'[fd] = ms /\ salida'[fd] = ss /\ pc'[fd] = p /\ hilos'[fd] = H
      /\ leido'[fd] = l /\ replanification'[fd] = rep /\ abortJob'[fd] = ab
      /\ Alone(fd)
  BY DoesIs
<1>2. (replanification'[fd] \/ abortJob'[fd]) <=> (rep \/ ab)
  BY <1>1, Zenon
<1> DEFINE again == rep \/ ab
<1>3. Dialogue(ms, ss, p, H, l, again) /\ ((replanification'[fd] \/ abortJob'[fd]) <=> again)
  BY <1>2
<1> HIDE DEF again
<1>4. Proto(fd)'
  BY <1>1, <1>3, ProtoThen
<1> QED
  BY <1>1, <1>4

(* Where it is and what it has, unchanged.                                 *)
LEMMA StillThere ==
    ASSUME TypeInv, NEW fd \in FDs
    PROVE  /\ pc = [pc EXCEPT ![fd] = pc[fd]] /\ hilos = [hilos EXCEPT ![fd] = hilos[fd]]
           /\ leido = [leido EXCEPT ![fd] = leido[fd]]
           /\ replanification = [replanification EXCEPT ![fd] = replanification[fd]]
           /\ abortJob = [abortJob EXCEPT ![fd] = abortJob[fd]]
           /\ pedidos = [pedidos EXCEPT ![fd] = pedidos[fd]]
           /\ salida = [salida EXCEPT ![fd] = salida[fd]]
<1>1. /\ pc \in [FDs -> {"off", "conectado", "esperaT", "T", "esperaR", "esperaL",
                       "L", "esperaG", "G", "esperaS", "S"}]
      /\ hilos \in [FDs -> SUBSET Thread]
      /\ leido \in [FDs -> Nat] /\ replanification \in [FDs -> BOOLEAN]
      /\ abortJob \in [FDs -> BOOLEAN]
      /\ pedidos \in [FDs -> Seq(Message)] /\ salida \in [FDs -> Seq(Reply)]
  BY DEF TypeInv, SocketsOK, MasterOK
<1> QED
  BY <1>1

(* What a master has at hand.                                              *)
LEMMA AtHand ==
    ASSUME TypeInv, LinkInv, ProtoInv, NEW fd \in FDs
    PROVE  /\ pedidos[fd] \in Seq(Message) /\ salida[fd] \in Seq(Reply)
           /\ hilos[fd] \in SUBSET Thread /\ leido[fd] \in Nat
           /\ replanification[fd] \in BOOLEAN /\ abortJob[fd] \in BOOLEAN
           /\ InTurn(salida[fd]) /\ <<>> \in Seq(Message)
           /\ Dialogue(pedidos[fd], salida[fd], pc[fd], hilos[fd], leido[fd],
                       replanification[fd] \/ abortJob[fd])
           /\ pedidos[fd] \o <<>> = pedidos[fd]
           /\ pc[fd] = "esperaR" => salida[fd] # <<>> /\ Head(salida[fd]).op = "R"
<1>1. Proto(fd) /\ Link(fd)
  BY DEF ProtoInv, LinkInv
<1> QED
  BY <1>1 DEF TypeInv, SocketsOK, MasterOK, Proto, Link

LEMMA RequestProto ==
    ASSUME TypeInv, LinkInv, ProtoInv, NEW fd \in FDs, NEW arch \in Files,
           SendTRequest(fd, arch)
    PROVE  Alone(fd) /\ Proto(fd)'
<1> DEFINE m == [op |-> "T", file |-> arch]
           ms == pedidos[fd] \o <<m>>
           ss == salida[fd]
           H == hilos[fd]
           l == leido[fd]
           rep == replanification[fd]
           ab == abortJob[fd]
<1>1. pc[fd] = "conectado" /\ Does(fd, ms, ss, "esperaT", H, l, rep, ab)
  BY StillThere, Zenon DEF SendTRequest, Send, GoTo, Does
<1>2. m \in Message
  BY MessagesAre
<1>3. Quiet(pedidos[fd], ss) /\ InTurn(ss) /\ pedidos[fd] \in Seq(Message)
  BY <1>1, AtHand, Zenon DEF Dialogue
<1> HIDE DEF m
<1>4. AtMostOne(ms, ss)
  BY <1>2, <1>3, AsksMore DEF Quiet, AtMostOne
<1> HIDE DEF ms, ss, H, l, rep, ab
<1>5. Dialogue(ms, ss, "esperaT", H, l, rep \/ ab)
  BY <1>4 DEF Dialogue
<1> QED
  BY <1>1, <1>3, <1>5, DoesProto

LEMMA RestInTurn ==
    ASSUME NEW ss \in Seq(Reply), ss # <<>>, InTurn(ss)
    PROVE  /\ InTurn(Tail(ss)) /\ Head(ss) \in Reply /\ Head(ss).data \in Seq(Task)
           /\ Head(ss).op \in {"T", "R"} => ByNode(Head(ss).data)
           /\ Len(ss) = 1 => Tail(ss) = <<>>
<1>1. /\ 1 \in DOMAIN ss /\ Head(ss) = ss[1]
      /\ \A k \in DOMAIN Tail(ss) : k + 1 \in DOMAIN ss /\ Tail(ss)[k] = ss[k + 1]
  BY TailIs
<1>2. InTurn(Tail(ss))
  BY <1>1, Zenon DEF InTurn
<1>3. Head(ss).op \in {"T", "R"} => ByNode(Head(ss).data)
  BY <1>1 DEF InTurn
<1>4. Head(ss) \in Reply
  BY <1>1
<1>5. Head(ss).data \in Seq(Task)
  BY <1>4 DEF Reply
<1> QED
  BY <1>2, <1>3, <1>4, <1>5, TailOfOne

(* One thread per node: the tasks of a reply are in the order of the nodes.*)
LEMMA ThreadsApart ==
    ASSUME NEW data \in Seq(Task), ByNode(data)
    PROVE  ApartNodes(ThreadsFor(data))
<1> DEFINE g == Grouped(data)
<1>1. /\ Len(data) \in Nat /\ DOMAIN data = 1 .. Len(data)
      /\ \A k \in DOMAIN data : data[k] \in Task
  OBVIOUS
<1>7. \A k \in DOMAIN data : data[k].nodo \in Node /\ data[k].tmps \in Seq(Block)
  BY <1>1 DEF Task
<1>2. Node \in SUBSET Nat
  BY LayoutAssumption
<1>3. g \in Seq(TasksOf(Node)) /\ \A i, j \in DOMAIN g : g[i].nodo = g[j].nodo => i = j
  BY <1>1, <1>2, <1>7, GroupsAre
<1>4. ThreadsFor(data) = {[nodo |-> r.nodo, tmps |-> r.tmps, estado |-> "corre"] : r \in ToSet(g)}
  BY Zenon DEF ThreadsFor
<1> HIDE DEF g
<1>5. ToSet(g) = {g[i] : i \in DOMAIN g}
  BY Zenon DEF ToSet
<1>6. \A h \in ThreadsFor(data) : \E i \in DOMAIN g :
         h = [nodo |-> g[i].nodo, tmps |-> g[i].tmps, estado |-> "corre"]
  BY <1>4, <1>5
<1> QED
  BY <1>3, <1>6 DEF ApartNodes

LEMMA StartProto ==
    ASSUME TypeInv, LinkInv, ProtoInv, NEW fd \in FDs, NEW label \in {"T", "L", "G", "S"},
           StartThreads(fd, label), salida[fd] # <<>>,
           label = "T" => /\ Head(salida[fd]).op \in {"T", "R"}
                          /\ AtMostOne(pedidos[fd], salida[fd])
    PROVE  Alone(fd) /\ Proto(fd)'
<1> DEFINE ms == pedidos[fd]
           ss == salida[fd]
           H == ThreadsFor(Head(ss).data)
           rep == replanification[fd]
           ab == abortJob[fd]
<1>1. Does(fd, ms, Tail(ss), label, H, 0, rep, ab)
  BY StillThere, Zenon DEF StartThreads, GoTo, Does
<1>2. ms \in Seq(Message) /\ ss \in Seq(Reply) /\ InTurn(ss) /\ ss # <<>>
  BY AtHand
<1> HIDE DEF ms, ss
<1>3. /\ InTurn(Tail(ss)) /\ Head(ss).data \in Seq(Task)
      /\ Head(ss).op \in {"T", "R"} => ByNode(Head(ss).data)
      /\ Len(ss) = 1 => Tail(ss) = <<>>
  BY <1>2, RestInTurn
<1>4. label = "T" => Quiet(ms, Tail(ss)) /\ ApartNodes(H)
  <2>1. label = "T" => Head(ss).op \in {"T", "R"} /\ AtMostOne(ms, ss)
    BY DEF ms, ss
  <2> QED
    BY <1>2, <1>3, <2>1, ThreadsApart DEF Quiet, AtMostOne
<1> HIDE DEF H, rep, ab
<1>5. AtMostOne(ms, Tail(ss)) \/ ~Quiet(ms, Tail(ss))
  BY <1>2, AsksMore, MessagesAre DEF Quiet, AtMostOne, NoAsk, OneAsk
<1>6. label = "T" => Counted(ms, Tail(ss), H, 0)
  BY <1>4, <1>5 DEF Counted
<1>7. Dialogue(ms, Tail(ss), label, H, 0, rep \/ ab)
  BY <1>4, <1>6 DEF Dialogue
<1> QED
  BY <1>1, <1>3, <1>7, DoesProto

LEMMA RepliesStart ==
    ASSUME TypeInv, LinkInv, ProtoInv, NEW fd \in FDs,
           TransformationReply(fd) \/ LocalReductionReply(fd) \/ LastStagesReply(fd)
    PROVE  Alone(fd) /\ Proto(fd)'
<1>1. CASE TransformationReply(fd)
  <2>1. /\ salida[fd] # <<>> /\ StartThreads(fd, "T")
        /\ \/ pc[fd] = "esperaT" /\ Head(salida[fd]).op = "T"
           \/ pc[fd] = "esperaR" /\ leido[fd] = 1
    BY <1>1, Zenon DEF TransformationReply
  <2>2. /\ Head(salida[fd]).op \in {"T", "R"}
        /\ AtMostOne(pedidos[fd], salida[fd])
    BY <2>1, AtHand DEF Dialogue
  <2> QED
    BY <2>1, <2>2, StartProto
<1>2. CASE LocalReductionReply(fd)
  BY <1>2, StartProto DEF LocalReductionReply
<1>3. CASE LastStagesReply(fd)
  BY <1>3, StartProto DEF LastStagesReply
<1> QED
  BY <1>1, <1>2, <1>3

LEMMA CountedSame ==
    ASSUME NEW ms, NEW ss, NEW l, NEW G, NEW H, Waiting(G) = Waiting(H), NEW ns,
           Quiet(ms, ss) => Quiet(ns, ss), AtMostOne(ms, ss) => AtMostOne(ns, ss),
           Counted(ms, ss, G, l)
    PROVE  Counted(ns, ss, H, l)
BY Zenon DEF Counted

LEMMA TransformedProto ==
    ASSUME TypeInv, LinkInv, ProtoInv, NEW fd \in FDs, NEW h \in hilos[fd],
           NEW k \in DOMAIN h.tmps, BlockTransformed(fd, h, k)
    PROVE  Alone(fd) /\ Proto(fd)'
<1> DEFINE m == Result("T", h.nodo, h.tmps[k])
           os == pedidos[fd]
           ms == os \o <<m>>
           ss == salida[fd]
           G == hilos[fd]
           H == OneLess(G, h, k)
           l == leido[fd]
           rep == replanification[fd]
           ab == abortJob[fd]
<1>1. pc[fd] = "T" /\ h.estado = "corre" /\ Does(fd, ms, ss, "T", H, l, rep, ab)
  BY StillThere, Zenon DEF BlockTransformed, Send, Does, Result, OneLess
<1>2. /\ os \in Seq(Message) /\ ss \in Seq(Reply) /\ InTurn(ss) /\ G \in SUBSET Thread
      /\ ApartNodes(G) /\ Counted(os, ss, G, l) /\ (l > 0 => rep \/ ab)
  BY <1>1, AtHand, Zenon DEF Dialogue
<1>3. h.tmps[k] \in Block /\ h.nodo \in Node
  BY BlockOf
<1>4. m \in Message /\ m.op = "O"
  BY <1>3, ResultIs DEF Stage
<1>5. ~IsAsk(m)
  BY <1>4 DEF IsAsk, Stage
<1>6. /\ Quiet(os, ss) => Quiet(ms, ss)
      /\ AtMostOne(os, ss) => AtMostOne(ms, ss)
  <2> HIDE DEF m, os, ss
  <2> QED
    BY <1>2, <1>4, <1>5, AsksMore DEF Quiet, AtMostOne
<1>7. h \in G
  OBVIOUS
<1> DEFINE rest == RemoveAt(h.tmps, k)
           g == [h EXCEPT !.tmps = rest]
<1>8. \A x \in H : (x \in G /\ x # h) \/ x = g
  BY Zenon DEF OneLess
<1>9. \A x \in G : x # h => x \in H
  BY Zenon DEF OneLess
<1>10. g.nodo = h.nodo /\ g.estado = h.estado
  BY <1>2, <1>7 DEF Thread
<1> HIDE DEF m, os, ms, ss, G, H, l, rep, ab, rest, g
<1>11. ApartNodes(H)
  BY <1>2, <1>7, <1>8, <1>10 DEF ApartNodes
<1>12. Waiting(G) = Waiting(H)
  BY <1>1, <1>8, <1>9, <1>10 DEF Waiting
<1>13. Counted(ms, ss, H, l)
  BY <1>2, <1>6, <1>12, CountedSame
<1>14. Dialogue(ms, ss, "T", H, l, rep \/ ab)
  BY <1>2, <1>11, <1>13 DEF Dialogue
<1> QED
  BY <1>1, <1>2, <1>14, DoesProto

LEMMA FailsProto ==
    ASSUME TypeInv, LinkInv, ProtoInv, NEW fd \in FDs, NEW h \in hilos[fd],
           TransformationFails(fd, h)
    PROVE  Alone(fd) /\ Proto(fd)'
<1> DEFINE m == [op |-> "E", etapa |-> "T", node |-> h.nodo]
           g == [h EXCEPT !.estado = "espera"]
           os == pedidos[fd]
           ms == os \o <<m>>
           ss == salida[fd]
           G == hilos[fd]
           H == (G \ {h}) \cup {g}
           l == leido[fd]
           rep == replanification[fd]
           ab == abortJob[fd]
<1>1. pc[fd] = "T" /\ h.estado = "corre" /\ Does(fd, ms, ss, "T", H, l, rep, ab)
  BY StillThere, Zenon DEF TransformationFails, Send, Does
<1>2. /\ os \in Seq(Message) /\ ss \in Seq(Reply) /\ InTurn(ss) /\ G \in SUBSET Thread
      /\ ApartNodes(G) /\ Counted(os, ss, G, l) /\ (l > 0 => rep \/ ab) /\ l \in Nat
  BY <1>1, AtHand, Zenon DEF Dialogue
<1>3. m \in Message
  <2>1. h.nodo \in Node
    BY ThreadIs DEF TypeInv
  <2> QED
    BY <2>1, MessagesAre DEF Stage
<1>4. h \in G
  OBVIOUS
<1>5. g.nodo = h.nodo /\ g.estado = "espera"
  BY <1>2, <1>4 DEF Thread
<1>6. /\ NoAsk(os) => OneAsk(os) /\ OneAsk(ms)
  BY <1>2, <1>3, AsksMore
<1> HIDE DEF m, os, ms, ss, G, l, rep, ab, g
<1>7. ApartNodes(H)
  BY <1>2, <1>4, <1>5 DEF ApartNodes
<1>8. g \in Waiting(H) /\ \A x \in Waiting(G) : x \in Waiting(H) /\ x # g
  BY <1>1, <1>2, <1>4, <1>5 DEF Waiting, ApartNodes
<1> HIDE DEF H
<1>9. Quiet(os, ss) => AtMostOne(ms, ss)
  BY <1>6 DEF Quiet, AtMostOne
<1>10. AtMostOne(os, ss) \/ ~Quiet(os, ss)
  BY <1>6 DEF Quiet, AtMostOne
<1>11. Counted(ms, ss, H, l)
  <2>1. Waiting(H) # {}
    BY <1>8
  <2>2. l = 0 /\ ~AtMostOne(ms, ss) => \E x, y \in Waiting(H) : x # y
    BY <1>2, <1>8, <1>9 DEF Counted
  <2> QED
    BY <2>1, <2>2 DEF Counted
<1>12. Dialogue(ms, ss, "T", H, l, rep \/ ab)
  BY <1>2, <1>7, <1>11 DEF Dialogue
<1> QED
  BY <1>1, <1>2, <1>12, DoesProto

LEMMA CheckProto ==
    ASSUME TypeInv, LinkInv, ProtoInv, NEW fd \in FDs, NEW h \in hilos[fd],
           CheckReplanification(fd, h)
    PROVE  Alone(fd) /\ Proto(fd)'
<1> DEFINE ms == pedidos[fd]
           ss == salida[fd]
           G == hilos[fd]
           H == G \ {h}
           l == leido[fd]
           ok == l = 0 /\ Head(ss).op = "R"
           rep == replanification[fd] \/ ok
           ab == abortJob[fd] \/ ~ok
<1>1. pc[fd] = "T" /\ h.estado = "espera" /\ Does(fd, ms, ss, "T", H, l + 1, rep, ab)
  BY StillThere, Zenon DEF CheckReplanification, sockets, Does
<1>2. /\ ms \in Seq(Message) /\ ss \in Seq(Reply) /\ InTurn(ss) /\ G \in SUBSET Thread
      /\ ApartNodes(G) /\ Counted(ms, ss, G, l) /\ l \in Nat
  BY <1>1, AtHand, Zenon DEF Dialogue
<1>3. rep \/ ab
  OBVIOUS
<1>4. h \in G
  OBVIOUS
<1> HIDE DEF ms, ss, G, l, rep, ab
<1>5. ApartNodes(H)
  BY <1>2 DEF ApartNodes
<1>6. \A x \in Waiting(G) : x # h => x \in Waiting(H)
  BY DEF Waiting
<1> HIDE DEF H
<1>7. l + 1 # 0 /\ (l + 1 = 1 => l = 0)
  BY <1>2
<1>8. Counted(ms, ss, H, l + 1)
  BY <1>2, <1>6, <1>7 DEF Counted
<1>9. Dialogue(ms, ss, "T", H, l + 1, rep \/ ab)
  BY <1>3, <1>5, <1>8 DEF Dialogue
<1> QED
  BY <1>1, <1>2, <1>9, DoesProto

LEMMA JoinedProto ==
    ASSUME TypeInv, LinkInv, ProtoInv, NEW fd \in FDs, TransformationJoined(fd)
    PROVE  Alone(fd) /\ Proto(fd)'
<1> DEFINE m == [op |-> "L"]
           os == pedidos[fd]
           ms == os \o <<m>>
           ss == salida[fd]
           H == hilos[fd]
           l == leido[fd]
           rep == replanification[fd]
           ab == abortJob[fd]
<1>1. pc[fd] = "T" /\ hilos[fd] = {}
  BY DEF TransformationJoined
<1>2. /\ os \in Seq(Message) /\ ss \in Seq(Reply) /\ InTurn(ss)
      /\ Counted(os, ss, H, l) /\ (l > 0 => rep \/ ab) /\ l \in Nat
  BY <1>1, AtHand, Zenon DEF Dialogue
<1>3. Waiting(H) = {}
  BY <1>1 DEF Waiting
<1>4. CASE Exit(fd, <<>>)
  BY <1>4, ExitAlone
<1>5. CASE /\ replanification[fd] /\ GoTo(fd, "esperaR")
           /\ replanification' = [replanification EXCEPT ![fd] = FALSE]
           /\ UNCHANGED <<sockets, hilos, leido, abortJob>>
  <2> DEFINE no == FALSE
  <2>1. Does(fd, os, ss, "esperaR", H, l, no, ab)
    BY <1>5, StillThere, Zenon DEF GoTo, sockets, Does
  <2> HIDE DEF os, ss, H, l, ab, no
  <2>2. l = 1 => AtMostOne(os, ss)
    BY <1>2, <1>3 DEF Counted
  <2>3. Dialogue(os, ss, "esperaR", H, l, no \/ ab)
    BY <2>2 DEF Dialogue
  <2> QED
    BY <1>2, <2>1, <2>3, DoesProto
<1>6. CASE /\ ~replanification[fd] /\ ~abortJob[fd]
           /\ Send(fd, <<[op |-> "L"]>>)
           /\ GoTo(fd, "esperaL")
           /\ UNCHANGED <<salida, abiertos, hilos, leido, replanification, abortJob>>
  <2>1. Does(fd, ms, ss, "esperaL", H, l, rep, ab) /\ ~rep /\ ~ab
    BY <1>6, StillThere, Zenon DEF GoTo, Send, Does
  <2>2. m \in Message /\ m.op = "L"
    BY MessagesAre
  <2> HIDE DEF m, os, ss, H, l, rep, ab
  <2>3. l = 0
    BY <1>2, <2>1
  <2>4. Quiet(os, ss)
    BY <1>2, <1>3, <2>3 DEF Counted
  <2>5. OneAsk(ms) /\ ss = <<>>
    BY <1>2, <2>2, <2>4, AsksMore DEF Quiet
  <2>6. OnlyL(ms, ss)
    <3>1. \A k \in DOMAIN ms : ms[k] = m \/ (k \in DOMAIN os /\ ms[k] = os[k])
      BY <1>2, <2>2
    <3>2. \A k \in DOMAIN ms : IsAsk(ms[k]) => ms[k].op = "L"
      BY <2>2, <2>4, <3>1, Zenon DEF Quiet, NoAsk
    <3>3. DOMAIN ss = {}
      BY <2>5
    <3> QED
      BY <3>2, <3>3 DEF OnlyL
  <2>7. Dialogue(ms, ss, "esperaL", H, l, rep \/ ab)
    BY <2>5, <2>6 DEF Dialogue, AtMostOne
  <2> HIDE DEF ms
  <2> QED
    BY <1>2, <2>1, <2>7, DoesProto
<1> QED
  BY <1>4, <1>5, <1>6 DEF TransformationJoined

(* The other steps: nothing is asked of the planner, or the master ends.   *)
LEMMA OtherStepsProto ==
    ASSUME TypeInv, LinkInv, ProtoInv, NEW fd \in FDs, NEW ms, NEW p \in {"L", "esperaG", "esperaS"},
           NEW H, NEW ab, Does(fd, ms, salida[fd], p, H, leido[fd], replanification[fd], ab)
    PROVE  Alone(fd) /\ Proto(fd)'
<1> DEFINE ss == salida[fd]
           l == leido[fd]
           rep == replanification[fd]
<1>1. Does(fd, ms, ss, p, H, l, rep, ab) /\ InTurn(ss)
  BY AtHand
<1> HIDE DEF ss, l, rep
<1>2. Dialogue(ms, ss, p, H, l, rep \/ ab) /\ p # "off"
  BY DEF Dialogue
<1> QED
  BY <1>1, <1>2, DoesProto

LEMMA ReductionProto ==
    ASSUME TypeInv, LinkInv, ProtoInv, NEW fd \in FDs,
           \/ \E h : LocalReductionDone(fd, h) \/ LocalReductionFails(fd, h)
           \/ LocalReductionJoined(fd)
           \/ \E h : GlobalReductionDone(fd, h)
    PROVE  Alone(fd) /\ Proto(fd)'
<1>1. ASSUME NEW h, LocalReductionDone(fd, h)
      PROVE  Alone(fd) /\ Proto(fd)'
  <2>1. \E ms, H : Does(fd, ms, salida[fd], "L", H, leido[fd], replanification[fd], abortJob[fd])
    BY <1>1, StillThere, Zenon DEF LocalReductionDone, Send, Does
  <2> QED
    BY <2>1, OtherStepsProto
<1>2. ASSUME NEW h, LocalReductionFails(fd, h)
      PROVE  Alone(fd) /\ Proto(fd)'
  <2>1. \E ms, H : Does(fd, ms, salida[fd], "L", H, leido[fd], replanification[fd], TRUE)
    BY <1>2, StillThere, Zenon DEF LocalReductionFails, Send, Does
  <2> QED
    BY <2>1, OtherStepsProto
<1>3. ASSUME NEW h, GlobalReductionDone(fd, h)
      PROVE  Alone(fd) /\ Proto(fd)'
  <2>1. \E ms, H : Does(fd, ms, salida[fd], "esperaS", H, leido[fd], replanification[fd], abortJob[fd])
    BY <1>3, StillThere, Zenon DEF GlobalReductionDone, Send, GoTo, Does
  <2> QED
    BY <2>1, OtherStepsProto
<1>4. CASE LocalReductionJoined(fd)
  <2>1. CASE Exit(fd, <<>>)
    BY <2>1, ExitAlone
  <2>2. CASE /\ Send(fd, <<[op |-> "G"]>>) /\ GoTo(fd, "esperaG")
             /\ UNCHANGED <<salida, abiertos, hilos, leido, replanification, abortJob>>
    <3>1. \E ms : Does(fd, ms, salida[fd], "esperaG", hilos[fd], leido[fd],
                       replanification[fd], abortJob[fd])
      BY <2>2, StillThere, Zenon DEF Send, GoTo, Does
    <3> QED
      BY <3>1, OtherStepsProto
  <2> QED
    BY <1>4, <2>1, <2>2 DEF LocalReductionJoined
<1> QED
  BY <1>1, <1>2, <1>3, <1>4

LEMMA MasterProto ==
    ASSUME TypeInv, LinkInv, ProtoInv, NEW fd \in FDs, MasterStep(fd) \/ MasterFault(fd)
    PROVE  Alone(fd) /\ ProtoInv'
<1>1. CASE \E arch \in Files : SendTRequest(fd, arch)
  BY <1>1, RequestProto, AllProto
<1>2. CASE TransformationReply(fd) \/ LocalReductionReply(fd) \/ LastStagesReply(fd)
  BY <1>2, RepliesStart, AllProto
<1>3. ASSUME NEW ms, Exit(fd, ms)
      PROVE  Alone(fd) /\ ProtoInv'
  BY <1>3, ExitAlone, AllProto
<1>4. ASSUME NEW h, \/ FinalStoreDone(fd, h) \/ LastStagesFail(fd, h)
                   \/ TransformationRefused(fd) \/ Kill(fd)
      PROVE  Alone(fd) /\ ProtoInv'
  <2>1. \E ms : Exit(fd, ms)
    BY <1>4, Zenon DEF FinalStoreDone, LastStagesFail, TransformationRefused, Kill
  <2> QED
    BY <2>1, <1>3
<1>5. ASSUME NEW h \in hilos[fd], \/ \E k \in DOMAIN h.tmps : BlockTransformed(fd, h, k)
                                 \/ CheckReplanification(fd, h) \/ TransformationFails(fd, h)
      PROVE  Alone(fd) /\ ProtoInv'
  BY <1>5, TransformedProto, CheckProto, FailsProto, AllProto
<1>6. CASE TransformationJoined(fd)
  BY <1>6, JoinedProto, AllProto
<1>7. CASE \/ \E h : LocalReductionDone(fd, h) \/ LocalReductionFails(fd, h)
           \/ LocalReductionJoined(fd)
           \/ \E h : GlobalReductionDone(fd, h)
  BY <1>7, ReductionProto, AllProto
<1>8. CASE MasterStep(fd)
  BY <1>1, <1>2, <1>4, <1>5, <1>6, <1>7, <1>8, Zenon DEF MasterStep
<1>9. CASE MasterFault(fd)
  BY <1>4, <1>5, <1>7, <1>9, Zenon DEF MasterFault
<1> QED
  BY <1>8, <1>9

(* What a request and a replanning plan.                                   *)
Single(tasks) == \A k \in DOMAIN tasks : \E b \in Block : tasks[k].tmps = <<b>>
PlansRequest(fd, arch, tasks) ==
    /\ Single(tasks)
    /\ tabla_jobs' = Append(tabla_jobs, NewJob(fd))
    /\ tabla_estados' = tabla_estados \o TransformationRows(tasks, jobs, fd, arch)
    /\ tabla_T_planificados' = tabla_T_planificados
                                 \o PlannedEntries(SortByNode(tasks), jobs, fd, arch)
    /\ Respond(fd, "T", SortByNode(tasks))
LEMMA RequestPlans ==
    ASSUME TypeInv, NEW fd \in FDs, ProcessTransformation(fd)
    PROVE  \/ Crash
           \/ \E arch \in Files, tasks \in Seq(TasksOf(Node)) : PlansRequest(fd, arch, tasks)
<1> DEFINE arch == Head(pedidos[fd]).file
           t1 == AddNodesOf(arch)
           t2 == UpdateAvailability(t1, config.algoritm, config.availBase)
           bs == [k \in DOMAIN Layout[arch] |-> <<arch, k>>]
           p == PlanBlocks(t2, bs)
           sorted == SortByNode(p.tasks)
<1>1. /\ Attend(fd, "T")
      /\ \/ Crash
         \/ /\ ~p.overflow
            /\ tabla_jobs' = Append(tabla_jobs, NewJob(fd))
            /\ tabla_estados' = tabla_estados \o TransformationRows(p.tasks, jobs, fd, arch)
            /\ tabla_T_planificados' = tabla_T_planificados
                                         \o PlannedEntries(sorted, jobs, fd, arch)
            /\ Respond(fd, "T", sorted)
  BY Zenon DEF ProcessTransformation
<1>2. SUFFICES ASSUME ~Crash
               PROVE  \E a \in Files, tasks \in Seq(TasksOf(Node)) : PlansRequest(fd, a, tasks)
  OBVIOUS
<1>3. Tables /\ SocketsOK /\ Table_OK(tabla_nodos)
  BY DEF TypeInv, Tables
<1>4. arch \in Files /\ Layout[arch] \in Seq(Node \X Node)
  <2>1. pedidos[fd] # <<>> /\ Head(pedidos[fd]).op = "T"
    BY <1>1 DEF Attend, Receive
  <2>2. arch \in Files
    BY <1>3, <2>1, MessageIs
  <2> QED
    BY <2>2, LayoutAssumption
<1>5. bs \in Seq(Block) /\ (bs # <<>> => Layout[arch] # <<>>)
  <2>1. DOMAIN Layout[arch] = 1 .. Len(Layout[arch]) /\ Len(Layout[arch]) \in Nat
    BY <1>4
  <2>2. \A k \in DOMAIN Layout[arch] : <<arch, k>> \in Block
    BY <1>4, <2>1 DEF Block
  <2> QED
    BY <2>1, <2>2
<1> HIDE DEF arch
<1>6. Table_OK(t1) /\ (Layout[arch] # <<>> => t1 # <<>>)
  BY <1>3, <1>4, AddNodesOfIs, ConfigIs DEF KnownNodes
<1> HIDE DEF t1
<1>7. Table_OK(t2) /\ SameNodes(t1, t2)
  BY <1>3, <1>6, AvailabilityKeepsTable, ConfigIs
<1> HIDE DEF t2
<1>8. bs # <<>> => t2 # <<>>
  BY <1>5, <1>6, <1>7 DEF SameNodes, Table_OK
<1> HIDE DEF bs
<1>9. /\ p.tasks \in Seq(TasksOf(Node)) /\ DOMAIN p.tasks = DOMAIN bs
      /\ \A k \in DOMAIN bs : p.tasks[k].tmps = <<bs[k]>>
  BY <1>1, <1>2, <1>3, <1>5, <1>7, <1>8, ConfigIs, PlanBlocksIs
<1> DEFINE tasks == p.tasks
<1>10. Single(tasks)
  BY <1>5, <1>9 DEF Single
<1> HIDE DEF p
<1>11. PlansRequest(fd, arch, tasks)
  BY <1>1, <1>2, <1>10, Zenon DEF PlansRequest
<1> QED
  BY <1>4, <1>9, <1>11

PlansAgain(fd, n, arch, tasks) ==
    /\ Single(tasks) /\ (tasks # <<>> => arch \in Files)
    /\ SetJob(fd, "T", [JobOf(fd, "T") EXCEPT !.replanificaciones = 1])
    /\ tabla_estados' = Marked(InProcess(RowsOn(JobOf(fd, "T").id, fd, "T", n)), "E")
                          \o TransformationRows(tasks, JobOf(fd, "T").id, fd, arch)
    /\ tabla_T_planificados' = PlannedElsewhere(fd, n)
                                 \o PlannedEntries(SortByNode(tasks), JobOf(fd, "T").id, fd, arch)
    /\ Respond(fd, "R", SortByNode(tasks))
LEMMA ReplanPlans ==
    ASSUME TypeInv, NEW fd \in FDs, ReplanTask(fd)
    PROVE  \/ Crash
           \/ \E arch : \E tasks \in Seq(TasksOf(Node)) :
                PlansAgain(fd, Head(pedidos[fd]).node, arch, tasks)
<1> DEFINE n == Head(pedidos[fd]).node
           id == JobOf(fd, "T").id
           failed == RowsOn(id, fd, "T", n)
           rows == Keep(tabla_estados, failed)
           arch == rows[1].file
           t == IncreaseNodeError(tabla_nodos, n)
           bs == [k \in DOMAIN rows |-> FindBlock(rows[k].block)]
           p == PlanBlocks(t, bs)
           sorted == SortByNode(p.tasks)
<1>1. /\ pedidos[fd] # <<>> /\ Head(pedidos[fd]).op = "E"
      /\ \/ Crash
         \/ /\ ~p.overflow
            /\ tabla_estados' = Marked(InProcess(failed), "E")
                                   \o TransformationRows(p.tasks, id, fd, arch)
            /\ tabla_T_planificados' = PlannedElsewhere(fd, n)
                                         \o PlannedEntries(sorted, id, fd, arch)
            /\ SetJob(fd, "T", [JobOf(fd, "T") EXCEPT !.replanificaciones = 1])
            /\ Respond(fd, "R", sorted)
  BY Zenon DEF ReplanTask, NodeFailed, Attend, Receive
<1>2. SUFFICES ASSUME ~Crash
               PROVE  \E a : \E tasks \in Seq(TasksOf(Node)) : PlansAgain(fd, n, a, tasks)
  OBVIOUS
<1>3. Tables /\ SocketsOK /\ Table_OK(tabla_nodos) /\ n \in Node
  BY <1>1, MessageIs DEF TypeInv, Tables
<1>4. Table_OK(t) /\ (tabla_nodos # <<>> => t # <<>>)
  <2>1. Table_OK(t) /\ SameNodes(tabla_nodos, t)
    BY <1>3, HandlersKeepTable
  <2>2. t = <<>> => tabla_nodos = <<>>
    BY <1>3, <2>1 DEF SameNodes, Table_OK
  <2> QED
    BY <2>1, <2>2
<1>5. /\ failed \subseteq DOMAIN tabla_estados
      /\ \A q \in failed : tabla_estados[q].op = "T"
  BY DEF RowsOn, RowsOf
<1>6. /\ Marked(InProcess(RowsOn(JobOf(fd, "T").id, fd, "T", n)), "E") = Marked(InProcess(failed), "E")
  OBVIOUS
<1> HIDE DEF failed
<1>7. /\ rows # <<>> => arch \in Files /\ tabla_nodos # <<>>
      /\ bs \in Seq(Block) /\ DOMAIN bs = DOMAIN rows
  BY <1>3, <1>5, FailedBlocks
<1>8. rows = <<>> => DOMAIN bs = {}
  BY <1>7
<1> HIDE DEF rows, bs, arch, t
<1>9. bs # <<>> => rows # <<>>
  BY <1>7, <1>8
<1>10. bs # <<>> => arch \in Files /\ t # <<>>
  BY <1>4, <1>7, <1>9
<1>11. /\ p.tasks \in Seq(TasksOf(Node)) /\ DOMAIN p.tasks = DOMAIN bs
       /\ \A k \in DOMAIN bs : p.tasks[k].tmps = <<bs[k]>>
  BY <1>1, <1>2, <1>3, <1>4, <1>7, <1>10, ConfigIs, PlanBlocksIs
<1> DEFINE tasks == p.tasks
<1>12. Single(tasks)
  BY <1>7, <1>11 DEF Single
<1>13. tasks # <<>> => arch \in Files
  BY <1>7, <1>10, <1>11
<1> HIDE DEF p
<1>14. PlansAgain(fd, n, arch, tasks)
  BY <1>1, <1>2, <1>6, <1>12, <1>13, Zenon DEF PlansAgain
<1> QED
  BY <1>11, <1>14

-----------------------------------------------------------------------------
(* What a handler answers, and to what.                                    *)
AnswersAsk(fd, op, data) ==
    /\ Respond(fd, op, data) /\ IsAsk(Head(pedidos[fd]))
    /\ Head(pedidos[fd]).op = "L" => op = "L"
    /\ op \in {"T", "R"} => ByNode(data)
LEMMA HandlerAnswers ==
    ASSUME TypeInv, NEW fd \in FDs, GetMasterMessage(fd)
    PROVE  salida' = salida \/ \E op, data : AnswersAsk(fd, op, data)
<1>1. ASSUME NEW o, Attend(fd, o)
      PROVE  Head(pedidos[fd]).op = o
  BY <1>1, Zenon DEF Attend, Receive
<1>2. ASSUME NEW tasks \in Seq(TasksOf(Node)) PROVE ByNode(SortByNode(tasks))
  BY SortedAre, LayoutAssumption DEF SameTasks
<1>3. CASE UNCHANGED salida
  BY <1>3
<1>4. CASE \/ MasterDisconnected(fd) \/ MasterReset(fd)
           \/ GlobalReductionRefused(fd) \/ ProcessOk(fd) \/ AbortJob(fd) \/ ErrorIgnored(fd)
           \/ LocalReductionNotReady(fd) \/ StageNotReady(fd)
  BY <1>4, Zenon DEF MasterDisconnected, MasterReset, GlobalReductionRefused, ProcessOk,
     AbortJob, ErrorIgnored, LocalReductionNotReady, StageNotReady, Crash
<1>5. CASE ProcessTransformation(fd)
  <2>1. Head(pedidos[fd]).op = "T"
    BY <1>1, <1>5, Zenon DEF ProcessTransformation
  <2>2. IsAsk(Head(pedidos[fd]))
    BY <2>1 DEF IsAsk, Stage
  <2>3. CASE Crash
    BY <2>3, Zenon DEF Crash
  <2>4. ASSUME NEW arch \in Files, NEW tasks \in Seq(TasksOf(Node)), PlansRequest(fd, arch, tasks)
        PROVE  \E op, data : AnswersAsk(fd, op, data)
    <3>1. Respond(fd, "T", SortByNode(tasks))
      BY <2>4, Zenon DEF PlansRequest
    <3>2. AnswersAsk(fd, "T", SortByNode(tasks))
      BY <1>2, <2>1, <2>2, <3>1 DEF AnswersAsk
    <3> QED
      BY <3>2
  <2> QED
    BY <1>5, <2>3, <2>4, RequestPlans
<1>6. CASE ReplanTask(fd)
  <2>1. Head(pedidos[fd]).op = "E" /\ Head(pedidos[fd]).etapa = "T"
    BY <1>1, <1>6, Zenon DEF ReplanTask, NodeFailed
  <2>2. IsAsk(Head(pedidos[fd]))
    BY <2>1 DEF IsAsk
  <2>3. CASE Crash
    BY <2>3, Zenon DEF Crash
  <2>4. ASSUME NEW arch, NEW tasks \in Seq(TasksOf(Node)),
               PlansAgain(fd, Head(pedidos[fd]).node, arch, tasks)
        PROVE  \E op, data : AnswersAsk(fd, op, data)
    <3>1. Respond(fd, "R", SortByNode(tasks))
      BY <2>4, Zenon DEF PlansAgain
    <3>2. AnswersAsk(fd, "R", SortByNode(tasks))
      BY <1>2, <2>1, <2>2, <3>1 DEF AnswersAsk
    <3> QED
      BY <3>2
  <2> QED
    BY <1>6, <2>3, <2>4, ReplanPlans
<1>7. ASSUME NEW o \in Stage, NEW op \in {"E", "L", "G", "S"}, NEW data, o = "L" => op = "L",
             Attend(fd, o), Respond(fd, op, data)
      PROVE  \E p, d : AnswersAsk(fd, p, d)
  <2>1. Head(pedidos[fd]).op = o
    BY <1>1, <1>7
  <2>2. AnswersAsk(fd, op, data)
    BY <1>7, <2>1 DEF AnswersAsk, IsAsk
  <2> QED
    BY <2>2
<1>8. CASE FileNotAvailable(fd)
  <2>1. Attend(fd, "T") /\ Respond(fd, "E", <<>>)
    BY <1>8, Zenon DEF FileNotAvailable
  <2> QED
    BY <1>7, <2>1 DEF Stage
<1>9. CASE ReplanRefused(fd)
  <2>1. Attend(fd, "E") /\ Respond(fd, "A", <<>>) /\ Head(pedidos[fd]).etapa = "T"
    BY <1>9, Zenon DEF ReplanRefused, NodeFailed
  <2>2. Head(pedidos[fd]).op = "E"
    BY <1>1, <2>1
  <2>3. AnswersAsk(fd, "A", <<>>)
    BY <2>1, <2>2 DEF AnswersAsk, IsAsk
  <2> QED
    BY <2>3
<1>10. CASE ProcessLocalReduction(fd)
  <2>1. Attend(fd, "L") /\ \E data : Respond(fd, "L", data)
    BY <1>10, Zenon DEF ProcessLocalReduction
  <2> QED
    BY <1>7, <2>1 DEF Stage
<1>11. CASE ProcessGlobalReduction(fd)
  <2>1. Attend(fd, "G") /\ \E data : Respond(fd, "G", data)
    BY <1>11, Zenon DEF ProcessGlobalReduction
  <2> QED
    BY <1>7, <2>1 DEF Stage
<1>12. CASE ProcessFinalStore(fd)
  <2>1. Attend(fd, "S") /\ \E data : Respond(fd, "S", data)
    BY <1>12, Zenon DEF ProcessFinalStore
  <2> QED
    BY <1>7, <2>1 DEF Stage
<1> QED
  BY <1>4, <1>5, <1>6, <1>8, <1>9, <1>10, <1>11, <1>12, Zenon DEF GetMasterMessage

LEMMA YamaProto ==
    ASSUME TypeInv, LinkInv, ProtoInv, NEW fd \in FDs, GetMasterMessage(fd), UNCHANGED masterVars
    PROVE  Alone(fd) /\ ProtoInv'
<1> DEFINE ms == pedidos[fd]
           ss == salida[fd]
           ts == salida'[fd]
<1>1. /\ ms # <<>> /\ pedidos' = [pedidos EXCEPT ![fd] = Tail(ms)]
      /\ \/ salida' = salida
         \/ \E r : salida' = [salida EXCEPT ![fd] = Append(salida[fd], r)]
  BY YamaLinkShape
<1>2. /\ abiertos' = abiertos /\ salida' \in [FDs -> Seq(Reply)]
      /\ pc' = pc /\ hilos' = hilos /\ leido' = leido /\ replanification' = replanification
      /\ abortJob' = abortJob
  <2>1. \E op : Receive(fd, op)
    BY ReceivesSomething
  <2>2. Tables' /\ salida' \in [FDs -> Seq(Reply)] /\ abiertos' = abiertos
    BY TransformationTables, FileNotAvailableTables, ProcessLocalReductionTables,
       NotReadyTables, ProcessGlobalReductionTables, GlobalReductionRefusedTables,
       ProcessFinalStoreTables, ProcessOkTables, ReplanTaskTables, ReplanRefusedTables,
       AbortJobTables, QuietTables, MasterDisconnectedTables DEF GetMasterMessage
  <2> QED
    BY <2>2 DEF masterVars
<1>3. DOMAIN pedidos = FDs /\ DOMAIN salida = FDs
  BY DEF TypeInv, SocketsOK
<1>4. Alone(fd) /\ pedidos'[fd] = Tail(ms)
  BY <1>1, <1>2, <1>3 DEF Alone
<1>5. /\ ms \in Seq(Message) /\ ss \in Seq(Reply) /\ InTurn(ss)
      /\ Dialogue(ms, ss, pc[fd], hilos[fd], leido[fd], replanification[fd] \/ abortJob[fd])
  BY AtHand
<1>6. /\ ts = ss \/ \E op, data : AnswersAsk(fd, op, data) /\ ts = Append(ss, [op |-> op, data |-> data])
      /\ pc[fd] = "off" => ts = <<>> /\ fd \notin abiertos
  <2>1. pc[fd] = "off" => fd \notin abiertos /\ ss = <<>>
    BY DEF ProtoInv, Proto
  <2>2. ASSUME NEW op, NEW data, AnswersAsk(fd, op, data)
        PROVE  IF fd \in abiertos THEN ts = Append(ss, [op |-> op, data |-> data]) ELSE ts = ss
    BY <1>3, <2>2 DEF AnswersAsk, Respond
  <2>3. CASE salida' = salida
    BY <2>1, <2>3
  <2>4. CASE \E op, data : AnswersAsk(fd, op, data)
    BY <2>1, <2>2, <2>4, Zenon
  <2> QED
    BY <2>3, <2>4, HandlerAnswers
<1>7. Answered(ms, ss, ts) /\ InTurn(ts)
  <2>1. CASE ts = ss
    BY <1>5, <2>1 DEF Answered
  <2>2. ASSUME NEW op, NEW data, AnswersAsk(fd, op, data), ts = Append(ss, [op |-> op, data |-> data])
        PROVE  Answered(ms, ss, ts) /\ InTurn(ts)
    <3> DEFINE r == [op |-> op, data |-> data]
    <3>1. ts \in Seq(Reply)
      BY <1>2
    <3>2. /\ DOMAIN ts = 1 .. Len(ss) + 1 /\ Len(ss) \in Nat /\ DOMAIN ss = 1 .. Len(ss)
          /\ ts[Len(ss) + 1] = r /\ \A k \in 1 .. Len(ss) : ts[k] = ss[k]
      BY <1>5, <2>2
    <3>3. r \in Reply
      BY <3>1, <3>2
    <3>4. IsAsk(Head(ms)) /\ (Head(ms).op = "L" => r.op = "L") /\ (r.op \in {"T", "R"} => ByNode(r.data))
      BY <2>2 DEF AnswersAsk
    <3> HIDE DEF r, ts, ss, ms
    <3>5. Answered(ms, ss, ts)
      BY <2>2, <3>3, <3>4, Zenon DEF Answered, r
    <3>6. \A k \in DOMAIN ts : k = Len(ss) + 1 \/ (k \in DOMAIN ss /\ ts[k] = ss[k])
      BY <3>2
    <3>7. InTurn(ts)
      BY <1>5, <3>2, <3>4, <3>6 DEF InTurn
    <3> QED
      BY <3>5, <3>7
  <2> QED
    BY <1>6, <2>1, <2>2
<1>8. Dialogue(Tail(ms), ts, pc[fd], hilos[fd], leido[fd], replanification[fd] \/ abortJob[fd])
  <2> HIDE DEF ms, ss, ts
  <2> DEFINE again == replanification[fd] \/ abortJob[fd]
  <2>1. Dialogue(ms, ss, pc[fd], hilos[fd], leido[fd], again)
    BY <1>5
  <2> HIDE DEF again
  <2>2. Dialogue(Tail(ms), ts, pc[fd], hilos[fd], leido[fd], again)
    BY <1>1, <1>5, <1>7, <2>1, AnswerDialogue
  <2> QED
    BY <2>2 DEF again
<1>9. Proto(fd)'
  BY <1>2, <1>4, <1>6, <1>7, <1>8 DEF Proto
<1> QED
  BY <1>4, <1>9, AllProto

LEMMA ConnectProto ==
    ASSUME TypeInv, LinkInv, ProtoInv, NEW fd \in FDs, MasterConnects(fd)
    PROVE  ProtoInv'
<1>1. /\ fd \notin conectados /\ pc' = [pc EXCEPT ![fd] = "conectado"]
      /\ abiertos' = abiertos \cup {fd} /\ pedidos' = pedidos /\ salida' = salida
      /\ hilos' = hilos /\ leido' = leido /\ replanification' = replanification
      /\ abortJob' = abortJob
  BY Zenon DEF MasterConnects, AcceptMasterConnection, GoTo
<1>2. DOMAIN pc = FDs
  BY DEF TypeInv, MasterOK
<1>3. Alone(fd) /\ pc'[fd] = "conectado"
  BY <1>1, <1>2 DEF Alone
<1>4. salida[fd] = <<>> /\ pedidos[fd] = <<>>
  BY <1>1 DEF LinkInv, Link, ProtoInv, Proto
<1>5. Quiet(pedidos'[fd], salida'[fd]) /\ InTurn(salida'[fd])
  BY <1>1, <1>4 DEF Quiet, NoAsk, InTurn
<1>6. Dialogue(pedidos'[fd], salida'[fd], pc'[fd], hilos'[fd], leido'[fd],
               replanification'[fd] \/ abortJob'[fd])
  BY <1>3, <1>5 DEF Dialogue
<1>7. Proto(fd)'
  BY <1>3, <1>5, <1>6 DEF Proto
<1> QED
  BY <1>3, <1>7, AllProto

LEMMA SameProto ==
    ASSUME ProtoInv, UNCHANGED <<sockets, pc, hilos, leido, replanification, abortJob>>
    PROVE  ProtoInv'
<1>1. ASSUME NEW fd \in FDs PROVE Proto(fd)'
  BY Zenon DEF ProtoInv, Proto, sockets
<1> QED
  BY <1>1 DEF ProtoInv

LEMMA InitProto == Init => ProtoInv
<1> SUFFICES ASSUME Init, NEW fd \in FDs PROVE Proto(fd)
  BY DEF ProtoInv
<1>1. pc[fd] = "off" /\ salida[fd] = <<>> /\ fd \notin abiertos
  BY DEF Init, SocketsInit, MasterInit
<1>2. InTurn(salida[fd])
  BY <1>1 DEF InTurn
<1>3. Dialogue(pedidos[fd], salida[fd], pc[fd], hilos[fd], leido[fd],
               replanification[fd] \/ abortJob[fd])
  BY <1>1 DEF Dialogue
<1> QED
  BY <1>1, <1>2, <1>3 DEF Proto

LEMMA NextProto == TypeInv /\ LinkInv /\ ProtoInv /\ [Next]_vars => ProtoInv'
<1> SUFFICES ASSUME TypeInv, LinkInv, ProtoInv, [Next]_vars PROVE ProtoInv'
  OBVIOUS
<1>1. ASSUME NEW fd \in FDs, MasterConnects(fd) PROVE ProtoInv'
  BY <1>1, ConnectProto
<1>2. ASSUME NEW fd \in FDs, YamaStep(fd) PROVE ProtoInv'
  BY <1>2, YamaProto DEF YamaStep
<1>3. ASSUME NEW fd \in FDs, MasterWorks(fd) \/ MasterFails(fd) PROVE ProtoInv'
  BY <1>3, MasterProto DEF MasterWorks, MasterFails
<1>4. ASSUME NEW c \in Configs, ReloadConfig(c), UNCHANGED masterVars PROVE ProtoInv'
  BY <1>4, SameProto DEF ReloadConfig, masterVars
<1>5. CASE UNCHANGED vars
  BY <1>5, SameProto DEF vars, masterVars
<1> QED
  BY <1>1, <1>2, <1>3, <1>4, <1>5 DEF Next

-----------------------------------------------------------------------------
(* The rows behind the entries planned for the local reductions: as long   *)
(* as the job of an entry transforms, a row of each of its blocks on its   *)
(* node is in process or has ended well.                                   *)
OwnedBy(j, e) == j.id = e.job /\ j.master = e.master
HasOwner(js, e) == \E k \in DOMAIN js : OwnedBy(js[k], e)
Transforming(js, e) ==
    \E k \in DOMAIN js : OwnedBy(js[k], e) /\ js[k].estado = "P" /\ js[k].etapa = "T"
RowFor(r, fd, n, b) == r.op = "T" /\ r.master = fd /\ r.node = n /\ r.block = b
Live(r) == r.status \in {"P", "F"}
Covers(r, e, b) == RowFor(r, e.master, e.nodo, b) /\ r.job = e.job /\ Live(r)
Covered(s, e) == \A k \in DOMAIN e.tmps : \E i \in DOMAIN s : Covers(s[i], e, e.tmps[k])
EntriesOwned ==
    \A k \in DOMAIN tabla_T_planificados : HasOwner(tabla_jobs, tabla_T_planificados[k])
EntriesCovered ==
    \A k \in DOMAIN tabla_T_planificados :
       Transforming(tabla_jobs, tabla_T_planificados[k])
         => Covered(tabla_estados, tabla_T_planificados[k])
AllEnded(data, s, fd) ==
    \A k \in DOMAIN data : \A j \in DOMAIN data[k].tmps :
       \E i \in DOMAIN s : RowFor(s[i], fd, data[k].nodo, data[k].tmps[j]) /\ s[i].status = "F"
RepliesHaveRows ==
    \A fd \in FDs : \A k \in DOMAIN salida[fd] :
       salida[fd][k].op = "L" => AllEnded(salida[fd][k].data, tabla_estados, fd)

(* What a step leaves of the rows, of the jobs and of an entry.            *)
RowKept(r, q) ==
    /\ q.job = r.job /\ q.master = r.master /\ q.node = r.node /\ q.block = r.block
    /\ q.op = r.op /\ (r.status = "F" => q.status = "F")
RowsStay(s, w) == \A i \in DOMAIN s : i \in DOMAIN w /\ RowKept(s[i], w[i])
JobsOn(js, ks) ==
    \A e : HasOwner(js, e) =>
       HasOwner(ks, e) /\ (Transforming(ks, e) => Transforming(js, e))
Spared(s, w, ks, e) ==
    Transforming(ks, e) => \A i \in DOMAIN s : \A b : Covers(s[i], e, b) => Live(w[i])

LEMMA SparedCovered ==
    ASSUME NEW s, NEW w, NEW ks, NEW e, RowsStay(s, w), Spared(s, w, ks, e),
           Transforming(ks, e), Covered(s, e)
    PROVE  Covered(w, e)
<1> SUFFICES ASSUME NEW k \in DOMAIN e.tmps
             PROVE  \E i \in DOMAIN w : Covers(w[i], e, e.tmps[k])
  BY DEF Covered
<1>1. PICK i \in DOMAIN s : Covers(s[i], e, e.tmps[k])
  BY DEF Covered
<1>2. i \in DOMAIN w /\ RowKept(s[i], w[i]) /\ Live(w[i])
  BY <1>1 DEF RowsStay, Spared
<1>3. Covers(w[i], e, e.tmps[k])
  BY <1>1, <1>2 DEF Covers, RowFor, RowKept
<1> QED
  BY <1>2, <1>3

LEMMA EndedStays ==
    ASSUME NEW s, NEW w, RowsStay(s, w), NEW data, NEW fd, AllEnded(data, s, fd)
    PROVE  AllEnded(data, w, fd)
<1> SUFFICES ASSUME NEW k \in DOMAIN data, NEW j \in DOMAIN data[k].tmps
             PROVE  \E i \in DOMAIN w :
                       RowFor(w[i], fd, data[k].nodo, data[k].tmps[j]) /\ w[i].status = "F"
  BY DEF AllEnded
<1>1. PICK i \in DOMAIN s : RowFor(s[i], fd, data[k].nodo, data[k].tmps[j]) /\ s[i].status = "F"
  BY DEF AllEnded
<1>2. i \in DOMAIN w /\ RowKept(s[i], w[i])
  BY DEF RowsStay
<1> QED
  BY <1>1, <1>2 DEF RowFor, RowKept

(* What an entry of the new list is.                                       *)
Old(e) == /\ \E i \in DOMAIN tabla_T_planificados : e = tabla_T_planificados[i]
          /\ Spared(tabla_estados, tabla_estados', tabla_jobs', e)
Fresh(e) == HasOwner(tabla_jobs', e) /\ Covered(tabla_estados', e)
LEMMA EntriesThen ==
    ASSUME EntriesOwned, EntriesCovered, RowsStay(tabla_estados, tabla_estados'),
           JobsOn(tabla_jobs, tabla_jobs'),
           \A k \in DOMAIN tabla_T_planificados' :
              Old(tabla_T_planificados'[k]) \/ Fresh(tabla_T_planificados'[k])
    PROVE  EntriesOwned' /\ EntriesCovered'
<1>1. ASSUME NEW k \in DOMAIN tabla_T_planificados'
      PROVE  LET e == tabla_T_planificados'[k]
             IN  /\ HasOwner(tabla_jobs', e)
                 /\ Transforming(tabla_jobs', e) => Covered(tabla_estados', e)
  <2> DEFINE e == tabla_T_planificados'[k]
  <2> HIDE DEF e
  <2>1. Old(e) \/ Fresh(e)
    BY <1>1 DEF e
  <2>2. CASE Fresh(e)
    BY <2>2 DEF Fresh, e
  <2>3. CASE Old(e)
    <3>1. HasOwner(tabla_jobs, e) /\ (Transforming(tabla_jobs, e) => Covered(tabla_estados, e))
      BY <2>3 DEF Old, EntriesOwned, EntriesCovered
    <3>2. HasOwner(tabla_jobs', e) /\ (Transforming(tabla_jobs', e) => Transforming(tabla_jobs, e))
      BY <3>1 DEF JobsOn
    <3>3. Spared(tabla_estados, tabla_estados', tabla_jobs', e)
      BY <2>3 DEF Old
    <3> QED
      BY <3>1, <3>2, <3>3, SparedCovered DEF e
  <2> QED
    BY <2>1, <2>2, <2>3
<1> QED
  BY <1>1 DEF EntriesOwned, EntriesCovered

(* Entries that stay, of which no row is lost.                             *)
NoneLost(s, w) == \A i \in DOMAIN s : s[i].op = "T" /\ Live(s[i]) => Live(w[i])
LEMMA NoneLostSpares ==
    ASSUME NEW s, NEW w, NoneLost(s, w), NEW ks, NEW e
    PROVE  Spared(s, w, ks, e)
BY DEF NoneLost, Spared, Covers, RowFor

Fewer(t, u) == \A k \in DOMAIN u : \E i \in DOMAIN t : u[k] = t[i]
LEMMA KeepFewer ==
    ASSUME NEW E, NEW t \in Seq(E), NEW S
    PROVE  Fewer(t, Keep(t, S))
BY KeepIs DEF Fewer

LEMMA EntriesKept ==
    ASSUME EntriesOwned, EntriesCovered, RowsStay(tabla_estados, tabla_estados'),
           NoneLost(tabla_estados, tabla_estados'), JobsOn(tabla_jobs, tabla_jobs'),
           Fewer(tabla_T_planificados, tabla_T_planificados')
    PROVE  EntriesOwned' /\ EntriesCovered'
<1>1. ASSUME NEW k \in DOMAIN tabla_T_planificados'
      PROVE  Old(tabla_T_planificados'[k])
  BY <1>1, NoneLostSpares DEF Fewer, Old
<1> QED
  BY <1>1, EntriesThen

LEMMA NothingChanges ==
    /\ \A s : RowsStay(s, s) /\ NoneLost(s, s)
    /\ \A js : JobsOn(js, js)
    /\ \A t : Fewer(t, t)
BY DEF RowsStay, RowKept, NoneLost, JobsOn, Fewer

LEMMA MoreStays ==
    ASSUME NEW s, NEW w, NEW id, NEW fd, NEW op, More(s, w, id, fd, op)
    PROVE  RowsStay(s, w) /\ NoneLost(s, w)
BY DEF More, RowsStay, RowKept, NoneLost

(* A job that is rewritten, and a new one.                                 *)
LEMMA RewrittenOn ==
    ASSUME Tables, NEW fd, NEW e, HasJob(fd, e), NEW j \in Job, SetJob(fd, e, j),
           j.id = JobOf(fd, e).id, j.master = fd, j.estado = "P" /\ j.etapa = "T" => e = "T"
    PROVE  JobsOn(tabla_jobs, tabla_jobs')
<1> DEFINE i == GetJobIndex(fd, e)
<1>1. tabla_jobs \in Seq(Job)
  BY DEF Tables
<1>2. /\ DOMAIN tabla_jobs' = DOMAIN tabla_jobs /\ i \in DOMAIN tabla_jobs
      /\ tabla_jobs'[i] = j /\ tabla_jobs[i] = JobOf(fd, e)
      /\ \A k \in DOMAIN tabla_jobs : k # i => tabla_jobs'[k] = tabla_jobs[k]
  BY <1>1, SetJobIs, JobOfIs
<1>3. JobOf(fd, e).master = fd /\ JobOf(fd, e).etapa = e /\ JobOf(fd, e).estado = "P"
  BY <1>1, JobOfIs
<1> HIDE DEF i
<1>4. \A k \in DOMAIN tabla_jobs :
         /\ tabla_jobs'[k].id = tabla_jobs[k].id /\ tabla_jobs'[k].master = tabla_jobs[k].master
         /\ tabla_jobs'[k].estado = "P" /\ tabla_jobs'[k].etapa = "T"
              => tabla_jobs[k].estado = "P" /\ tabla_jobs[k].etapa = "T"
  BY <1>2, <1>3
<1>5. ASSUME NEW x
      PROVE  /\ HasOwner(tabla_jobs, x) => HasOwner(tabla_jobs', x)
             /\ Transforming(tabla_jobs', x) => Transforming(tabla_jobs, x)
  <2>1. \A k \in DOMAIN tabla_jobs : OwnedBy(tabla_jobs'[k], x) <=> OwnedBy(tabla_jobs[k], x)
    BY <1>4 DEF OwnedBy
  <2> QED
    BY <1>2, <1>4, <2>1 DEF HasOwner, Transforming
<1> QED
  BY <1>5 DEF JobsOn

LEMMA AddedOn ==
    ASSUME TypeInv, LifeInv, NEW fd \in FDs, Greeting(fd),
           tabla_jobs' = Append(tabla_jobs, NewJob(fd))
    PROVE  JobsOn(tabla_jobs, tabla_jobs')
<1> DEFINE n == Len(tabla_jobs) + 1
           j == NewJob(fd)
<1>1. /\ tabla_jobs \in Seq(Job) /\ jobs \in Nat
      /\ DOMAIN tabla_jobs = 1 .. Len(tabla_jobs) /\ Len(tabla_jobs) \in Nat
  BY DEF TypeInv, Tables
<1>2. PICK k1 : k1 = n
  OBVIOUS
<1> HIDE DEF j
<1>3. /\ DOMAIN tabla_jobs' = DOMAIN tabla_jobs \cup {k1} /\ k1 \notin DOMAIN tabla_jobs
      /\ tabla_jobs'[k1] = j
      /\ \A k \in DOMAIN tabla_jobs : tabla_jobs'[k] = tabla_jobs[k]
  BY <1>1, <1>2 DEF j
<1>4. j.id = jobs /\ j.master = fd
  BY DEF j, NewJob
<1>5. \A k \in DOMAIN tabla_jobs : tabla_jobs[k].id # jobs \/ tabla_jobs[k].master # fd
  <2>1. \A k \in DOMAIN tabla_jobs : tabla_jobs[k] \in Job
    BY <1>1
  <2>2. \A k \in DOMAIN tabla_jobs : tabla_jobs[k].id \in Nat
    BY <2>1 DEF Job
  <2>3. \A k \in DOMAIN tabla_jobs : tabla_jobs[k].master = fd => tabla_jobs[k].id < jobs
    BY DEF LifeInv, NextIsNew
  <2> QED
    BY <1>1, <2>2, <2>3
<1>6. ASSUME NEW x, HasOwner(tabla_jobs, x)
      PROVE  /\ HasOwner(tabla_jobs', x)
             /\ Transforming(tabla_jobs', x) => Transforming(tabla_jobs, x)
  <2>1. HasOwner(tabla_jobs', x)
    BY <1>3, <1>6, Zenon DEF HasOwner
  <2>2. ~OwnedBy(tabla_jobs'[k1], x)
    BY <1>3, <1>4, <1>5, <1>6 DEF HasOwner, OwnedBy
  <2> QED
    BY <1>3, <2>1, <2>2 DEF Transforming
<1> QED
  BY <1>6 DEF JobsOn

-----------------------------------------------------------------------------
(* A handler keeps all this: what it answers to a local reduction ended.   *)
AnswersEnded(fd) ==
    \/ salida' = salida
    \/ \E op, data : Respond(fd, op, data) /\ (op = "L" => AllEnded(data, tabla_estados', fd))
KeepsRows(fd) ==
    /\ RowsStay(tabla_estados, tabla_estados') /\ EntriesOwned' /\ EntriesCovered'
    /\ AnswersEnded(fd)

LEMMA RepliesThen ==
    ASSUME TypeInv, RepliesHaveRows, NEW fd \in FDs, KeepsRows(fd)
    PROVE  RepliesHaveRows'
<1>1. ASSUME NEW e \in FDs, NEW k \in DOMAIN salida[e], salida[e][k].op = "L"
      PROVE  AllEnded(salida[e][k].data, tabla_estados', e)
  BY <1>1, EndedStays DEF RepliesHaveRows, KeepsRows
<1>2. DOMAIN salida = FDs /\ \A e \in FDs : salida[e] \in Seq(Reply)
  BY DEF TypeInv, SocketsOK
<1> SUFFICES ASSUME NEW e \in FDs, NEW k \in DOMAIN salida'[e], salida'[e][k].op = "L"
             PROVE  AllEnded(salida'[e][k].data, tabla_estados', e)
  BY DEF RepliesHaveRows
<1>3. CASE salida' = salida
  BY <1>1, <1>3
<1>4. ASSUME NEW op, NEW data, Respond(fd, op, data), op = "L" => AllEnded(data, tabla_estados', fd)
      PROVE  AllEnded(salida'[e][k].data, tabla_estados', e)
  <2> DEFINE r == [op |-> op, data |-> data]
  <2>1. \/ salida'[e] = salida[e]
        \/ e = fd /\ salida'[e] = Append(salida[e], r)
    BY <1>2, <1>4 DEF Respond
  <2>2. CASE salida'[e] = salida[e]
    BY <1>1, <2>2
  <2>3. CASE e = fd /\ salida'[e] = Append(salida[e], r)
    <3>1. \/ k \in DOMAIN salida[e] /\ salida'[e][k] = salida[e][k]
          \/ salida'[e][k] = r
      BY <1>2, <2>3
    <3>2. CASE k \in DOMAIN salida[e] /\ salida'[e][k] = salida[e][k]
      BY <1>1, <3>2
    <3>3. CASE salida'[e][k] = r
      BY <1>4, <2>3, <3>3
    <3> QED
      BY <3>1, <3>2, <3>3
  <2> QED
    BY <2>1, <2>2, <2>3
<1> QED
  BY <1>3, <1>4 DEF KeepsRows, AnswersEnded

LEMMA MarkedStays ==
    ASSUME Tables, NEW ix, NEW status \in {"F", "E"}, tabla_estados' = Marked(ix, status),
           \A i \in ix \cap DOMAIN tabla_estados : tabla_estados[i].status = "P"
    PROVE  /\ RowsStay(tabla_estados, tabla_estados')
           /\ \A i \in DOMAIN tabla_estados \ ix : tabla_estados'[i].status = tabla_estados[i].status
           /\ status = "F" \/ (\A i \in ix \cap DOMAIN tabla_estados : tabla_estados[i].op # "T")
                => NoneLost(tabla_estados, tabla_estados')
<1>1. tabla_estados \in Seq(RowsOver(KnownNodes, KnownBlocks))
  BY DEF Tables
<1>2. LET w == Marked(ix, status)
      IN  /\ DOMAIN w = DOMAIN tabla_estados
          /\ \A i \in DOMAIN w :
                /\ w[i].job = tabla_estados[i].job /\ w[i].master = tabla_estados[i].master
                /\ w[i].op = tabla_estados[i].op /\ w[i].block = tabla_estados[i].block
                /\ w[i].node = tabla_estados[i].node
                /\ w[i].status = IF i \in ix THEN status ELSE tabla_estados[i].status
  BY <1>1, MarkedIs
<1> QED
  BY <1>2 DEF RowsStay, RowKept, NoneLost, Live

(* The handlers that change nothing of this.                               *)
LEMMA QuietKeeps ==
    ASSUME EntriesOwned, EntriesCovered, NEW fd, salida' = salida,
           UNCHANGED <<tabla_jobs, tabla_estados, tabla_T_planificados>>
    PROVE  KeepsRows(fd)
BY NothingChanges, EntriesKept DEF KeepsRows, AnswersEnded

LEMMA UnansweredKeeps ==
    ASSUME TypeInv, EntriesOwned, EntriesCovered, NEW fd \in FDs,
           \/ LocalReductionNotReady(fd) \/ StageNotReady(fd)
           \/ ErrorIgnored(fd) \/ MasterReset(fd)
    PROVE  KeepsRows(fd)
<1>1. salida' = salida /\ UNCHANGED <<tabla_jobs, tabla_estados, tabla_T_planificados>>
  BY Zenon DEF LocalReductionNotReady, StageNotReady, ErrorIgnored, MasterReset, Crash,
     planificados, yamaVars
<1> QED
  BY <1>1, QuietKeeps

LEMMA RefusedFileKeeps ==
    ASSUME TypeInv, LifeInv, EntriesOwned, EntriesCovered, NEW fd \in FDs, Greeting(fd),
           FileNotAvailable(fd)
    PROVE  KeepsRows(fd)
<1>1. /\ tabla_jobs' = Append(tabla_jobs, NewJob(fd)) /\ Respond(fd, "E", <<>>)
      /\ tabla_estados' = tabla_estados /\ tabla_T_planificados' = tabla_T_planificados
  BY Zenon DEF FileNotAvailable, planificados
<1>2. JobsOn(tabla_jobs, tabla_jobs')
  BY <1>1, AddedOn
<1>3. /\ RowsStay(tabla_estados, tabla_estados') /\ NoneLost(tabla_estados, tabla_estados')
      /\ Fewer(tabla_T_planificados, tabla_T_planificados')
  BY <1>1, NothingChanges
<1> QED
  BY <1>1, <1>2, <1>3, EntriesKept DEF KeepsRows, AnswersEnded

(* A stage after the transformation.                                       *)
LEMMA AdvanceOn ==
    ASSUME Tables, NEW fd, NEW from, NEW to \in Stage \ {"T"}, HasJob(fd, from),
           SetJob(fd, from, [JobOf(fd, from) EXCEPT !.etapa = to])
    PROVE  JobsOn(tabla_jobs, tabla_jobs')
<1> DEFINE j == [JobOf(fd, from) EXCEPT !.etapa = to]
<1>1. JobOf(fd, from) \in Job /\ JobOf(fd, from).master = fd
  BY JobOfIs DEF Tables
<1>2. j \in Job /\ j.id = JobOf(fd, from).id /\ j.master = fd /\ j.etapa = to
  BY <1>1, JobRewritten
<1>3. SetJob(fd, from, j)
  OBVIOUS
<1> HIDE DEF j
<1> QED
  BY <1>2, <1>3, RewrittenOn

LEMMA LaterStagesKeep ==
    ASSUME TypeInv, EntriesOwned, EntriesCovered, NEW fd \in FDs,
           ProcessGlobalReduction(fd) \/ GlobalReductionRefused(fd) \/ ProcessFinalStore(fd)
    PROVE  KeepsRows(fd)
<1>1. Tables /\ "G" \in Stage \ {"T"} /\ "S" \in Stage \ {"T"}
  BY DEF TypeInv, Stage
<1>2. ASSUME NEW id, NEW from, NEW to, More(tabla_estados, tabla_estados', id, fd, to),
             NEW op \in {"G", "S"}, salida' = salida \/ \E data : Respond(fd, op, data),
             tabla_T_planificados' = tabla_T_planificados, JobsOn(tabla_jobs, tabla_jobs')
      PROVE  KeepsRows(fd)
  <2>1. RowsStay(tabla_estados, tabla_estados') /\ NoneLost(tabla_estados, tabla_estados')
    BY <1>2, MoreStays
  <2>2. Fewer(tabla_T_planificados, tabla_T_planificados')
    BY <1>2, NothingChanges
  <2>3. AnswersEnded(fd)
    BY <1>2 DEF AnswersEnded
  <2> QED
    BY <1>2, <2>1, <2>2, <2>3, EntriesKept DEF KeepsRows
<1>3. CASE ProcessGlobalReduction(fd)
  <2>1. /\ HasJob(fd, "L") /\ SetJob(fd, "L", [JobOf(fd, "L") EXCEPT !.etapa = "G"])
        /\ tabla_T_planificados' = tabla_T_planificados
        /\ \E data : Respond(fd, "G", data)
    BY <1>3, Zenon DEF ProcessGlobalReduction
  <2>2. More(tabla_estados, tabla_estados', JobOf(fd, "L").id, fd, "G")
    BY <1>3, ProcessGlobalReductionTables
  <2>3. JobsOn(tabla_jobs, tabla_jobs')
    BY <1>1, <2>1, AdvanceOn
  <2> QED
    BY <1>2, <2>1, <2>2, <2>3
<1>4. CASE GlobalReductionRefused(fd)
  <2>1. /\ HasJob(fd, "L") /\ SetJob(fd, "L", [JobOf(fd, "L") EXCEPT !.etapa = "G"])
        /\ tabla_T_planificados' = tabla_T_planificados /\ tabla_estados' = tabla_estados
        /\ salida' = salida
    BY <1>4, Zenon DEF GlobalReductionRefused, planificados
  <2>2. More(tabla_estados, tabla_estados', JobOf(fd, "L").id, fd, "G")
    BY <2>1, NothingMore
  <2>3. JobsOn(tabla_jobs, tabla_jobs')
    BY <1>1, <2>1, AdvanceOn
  <2> QED
    BY <1>2, <2>1, <2>2, <2>3
<1>5. CASE ProcessFinalStore(fd)
  <2>1. /\ HasJob(fd, "G") /\ SetJob(fd, "G", [JobOf(fd, "G") EXCEPT !.etapa = "S"])
        /\ tabla_T_planificados' = tabla_T_planificados
        /\ \E data : Respond(fd, "S", data)
    BY <1>5, Zenon DEF ProcessFinalStore
  <2>2. More(tabla_estados, tabla_estados', JobOf(fd, "G").id, fd, "S")
    BY <1>5, ProcessFinalStoreTables
  <2>3. JobsOn(tabla_jobs, tabla_jobs')
    BY <1>1, <2>1, AdvanceOn
  <2> QED
    BY <1>2, <2>1, <2>2, <2>3
<1> QED
  BY <1>3, <1>4, <1>5

LEMMA PlannedForAre ==
    ASSUME NEW E, NEW tabla \in Seq(E), NEW id, NEW fd
    PROVE  \A k \in DOMAIN PlannedFor(tabla, id, fd) : \E q \in DOMAIN tabla :
              /\ PlannedFor(tabla, id, fd)[k] = tabla[q]
              /\ tabla[q].job = id /\ tabla[q].master = fd
<1> DEFINE S == {i \in DOMAIN tabla : tabla[i].job = id /\ tabla[i].master = fd}
           v == Keep(tabla, S)
<1>1. PlannedFor(tabla, id, fd) = v
  BY Zenon DEF PlannedFor
<1>2. \A q \in S : tabla[q].job = id /\ tabla[q].master = fd
  OBVIOUS
<1> HIDE DEF S
<1>3. \A k \in DOMAIN v : \E q \in DOMAIN tabla \cap S : v[k] = tabla[q]
  BY KeepIs
<1> HIDE DEF v
<1>4. \A k \in DOMAIN v : \E q \in DOMAIN tabla :
         v[k] = tabla[q] /\ tabla[q].job = id /\ tabla[q].master = fd
  BY <1>2, <1>3
<1> QED
  BY <1>1, <1>4

(* The local reduction: all that the job planned has ended well.           *)
LEMMA PlannedEnded ==
    ASSUME TypeInv, EntriesCovered, NEW fd \in FDs, HasJob(fd, "T"),
           InProcess(RowsOf(JobOf(fd, "T").id, fd, "T")) = {}
    PROVE  LET planed == PlannedFor(tabla_T_planificados, JobOf(fd, "T").id, fd)
           IN  AllEnded([k \in DOMAIN planed |->
                           [nodo |-> planed[k].nodo, tmps |-> planed[k].tmps]],
                        tabla_estados, fd)
<1> DEFINE id == JobOf(fd, "T").id
           planed == PlannedFor(tabla_T_planificados, id, fd)
           data == [k \in DOMAIN planed |-> [nodo |-> planed[k].nodo, tmps |-> planed[k].tmps]]
<1>1. tabla_jobs \in Seq(Job) /\ tabla_T_planificados \in Seq(PlannedOn(KnownNodes))
  BY DEF TypeInv, Tables
<1>2. ASSUME NEW k \in DOMAIN planed, NEW j \in DOMAIN planed[k].tmps
      PROVE  \E i \in DOMAIN tabla_estados :
                /\ RowFor(tabla_estados[i], fd, planed[k].nodo, planed[k].tmps[j])
                /\ tabla_estados[i].status = "F"
  <2>1. \E q \in DOMAIN tabla_T_planificados :
           /\ planed[k] = tabla_T_planificados[q]
           /\ tabla_T_planificados[q].job = id /\ tabla_T_planificados[q].master = fd
    BY <1>1, <1>2, PlannedForAre
  <2> DEFINE e == planed[k]
  <2> HIDE DEF planed
  <2>2. PICK q \in DOMAIN tabla_T_planificados :
           e = tabla_T_planificados[q] /\ e.job = id /\ e.master = fd
    BY <2>1
  <2>3. Transforming(tabla_jobs, e)
    <3>1. /\ GetJobIndex(fd, "T") \in DOMAIN tabla_jobs
          /\ tabla_jobs[GetJobIndex(fd, "T")].id = id
          /\ tabla_jobs[GetJobIndex(fd, "T")].master = fd
          /\ tabla_jobs[GetJobIndex(fd, "T")].etapa = "T"
          /\ tabla_jobs[GetJobIndex(fd, "T")].estado = "P"
      BY <1>1, JobOfIs
    <3> HIDE DEF id
    <3> QED
      BY <2>2, <3>1 DEF Transforming, OwnedBy
  <2>4. Covered(tabla_estados, e)
    BY <2>2, <2>3 DEF EntriesCovered
  <2>5. PICK i \in DOMAIN tabla_estados : Covers(tabla_estados[i], e, e.tmps[j])
    BY <1>2, <2>4 DEF Covered
  <2>6. i \in RowsOf(id, fd, "T") /\ RowFor(tabla_estados[i], fd, e.nodo, e.tmps[j])
    BY <2>2, <2>5 DEF Covers, RowFor, RowsOf
  <2>7. tabla_estados[i].status # "P"
    BY <2>6 DEF InProcess
  <2> QED
    BY <2>5, <2>6, <2>7 DEF Covers, Live
<1> HIDE DEF planed, id
<1>3. AllEnded(data, tabla_estados, fd)
  BY <1>2 DEF AllEnded
<1> QED
  BY <1>3 DEF planed, id

LEMMA LocalReductionKeeps ==
    ASSUME TypeInv, EntriesOwned, EntriesCovered, NEW fd \in FDs, ProcessLocalReduction(fd)
    PROVE  KeepsRows(fd)
<1> DEFINE id == JobOf(fd, "T").id
           planed == PlannedFor(tabla_T_planificados, id, fd)
           data == [k \in DOMAIN planed |-> [nodo |-> planed[k].nodo, tmps |-> planed[k].tmps]]
<1>1. /\ HasJob(fd, "T") /\ InProcess(RowsOf(id, fd, "T")) = {}
      /\ SetJob(fd, "T", [JobOf(fd, "T") EXCEPT !.etapa = "L"])
      /\ \E n : tabla_T_planificados' = DeletePlaned(tabla_T_planificados, fd, n)
      /\ Respond(fd, "L", data)
  BY Zenon DEF ProcessLocalReduction, AllTransformProcesFinish
<1>2. More(tabla_estados, tabla_estados', id, fd, "L")
  BY ProcessLocalReductionTables
<1>3. AllEnded(data, tabla_estados, fd)
  BY <1>1, PlannedEnded
<1> HIDE DEF data, id
<1>4. RowsStay(tabla_estados, tabla_estados') /\ NoneLost(tabla_estados, tabla_estados')
  BY <1>2, MoreStays
<1>5. AllEnded(data, tabla_estados', fd)
  BY <1>3, <1>4, EndedStays
<1>6. JobsOn(tabla_jobs, tabla_jobs')
  BY <1>1, AdvanceOn DEF TypeInv, Stage
<1>7. Fewer(tabla_T_planificados, tabla_T_planificados')
  <2>1. tabla_T_planificados \in Seq(PlannedOn(KnownNodes))
    BY DEF TypeInv, Tables
  <2>2. \E S : tabla_T_planificados' = Keep(tabla_T_planificados, S)
    BY <1>1, Zenon DEF DeletePlaned
  <2> QED
    BY <2>1, <2>2, KeepFewer
<1>8. AnswersEnded(fd)
  BY <1>1, <1>5 DEF AnswersEnded
<1> QED
  BY <1>4, <1>6, <1>7, <1>8, EntriesKept DEF KeepsRows

(* A task that ended; a job that is aborted.                               *)
LEMMA OkKeeps ==
    ASSUME TypeInv, EntriesOwned, EntriesCovered, NEW fd \in FDs, ProcessOk(fd)
    PROVE  KeepsRows(fd)
<1> DEFINE m == Head(pedidos[fd])
           e == m.etapa
           job == JobOf(fd, e)
           done == FindInProcessTasks(job.id, fd, e, m.node, m.block)
<1>1. /\ salida' = salida /\ tabla_T_planificados' = tabla_T_planificados
      /\ \/ tabla_estados' = tabla_estados
         \/ done # {} /\ tabla_estados' = Marked({First(done)}, "F")
      /\ \/ tabla_jobs' = tabla_jobs
         \/ HasJob(fd, "S") /\ SetJob(fd, "S", [JobOf(fd, "S") EXCEPT !.estado = "F"])
  BY Zenon DEF ProcessOk, planificados
<1>2. Tables
  BY DEF TypeInv
<1>3. done \in SUBSET Nat /\ \A i \in done : tabla_estados[i].status = "P"
  BY <1>2 DEF FindInProcessTasks, InProcess, RowsOn, RowsOf, Tables
<1> HIDE DEF done
<1>4. RowsStay(tabla_estados, tabla_estados') /\ NoneLost(tabla_estados, tabla_estados')
  <2>1. CASE tabla_estados' = tabla_estados
    BY <2>1, NothingChanges
  <2>2. CASE done # {} /\ tabla_estados' = Marked({First(done)}, "F")
    <3>1. First(done) \in done
      BY <1>3, <2>2, FirstIs
    <3>2. \A i \in {First(done)} \cap DOMAIN tabla_estados : tabla_estados[i].status = "P"
      BY <1>3, <3>1
    <3> QED
      BY <1>2, <2>2, <3>2, MarkedStays
  <2> QED
    BY <1>1, <2>1, <2>2
<1>5. JobsOn(tabla_jobs, tabla_jobs')
  <2>1. CASE tabla_jobs' = tabla_jobs
    BY <2>1, NothingChanges
  <2>2. CASE HasJob(fd, "S") /\ SetJob(fd, "S", [JobOf(fd, "S") EXCEPT !.estado = "F"])
    <3> DEFINE j == [JobOf(fd, "S") EXCEPT !.estado = "F"]
    <3>1. JobOf(fd, "S") \in Job /\ JobOf(fd, "S").master = fd
      BY <1>2, <2>2, JobOfIs DEF Tables
    <3>2. /\ j \in Job /\ j.estado = "F" /\ j.id = JobOf(fd, "S").id /\ j.master = fd
          /\ SetJob(fd, "S", j)
      BY <2>2, <3>1, JobRewritten
    <3> HIDE DEF j
    <3> QED
      BY <1>2, <2>2, <3>2, RewrittenOn
  <2> QED
    BY <1>1, <2>1, <2>2
<1>6. Fewer(tabla_T_planificados, tabla_T_planificados')
  BY <1>1, NothingChanges
<1> QED
  BY <1>1, <1>4, <1>5, <1>6, EntriesKept DEF KeepsRows, AnswersEnded

LEMMA AbortKeeps ==
    ASSUME TypeInv, EntriesOwned, EntriesCovered, NEW fd \in FDs, AbortJob(fd)
    PROVE  KeepsRows(fd)
<1> DEFINE m == Head(pedidos[fd])
           e == m.etapa
           job == JobOf(fd, e)
           ix == InProcess(RowsOn(job.id, fd, e, m.node))
           j == [job EXCEPT !.estado = "E"]
<1>1. /\ e # "T" /\ HasJob(fd, e) /\ tabla_estados' = Marked(ix, "E") /\ SetJob(fd, e, j)
      /\ salida' = salida /\ tabla_T_planificados' = tabla_T_planificados
  BY Zenon DEF AbortJob, planificados
<1>2. Tables /\ job \in Job /\ job.master = fd
  BY <1>1, JobOfIs DEF TypeInv, Tables
<1>3. j \in Job /\ j.estado = "E" /\ j.id = job.id /\ j.master = fd
  BY <1>2, JobRewritten
<1>4. \A i \in ix : tabla_estados[i].status = "P" /\ tabla_estados[i].op # "T"
  BY <1>1 DEF InProcess, RowsOn, RowsOf
<1> HIDE DEF ix, j
<1>5. JobsOn(tabla_jobs, tabla_jobs')
  BY <1>1, <1>2, <1>3, RewrittenOn
<1>6. RowsStay(tabla_estados, tabla_estados') /\ NoneLost(tabla_estados, tabla_estados')
  BY <1>1, <1>2, <1>4, MarkedStays
<1>7. Fewer(tabla_T_planificados, tabla_T_planificados')
  BY <1>1, NothingChanges
<1> QED
  BY <1>1, <1>5, <1>6, <1>7, EntriesKept DEF KeepsRows, AnswersEnded

(* The master leaves: none of its entries is of a job that transforms.     *)
LEMMA DisconnectedKeeps ==
    ASSUME TypeInv, EntriesOwned, EntriesCovered, NEW fd \in FDs, MasterDisconnected(fd)
    PROVE  KeepsRows(fd)
<1> DEFINE mine == {i \in DOMAIN tabla_jobs : /\ tabla_jobs[i].master = fd
                                              /\ tabla_jobs[i].estado = "P"}
           rows == {i \in DOMAIN tabla_estados : tabla_estados[i].master = fd}
           ix == InProcess(rows)
<1>1. /\ tabla_jobs' = [i \in DOMAIN tabla_jobs |->
                          IF i \in mine THEN [tabla_jobs[i] EXCEPT !.estado = "E"]
                                        ELSE tabla_jobs[i]]
      /\ tabla_estados' = tabla_estados \/ tabla_estados' = Marked(ix, "E")
      /\ salida' = salida /\ tabla_T_planificados' = tabla_T_planificados
  BY Zenon DEF MasterDisconnected, planificados
<1>2. Tables /\ tabla_jobs \in Seq(Job)
  BY DEF TypeInv, Tables
<1>3. \A i \in DOMAIN tabla_jobs :
         tabla_jobs[i].master = fd /\ tabla_jobs[i].estado = "P" => i \in mine
  OBVIOUS
<1>4. \A i \in ix : tabla_estados[i].master = fd /\ tabla_estados[i].status = "P"
  BY DEF InProcess
<1> HIDE DEF mine, ix
<1>5. /\ DOMAIN tabla_jobs' = DOMAIN tabla_jobs
      /\ \A k \in DOMAIN tabla_jobs :
            /\ tabla_jobs'[k].id = tabla_jobs[k].id /\ tabla_jobs'[k].master = tabla_jobs[k].master
            /\ tabla_jobs'[k].etapa = tabla_jobs[k].etapa
            /\ tabla_jobs'[k].estado = "P" => tabla_jobs[k].estado = "P" /\ tabla_jobs[k].master # fd
  <2>1. ASSUME NEW k \in DOMAIN tabla_jobs
        PROVE  /\ tabla_jobs'[k].id = tabla_jobs[k].id
               /\ tabla_jobs'[k].master = tabla_jobs[k].master
               /\ tabla_jobs'[k].etapa = tabla_jobs[k].etapa
               /\ tabla_jobs'[k].estado = "P" => tabla_jobs[k].estado = "P" /\ tabla_jobs[k].master # fd
    <3>1. tabla_jobs[k] \in Job
      BY <1>2
    <3>2. CASE k \in mine
      <4>1. tabla_jobs'[k] = [tabla_jobs[k] EXCEPT !.estado = "E"]
        BY <1>1, <3>2
      <4> QED
        BY <3>1, <4>1, JobRewritten
    <3>3. CASE k \notin mine
      BY <1>1, <1>3, <3>3
    <3> QED
      BY <3>2, <3>3
  <2> QED
    BY <1>1, <2>1
<1>6. \A x : \A k \in DOMAIN tabla_jobs : OwnedBy(tabla_jobs'[k], x) <=> OwnedBy(tabla_jobs[k], x)
  BY <1>5 DEF OwnedBy
<1>7. JobsOn(tabla_jobs, tabla_jobs')
  BY <1>5, <1>6 DEF JobsOn, HasOwner, Transforming
<1>8. \A x : Transforming(tabla_jobs', x) => x.master # fd
  BY <1>5 DEF Transforming, OwnedBy
<1>9. /\ RowsStay(tabla_estados, tabla_estados')
      /\ \A i \in DOMAIN tabla_estados :
            tabla_estados[i].master # fd => tabla_estados'[i].status = tabla_estados[i].status
  <2>1. CASE tabla_estados' = tabla_estados
    BY <2>1, NothingChanges
  <2>2. CASE tabla_estados' = Marked(ix, "E")
    BY <1>2, <1>4, <2>2, MarkedStays
  <2> QED
    BY <1>1, <2>1, <2>2
<1>10. \A x : Spared(tabla_estados, tabla_estados', tabla_jobs', x)
  BY <1>8, <1>9 DEF Spared, Covers, RowFor, Live
<1>11. \A k \in DOMAIN tabla_T_planificados' : Old(tabla_T_planificados'[k])
  BY <1>1, <1>10 DEF Old
<1> QED
  BY <1>1, <1>7, <1>9, <1>11, EntriesThen DEF KeepsRows, AnswersEnded

(* A node failed: the rows that are lost are of entries that are dropped.  *)
LEMMA ElsewhereOld ==
    ASSUME Tables, NEW fd, NEW n, NEW ix,
           \A i \in ix : tabla_estados[i].master = fd /\ tabla_estados[i].node = n,
           \A i \in DOMAIN tabla_estados \ ix : tabla_estados'[i].status = tabla_estados[i].status,
           NEW k \in DOMAIN PlannedElsewhere(fd, n)
    PROVE  Old(PlannedElsewhere(fd, n)[k])
<1> DEFINE S == {i \in DOMAIN tabla_T_planificados :
                   ~(/\ tabla_T_planificados[i].master = fd
                     /\ tabla_T_planificados[i].nodo = n)}
           v == Keep(tabla_T_planificados, S)
<1>1. PlannedElsewhere(fd, n) = v
  BY Zenon DEF PlannedElsewhere
<1>2. \A q \in S : ~(tabla_T_planificados[q].master = fd /\ tabla_T_planificados[q].nodo = n)
  OBVIOUS
<1>3. tabla_T_planificados \in Seq(PlannedOn(KnownNodes))
  BY DEF Tables
<1> HIDE DEF S
<1>4. \A j \in DOMAIN v : \E q \in DOMAIN tabla_T_planificados \cap S : v[j] = tabla_T_planificados[q]
  BY <1>3, KeepIs
<1> DEFINE e == PlannedElsewhere(fd, n)[k]
<1>5. \E q \in DOMAIN tabla_T_planificados \cap S : e = tabla_T_planificados[q]
  BY <1>1, <1>4
<1> HIDE DEF v, e
<1>6. ~(e.master = fd /\ e.nodo = n)
  BY <1>2, <1>5
<1>7. Spared(tabla_estados, tabla_estados', tabla_jobs', e)
  BY <1>6 DEF Spared, Covers, RowFor, Live
<1> QED
  BY <1>5, <1>7 DEF Old, e

LEMMA ReplanRefusedKeeps ==
    ASSUME TypeInv, EntriesOwned, EntriesCovered, NEW fd \in FDs, ReplanRefused(fd)
    PROVE  KeepsRows(fd)
<1> DEFINE n == Head(pedidos[fd]).node
           job == JobOf(fd, "T")
           ix == InProcess(RowsOn(job.id, fd, "T", n))
           i == [job EXCEPT !.estado = "E"]
           j == [job EXCEPT !.estado = "E", !.replanificaciones = 2]
<1>1. /\ HasJob(fd, "T") /\ tabla_estados' = Marked(ix, "E") /\ SetJob(fd, "T", j)
      /\ tabla_T_planificados' = PlannedElsewhere(fd, n) /\ Respond(fd, "A", <<>>)
  BY Zenon DEF ReplanRefused, NodeFailed
<1>2. Tables /\ job \in Job /\ job.master = fd
  BY <1>1, JobOfIs DEF TypeInv, Tables
<1>3. i \in Job /\ i.id = job.id /\ i.master = fd /\ i.estado = "E"
  BY <1>2, JobRewritten
<1>4. j = [i EXCEPT !.replanificaciones = 2] /\ 2 \in 0 .. 2
  BY DEF i, j
<1> HIDE DEF i, j
<1>5. j \in Job /\ j.id = job.id /\ j.master = fd /\ j.estado = "E"
  BY <1>3, <1>4, JobRewritten
<1>6. \A q \in ix : /\ tabla_estados[q].status = "P"
                    /\ tabla_estados[q].master = fd /\ tabla_estados[q].node = n
  BY DEF InProcess, RowsOn, RowsOf
<1> HIDE DEF ix, n
<1>7. JobsOn(tabla_jobs, tabla_jobs')
  BY <1>1, <1>2, <1>5, RewrittenOn
<1>8. /\ RowsStay(tabla_estados, tabla_estados')
      /\ \A q \in DOMAIN tabla_estados \ ix : tabla_estados'[q].status = tabla_estados[q].status
  BY <1>1, <1>2, <1>6, MarkedStays
<1>9. \A k \in DOMAIN tabla_T_planificados' : Old(tabla_T_planificados'[k])
  BY <1>1, <1>2, <1>6, <1>8, ElsewhereOld
<1>10. AnswersEnded(fd)
  BY <1>1 DEF AnswersEnded
<1> QED
  BY <1>7, <1>8, <1>9, <1>10, EntriesThen DEF KeepsRows

(* What a request or a replanning adds to the entries has its rows.        *)
Parts(x, y, z) ==
    /\ \A i \in DOMAIN x : i \in DOMAIN z /\ z[i] = x[i]
    /\ \A k \in DOMAIN y : \E i \in DOMAIN z : z[i] = y[k]
    /\ \A i \in DOMAIN z : (\E k \in DOMAIN x : z[i] = x[k]) \/ \E k \in DOMAIN y : z[i] = y[k]
LEMMA JoinParts ==
    ASSUME NEW E, NEW x \in Seq(E), NEW y \in Seq(E)
    PROVE  Parts(x, y, x \o y)
<1> DEFINE z == x \o y
<1>1. Chain(x, y, z)
  BY ConcatIs
<1> HIDE DEF z
<1>2. \A i \in DOMAIN x : i \in DOMAIN z /\ z[i] = x[i]
  BY <1>1 DEF Chain
<1>3. ASSUME NEW k \in DOMAIN y PROVE \E i \in DOMAIN z : z[i] = y[k]
  <2>1. Len(x) + k \in DOMAIN z /\ z[Len(x) + k] = y[k]
    BY <1>1 DEF Chain
  <2> QED
    BY <2>1
<1>4. ASSUME NEW i \in DOMAIN z
      PROVE  (\E k \in DOMAIN x : z[i] = x[k]) \/ (\E k \in DOMAIN y : z[i] = y[k])
  <2>1. CASE i <= Len(x)
    BY <1>1, <2>1 DEF Chain
  <2>2. CASE ~(i <= Len(x))
    <3>1. i - Len(x) \in 1 .. Len(y) /\ i = Len(x) + (i - Len(x))
      BY <1>1, <2>2 DEF Chain
    <3>2. z[i] = y[i - Len(x)]
      BY <1>1, <3>1, Zenon DEF Chain
    <3> QED
      BY <1>1, <3>1, <3>2 DEF Chain
  <2> QED
    BY <2>1, <2>2
<1> QED
  BY <1>2, <1>3, <1>4 DEF z, Parts

(* The entries of what was planned have the rows of what was planned.      *)
LEMMA PlannedCovered ==
    ASSUME NEW tasks \in Seq(TasksOf(Node)), Single(tasks), NEW R, NEW s \in Seq(R),
           NEW id, NEW fd, NEW arch, TransformationRows(tasks, id, fd, arch) \in Seq(R),
           NEW k \in DOMAIN PlannedEntries(SortByNode(tasks), id, fd, arch)
    PROVE  LET e == PlannedEntries(SortByNode(tasks), id, fd, arch)[k]
           IN  /\ e.job = id /\ e.master = fd
               /\ Covered(s \o TransformationRows(tasks, id, fd, arch), e)
<1> DEFINE v == SortByNode(tasks)
           rows == TransformationRows(tasks, id, fd, arch)
           w == s \o rows
           e == PlannedEntries(v, id, fd, arch)[k]
<1>1. k \in DOMAIN v /\ \E q \in 1 .. Len(tasks) : v[k] = tasks[q]
  BY SortedAre, LayoutAssumption DEF SameTasks, PlannedEntries
<1>2. e.job = id /\ e.master = fd /\ e.nodo = v[k].nodo /\ e.tmps = v[k].tmps
  BY <1>1 DEF PlannedEntries
<1>3. PICK q \in DOMAIN tasks : v[k] = tasks[q]
  BY <1>1
<1>4. PICK b \in Block : tasks[q].tmps = <<b>>
  BY DEF Single
<1>5. /\ q \in DOMAIN rows /\ rows[q].job = id /\ rows[q].master = fd /\ rows[q].op = "T"
      /\ rows[q].status = "P" /\ rows[q].node = tasks[q].nodo /\ rows[q].block = tasks[q].tmps[1]
  BY RowsShape
<1>6. rows \in Seq(R)
  OBVIOUS
<1> HIDE DEF v, e, rows
<1>7. PICK i \in DOMAIN w : w[i] = rows[q]
  <2>1. Parts(s, rows, w)
    BY <1>6, JoinParts
  <2> QED
    BY <1>5, <2>1 DEF Parts
<1>8. \A j \in DOMAIN e.tmps : e.tmps[j] = b
  <2>1. e.tmps = <<b>>
    BY <1>2, <1>3, <1>4
  <2>2. DOMAIN <<b>> = {1} /\ <<b>>[1] = b
    OBVIOUS
  <2> QED
    BY <2>1, <2>2
<1>9. Covers(w[i], e, b)
  BY <1>2, <1>3, <1>4, <1>5, <1>7 DEF Covers, RowFor, Live
<1>10. Covered(w, e)
  BY <1>7, <1>8, <1>9 DEF Covered
<1> QED
  BY <1>2, <1>10 DEF e, v, rows

LEMMA RowsTyped ==
    ASSUME Tables, NEW tasks \in Seq(TasksOf(Node)), Single(tasks), NEW id \in Nat, NEW fd \in FDs,
           NEW arch, tasks # <<>> => arch \in Files
    PROVE  \E R : /\ tabla_estados \in Seq(R) /\ TransformationRows(tasks, id, fd, arch) \in Seq(R)
                  /\ \A ix : \A status \in {"P", "F", "E"} : Marked(ix, status) \in Seq(R)
<1> DEFINE I == KnownBlocks \cup Nat
           R == RowsOver(Node, I)
<1>1. KnownNodes \subseteq Node
  BY NodesAreNodes DEF Tables, KnownNodes
<1>2. Seq(RowsOver(KnownNodes, KnownBlocks)) \subseteq Seq(R)
  BY <1>1, MoreKnown
<1>3. tabla_estados \in Seq(RowsOver(KnownNodes, KnownBlocks))
  BY DEF Tables
<1>4. \A ix : \A status \in {"P", "F", "E"} :
         Marked(ix, status) \in Seq(RowsOver(KnownNodes, KnownBlocks))
  BY <1>3, MarkedIs
<1>5. \A k \in DOMAIN tasks : \E b \in Block : tasks[k].tmps = <<b>> /\ b[2] \in I
  BY DEF Single, Block
<1>6. TransformationRows(tasks, id, fd, arch) \in Seq(R)
  <2> HIDE DEF I
  <2> QED
    BY <1>5, RowsOfTasks
<1> HIDE DEF R
<1> QED
  BY <1>2, <1>3, <1>4, <1>6

LEMMA EntriesTyped ==
    ASSUME Tables, NEW tasks \in Seq(TasksOf(Node)), NEW id \in Nat, NEW fd \in FDs,
           NEW arch, tasks # <<>> => arch \in Files
    PROVE  \E E : /\ tabla_T_planificados \in Seq(E)
                  /\ \A f, n : PlannedElsewhere(f, n) \in Seq(E)
                  /\ PlannedEntries(SortByNode(tasks), id, fd, arch) \in Seq(E)
<1> DEFINE v == SortByNode(tasks)
<1>1. KnownNodes \subseteq Node
  BY NodesAreNodes DEF Tables, KnownNodes
<1>2. Seq(PlannedOn(KnownNodes)) \subseteq Seq(PlannedOn(Node))
  BY <1>1, MoreKnown
<1>3. tabla_T_planificados \in Seq(PlannedOn(KnownNodes))
  BY DEF Tables
<1>4. \A f, n : PlannedElsewhere(f, n) \in Seq(PlannedOn(KnownNodes))
  BY <1>3, PlannedElsewhereIs
<1>5. v \in Seq(TasksOf(Node)) /\ Len(v) = Len(tasks)
  BY SortedAre, LayoutAssumption DEF SameTasks
<1> HIDE DEF v
<1>6. v # <<>> => arch \in Files
  BY <1>5
<1>7. PlannedEntries(v, id, fd, arch) \in Seq(PlannedOn(Node))
  BY <1>5, <1>6, EntriesOfTasks
<1> QED
  BY <1>2, <1>3, <1>4, <1>7 DEF v

LEMMA RequestKeeps ==
    ASSUME TypeInv, LifeInv, EntriesOwned, EntriesCovered, NEW fd \in FDs, Greeting(fd),
           ProcessTransformation(fd)
    PROVE  KeepsRows(fd)
<1>1. CASE Crash
  BY <1>1, QuietKeeps DEF Crash, planificados
<1>2. ASSUME NEW arch \in Files, NEW tasks \in Seq(TasksOf(Node)), PlansRequest(fd, arch, tasks)
      PROVE  KeepsRows(fd)
  <2> DEFINE rows == TransformationRows(tasks, jobs, fd, arch)
             es == PlannedEntries(SortByNode(tasks), jobs, fd, arch)
  <2>1. /\ Single(tasks) /\ tabla_jobs' = Append(tabla_jobs, NewJob(fd))
        /\ tabla_estados' = tabla_estados \o rows
        /\ tabla_T_planificados' = tabla_T_planificados \o es
        /\ Respond(fd, "T", SortByNode(tasks))
    BY <1>2, Zenon DEF PlansRequest
  <2>2. Tables /\ jobs \in Nat
    BY DEF TypeInv, Tables
  <2>3. PICK R : tabla_estados \in Seq(R) /\ rows \in Seq(R)
    BY <2>1, <2>2, RowsTyped
  <2>4. PICK E : tabla_T_planificados \in Seq(E) /\ es \in Seq(E)
    BY <2>1, <2>2, EntriesTyped
  <2>5. JobsOn(tabla_jobs, tabla_jobs')
    BY <2>1, AddedOn
  <2>6. \A k \in DOMAIN es : /\ es[k].job = jobs /\ es[k].master = fd
                             /\ Covered(tabla_estados', es[k])
    BY <2>1, <2>3, PlannedCovered
  <2> HIDE DEF rows, es
  <2>7. RowsStay(tabla_estados, tabla_estados') /\ NoneLost(tabla_estados, tabla_estados')
    <3>1. Parts(tabla_estados, rows, tabla_estados')
      BY <2>1, <2>3, JoinParts
    <3>2. \A i \in DOMAIN tabla_estados :
             i \in DOMAIN tabla_estados' /\ tabla_estados'[i] = tabla_estados[i]
      BY <3>1 DEF Parts
    <3> QED
      BY <3>2 DEF RowsStay, RowKept, NoneLost
  <2>8. \E k \in DOMAIN tabla_jobs' : tabla_jobs'[k].id = jobs /\ tabla_jobs'[k].master = fd
    <3>1. NewJob(fd).id = jobs /\ NewJob(fd).master = fd
      BY DEF NewJob
    <3> DEFINE j == NewJob(fd)
               n == Len(tabla_jobs) + 1
    <3>2. tabla_jobs \in Seq(Job) /\ tabla_jobs' = Append(tabla_jobs, j)
      BY <2>1, <2>2 DEF Tables
    <3> HIDE DEF j
    <3>3. n \in DOMAIN tabla_jobs' /\ tabla_jobs'[n] = j
      BY <3>2
    <3> QED
      BY <3>1, <3>3 DEF j
  <2>9. \A k \in DOMAIN es : Fresh(es[k])
    BY <2>6, <2>8 DEF Fresh, HasOwner, OwnedBy
  <2>10. \A k \in DOMAIN tabla_T_planificados : Old(tabla_T_planificados[k])
    BY <2>7, NoneLostSpares DEF Old
  <2>11. \A k \in DOMAIN tabla_T_planificados' :
            \/ \E i \in DOMAIN tabla_T_planificados : tabla_T_planificados'[k] = tabla_T_planificados[i]
            \/ \E i \in DOMAIN es : tabla_T_planificados'[k] = es[i]
    <3>1. Parts(tabla_T_planificados, es, tabla_T_planificados')
      BY <2>1, <2>4, JoinParts
    <3> QED
      BY <3>1 DEF Parts
  <2>12. \A k \in DOMAIN tabla_T_planificados' :
            Old(tabla_T_planificados'[k]) \/ Fresh(tabla_T_planificados'[k])
    BY <2>9, <2>10, <2>11
  <2>13. AnswersEnded(fd)
    BY <2>1 DEF AnswersEnded
  <2> QED
    BY <2>5, <2>7, <2>12, <2>13, EntriesThen DEF KeepsRows
<1> QED
  BY <1>1, <1>2, RequestPlans

LEMMA ReplanKeeps ==
    ASSUME TypeInv, EntriesOwned, EntriesCovered, NEW fd \in FDs, ReplanTask(fd)
    PROVE  KeepsRows(fd)
<1>1. CASE Crash
  BY <1>1, QuietKeeps DEF Crash, planificados
<1>2. ASSUME NEW arch, NEW tasks \in Seq(TasksOf(Node)),
             PlansAgain(fd, Head(pedidos[fd]).node, arch, tasks)
      PROVE  KeepsRows(fd)
  <2> DEFINE n == Head(pedidos[fd]).node
             job == JobOf(fd, "T")
             id == job.id
             ix == InProcess(RowsOn(id, fd, "T", n))
             v == Marked(ix, "E")
             rows == TransformationRows(tasks, id, fd, arch)
             us == PlannedElsewhere(fd, n)
             es == PlannedEntries(SortByNode(tasks), id, fd, arch)
             j == [job EXCEPT !.replanificaciones = 1]
  <2>1. /\ Single(tasks) /\ (tasks # <<>> => arch \in Files)
        /\ SetJob(fd, "T", j) /\ tabla_estados' = v \o rows
        /\ tabla_T_planificados' = us \o es
        /\ Respond(fd, "R", SortByNode(tasks))
    BY <1>2, Zenon DEF PlansAgain
  <2>2. HasJob(fd, "T")
    BY DEF ReplanTask, NodeFailed
  <2>3. Tables /\ job \in Job /\ job.master = fd /\ id \in Nat
    BY <2>2, JobOfIs DEF TypeInv, Tables
  <2>4. j \in Job /\ j.id = id /\ j.master = fd
    <3>1. 1 \in 0 .. 2
      OBVIOUS
    <3> QED
      BY <2>3, <3>1, JobRewritten
  <2>5. PICK R : tabla_estados \in Seq(R) /\ v \in Seq(R) /\ rows \in Seq(R)
    <3> HIDE DEF ix, id
    <3> QED
      BY <2>1, <2>3, RowsTyped
  <2>6. PICK E : us \in Seq(E) /\ es \in Seq(E)
    <3> HIDE DEF id
    <3> QED
      BY <2>1, <2>3, EntriesTyped
  <2>7. \A k \in DOMAIN es : es[k].job = id /\ es[k].master = fd /\ Covered(tabla_estados', es[k])
    <3> HIDE DEF id, v
    <3> QED
      BY <2>1, <2>5, PlannedCovered
  <2>8. \A q \in ix : /\ tabla_estados[q].status = "P"
                      /\ tabla_estados[q].master = fd /\ tabla_estados[q].node = n
    BY DEF InProcess, RowsOn, RowsOf
  <2> HIDE DEF j, ix
  <2>9. JobsOn(tabla_jobs, tabla_jobs')
    BY <2>1, <2>2, <2>3, <2>4, RewrittenOn
  <2>10. /\ \A i \in DOMAIN tabla_estados : i \in DOMAIN v /\ RowKept(tabla_estados[i], v[i])
         /\ \A i \in DOMAIN tabla_estados \ ix : v[i].status = tabla_estados[i].status
    <3>1. tabla_estados \in Seq(RowsOver(KnownNodes, KnownBlocks))
      BY <2>3 DEF Tables
    <3>2. /\ DOMAIN v = DOMAIN tabla_estados
          /\ \A i \in DOMAIN v :
                /\ v[i].job = tabla_estados[i].job /\ v[i].master = tabla_estados[i].master
                /\ v[i].op = tabla_estados[i].op /\ v[i].block = tabla_estados[i].block
                /\ v[i].node = tabla_estados[i].node
                /\ v[i].status = IF i \in ix THEN "E" ELSE tabla_estados[i].status
      BY <3>1, MarkedIs
    <3> HIDE DEF v
    <3> QED
      BY <2>8, <3>2 DEF RowKept
  <2> HIDE DEF v, rows, es, us, n
  <2>11. \A i \in DOMAIN v : i \in DOMAIN tabla_estados' /\ tabla_estados'[i] = v[i]
    <3>1. Parts(v, rows, tabla_estados')
      BY <2>1, <2>5, JoinParts
    <3> QED
      BY <3>1 DEF Parts
  <2>12. /\ RowsStay(tabla_estados, tabla_estados')
         /\ \A i \in DOMAIN tabla_estados \ ix :
               tabla_estados'[i].status = tabla_estados[i].status
    BY <2>10, <2>11 DEF RowsStay
  <2>13. \A k \in DOMAIN us : Old(us[k])
    BY <2>3, <2>8, <2>12, ElsewhereOld DEF us
  <2>14. \E q \in DOMAIN tabla_jobs' : tabla_jobs'[q].id = id /\ tabla_jobs'[q].master = fd
    <3> DEFINE i == GetJobIndex(fd, "T")
    <3>1. i \in DOMAIN tabla_jobs' /\ tabla_jobs'[i] = j
      BY <2>1, <2>2, <2>3, <2>4, SetJobIs DEF Tables
    <3> HIDE DEF i
    <3> QED
      BY <2>4, <3>1
  <2> HIDE DEF id
  <2>15. \A k \in DOMAIN es : Fresh(es[k])
    BY <2>7, <2>14 DEF Fresh, HasOwner, OwnedBy
  <2>16. \A k \in DOMAIN tabla_T_planificados' :
            \/ \E i \in DOMAIN us : tabla_T_planificados'[k] = us[i]
            \/ \E i \in DOMAIN es : tabla_T_planificados'[k] = es[i]
    <3>1. Parts(us, es, tabla_T_planificados')
      BY <2>1, <2>6, JoinParts
    <3> QED
      BY <3>1 DEF Parts
  <2>17. \A k \in DOMAIN tabla_T_planificados' :
            Old(tabla_T_planificados'[k]) \/ Fresh(tabla_T_planificados'[k])
    BY <2>13, <2>15, <2>16
  <2>18. AnswersEnded(fd)
    BY <2>1 DEF AnswersEnded
  <2> QED
    BY <2>9, <2>12, <2>17, <2>18, EntriesThen DEF KeepsRows
<1> QED
  BY <1>1, <1>2, ReplanPlans

(* Every handler of YAMA keeps them.                                       *)
LEMMA YamaKeeps ==
    ASSUME TypeInv, LinkInv, LifeInv, EntriesOwned, EntriesCovered, NEW fd \in FDs,
           GetMasterMessage(fd), UNCHANGED masterVars
    PROVE  KeepsRows(fd)
<1>1. CASE ProcessTransformation(fd) \/ FileNotAvailable(fd)
  <2>1. Head(pedidos[fd]).op = "T"
    <3>1. Receive(fd, "T")
      BY <1>1, Zenon DEF ProcessTransformation, FileNotAvailable, Attend
    <3> QED
      BY <3>1 DEF Receive
  <2>2. Greeting(fd)
    BY <2>1, YamaGreets
  <2> QED
    BY <1>1, <2>2, RequestKeeps, RefusedFileKeeps
<1>2. CASE ProcessLocalReduction(fd)
  BY <1>2, LocalReductionKeeps
<1>3. CASE LocalReductionNotReady(fd) \/ StageNotReady(fd) \/ ErrorIgnored(fd) \/ MasterReset(fd)
  BY <1>3, UnansweredKeeps
<1>4. CASE ProcessGlobalReduction(fd) \/ GlobalReductionRefused(fd) \/ ProcessFinalStore(fd)
  BY <1>4, LaterStagesKeep
<1>5. CASE ProcessOk(fd)
  BY <1>5, OkKeeps
<1>6. CASE ReplanTask(fd) \/ ReplanRefused(fd)
  BY <1>6, ReplanKeeps, ReplanRefusedKeeps
<1>7. CASE AbortJob(fd) \/ MasterDisconnected(fd)
  BY <1>7, AbortKeeps, DisconnectedKeeps
<1> QED
  BY <1>1, <1>2, <1>3, <1>4, <1>5, <1>6, <1>7, Zenon DEF GetMasterMessage

(* What the masters do takes replies from the sockets, and adds none.      *)
LEMMA RepliesTaken ==
    ASSUME RepliesHaveRows, tabla_estados' = tabla_estados,
           \A fd \in FDs : Fewer(salida[fd], salida'[fd])
    PROVE  RepliesHaveRows'
<1> SUFFICES ASSUME NEW fd \in FDs, NEW k \in DOMAIN salida'[fd], salida'[fd][k].op = "L"
             PROVE  AllEnded(salida'[fd][k].data, tabla_estados', fd)
  BY DEF RepliesHaveRows
<1>1. PICK i \in DOMAIN salida[fd] : salida'[fd][k] = salida[fd][i]
  BY DEF Fewer
<1>2. AllEnded(salida[fd][i].data, tabla_estados, fd)
  BY <1>1 DEF RepliesHaveRows
<1> QED
  BY <1>1, <1>2

LEMMA MasterTakes ==
    ASSUME TypeInv, LinkInv, ProtoInv, NEW fd \in FDs, MasterStep(fd) \/ MasterFault(fd)
    PROVE  \A e \in FDs : Fewer(salida[e], salida'[e])
<1>1. Alone(fd)
  BY MasterProto
<1>2. salida[fd] \in Seq(Reply) /\ DOMAIN salida = FDs
  BY DEF TypeInv, SocketsOK
<1>3. \/ salida' = salida
      \/ salida[fd] # <<>> /\ salida' = [salida EXCEPT ![fd] = Tail(salida[fd])]
      \/ salida' = [salida EXCEPT ![fd] = <<>>]
  <2>1. ASSUME NEW ms, Exit(fd, ms)
        PROVE  salida' = [salida EXCEPT ![fd] = <<>>]
    BY <2>1, Zenon DEF Exit
  <2>2. ASSUME NEW l, StartThreads(fd, l)
        PROVE  salida' = [salida EXCEPT ![fd] = Tail(salida[fd])]
    BY <2>2, Zenon DEF StartThreads
  <2>3. CASE \E arch \in Files : SendTRequest(fd, arch)
    BY <2>3, Zenon DEF SendTRequest
  <2>4. CASE TransformationReply(fd) \/ LocalReductionReply(fd) \/ LastStagesReply(fd)
    BY <2>2, <2>4, Zenon DEF TransformationReply, LocalReductionReply, LastStagesReply
  <2>5. CASE \/ TransformationRefused(fd) \/ Kill(fd)
             \/ \E h \in hilos[fd] : FinalStoreDone(fd, h) \/ LastStagesFail(fd, h)
    BY <2>1, <2>5, Zenon DEF TransformationRefused, Kill, FinalStoreDone, LastStagesFail
  <2>6. ASSUME NEW h \in hilos[fd],
               \/ \E k \in DOMAIN h.tmps : BlockTransformed(fd, h, k)
               \/ CheckReplanification(fd, h)
               \/ LocalReductionDone(fd, h) \/ GlobalReductionDone(fd, h)
               \/ TransformationFails(fd, h) \/ LocalReductionFails(fd, h)
        PROVE  salida' = salida
    BY <2>6, Zenon DEF BlockTransformed, CheckReplanification, LocalReductionDone,
       GlobalReductionDone, TransformationFails, LocalReductionFails, sockets
  <2>7. CASE TransformationJoined(fd) \/ LocalReductionJoined(fd)
    BY <2>1, <2>7, Zenon DEF TransformationJoined, LocalReductionJoined, sockets
  <2>8. CASE MasterStep(fd)
    BY <2>3, <2>4, <2>5, <2>6, <2>7, <2>8, Zenon DEF MasterStep
  <2>9. CASE MasterFault(fd)
    BY <2>5, <2>6, <2>9, Zenon DEF MasterFault
  <2> QED
    BY <2>8, <2>9
<1>4. Fewer(salida[fd], Tail(salida[fd])) \/ salida[fd] = <<>>
  BY <1>2, TailIs DEF Fewer
<1>5. salida'[fd] = salida[fd] \/ (salida[fd] # <<>> /\ salida'[fd] = Tail(salida[fd])) \/ salida'[fd] = <<>>
  BY <1>2, <1>3
<1> SUFFICES ASSUME NEW e \in FDs PROVE Fewer(salida[e], salida'[e])
  OBVIOUS
<1> QED
  <2>1. CASE e = fd
    <3>1. Fewer(salida[fd], <<>>) /\ Fewer(salida[fd], salida[fd])
      BY NothingChanges DEF Fewer
    <3>2. salida[fd] = <<>> => salida'[fd] \in {salida[fd], <<>>}
      BY <1>5
    <3> QED
      BY <1>4, <1>5, <2>1, <3>1, <3>2
  <2>2. CASE e # fd
    BY <1>1, <2>2, NothingChanges DEF Alone
  <2> QED
    BY <2>1, <2>2

RowsInv == EntriesOwned /\ EntriesCovered /\ RepliesHaveRows

LEMMA InitRows == Init => RowsInv
BY DEF Init, YamaInit, SocketsInit, RowsInv, EntriesOwned, EntriesCovered, RepliesHaveRows

LEMMA SameRows ==
    ASSUME RowsInv, \A fd \in FDs : Fewer(salida[fd], salida'[fd]),
           UNCHANGED <<tabla_jobs, tabla_estados, tabla_T_planificados>>
    PROVE  RowsInv'
<1>1. EntriesOwned' /\ EntriesCovered'
  BY DEF RowsInv, EntriesOwned, EntriesCovered
<1>2. RepliesHaveRows'
  BY RepliesTaken DEF RowsInv
<1> QED
  BY <1>1, <1>2 DEF RowsInv

LEMMA NextRows ==
    TypeInv /\ LinkInv /\ LifeInv /\ ProtoInv /\ RowsInv /\ [Next]_vars => RowsInv'
<1> SUFFICES ASSUME TypeInv, LinkInv, LifeInv, ProtoInv, RowsInv, [Next]_vars PROVE RowsInv'
  OBVIOUS
<1> USE DEF RowsInv
<1>1. salida' = salida /\ UNCHANGED <<tabla_jobs, tabla_estados, tabla_T_planificados>> => RowsInv'
  BY SameRows, NothingChanges
<1>2. ASSUME NEW fd \in FDs, MasterConnects(fd) PROVE RowsInv'
  <2>1. salida' = salida /\ UNCHANGED <<tabla_jobs, tabla_estados, tabla_T_planificados>>
    BY <1>2, Zenon DEF MasterConnects, AcceptMasterConnection, planificados
  <2> QED
    BY <1>1, <2>1
<1>3. ASSUME NEW fd \in FDs, YamaStep(fd) PROVE RowsInv'
  <2>1. KeepsRows(fd)
    BY <1>3, YamaKeeps DEF YamaStep
  <2> QED
    BY <2>1, RepliesThen DEF KeepsRows
<1>4. ASSUME NEW fd \in FDs, MasterWorks(fd) \/ MasterFails(fd) PROVE RowsInv'
  <2>1. UNCHANGED <<tabla_jobs, tabla_estados, tabla_T_planificados>>
    BY <1>4, Zenon DEF MasterWorks, MasterFails, yamaVars, planificados
  <2> QED
    BY <1>4, <2>1, MasterTakes, SameRows DEF MasterWorks, MasterFails
<1>5. ASSUME NEW c \in Configs, ReloadConfig(c), UNCHANGED masterVars PROVE RowsInv'
  <2>1. salida' = salida /\ UNCHANGED <<tabla_jobs, tabla_estados, tabla_T_planificados>>
    BY <1>5, Zenon DEF ReloadConfig, planificados, sockets
  <2> QED
    BY <1>1, <2>1
<1>6. CASE UNCHANGED vars
  <2>1. salida' = salida /\ UNCHANGED <<tabla_jobs, tabla_estados, tabla_T_planificados>>
    BY <1>6, Zenon DEF vars, yamaVars, planificados, sockets
  <2> QED
    BY <1>1, <2>1
<1> QED
  BY <1>2, <1>3, <1>4, <1>5, <1>6 DEF Next

(* The threads of a local reduction are of blocks that ended on their node.*)
EndedOn(s, fd, n, b) == \E i \in DOMAIN s : RowFor(s[i], fd, n, b) /\ s[i].status = "F"

LEMMA ThreadsEnded ==
    ASSUME NEW data \in Seq(Task), NEW s, NEW fd, AllEnded(data, s, fd),
           NEW h \in ThreadsFor(data), NEW b \in ToSet(h.tmps)
    PROVE  EndedOn(s, fd, h.nodo, b)
<1> DEFINE g == Grouped(data)
<1>1. /\ Len(data) \in Nat /\ DOMAIN data = 1 .. Len(data)
      /\ \A k \in DOMAIN data : data[k] \in Task
  OBVIOUS
<1>2. \A k \in DOMAIN data : data[k].nodo \in Node /\ data[k].tmps \in Seq(Block)
  BY <1>1 DEF Task
<1>3. Node \in SUBSET Nat
  BY LayoutAssumption
<1>4. \A n, c : Has(g, DOMAIN g, n, c) <=> Has(data, DOMAIN data, n, c)
  BY <1>1, <1>2, <1>3, GroupsAre
<1>5. h \in {[nodo |-> r.nodo, tmps |-> r.tmps, estado |-> "corre"] : r \in ToSet(g)}
  BY Zenon DEF ThreadsFor
<1> HIDE DEF g
<1>6. PICK i \in DOMAIN g : h.nodo = g[i].nodo /\ h.tmps = g[i].tmps
  <2>1. ToSet(g) = {g[i] : i \in DOMAIN g}
    BY Zenon DEF ToSet
  <2> QED
    BY <1>5, <2>1
<1>7. PICK j \in DOMAIN g[i].tmps : b = g[i].tmps[j]
  <2>1. ToSet(h.tmps) = {h.tmps[q] : q \in DOMAIN h.tmps}
    BY Zenon DEF ToSet
  <2> QED
    BY <1>6, <2>1
<1>8. Has(g, DOMAIN g, h.nodo, b)
  BY <1>6, <1>7 DEF Has, In
<1>9. PICK k \in DOMAIN data : data[k].nodo = h.nodo /\ \E q \in DOMAIN data[k].tmps : data[k].tmps[q] = b
  BY <1>4, <1>8 DEF Has, In
<1> QED
  BY <1>9 DEF AllEnded, EndedOn

(* Only the answer to its request starts the local reduction of a master.  *)
LEMMA StartsReducing ==
    ASSUME TypeInv, LinkInv, ProtoInv, Next, NEW fd \in FDs, pc[fd] = "esperaL", pc'[fd] = "L"
    PROVE  LocalReductionReply(fd)
<1>2. PICK e \in FDs : \/ MasterConnects(e) \/ YamaStep(e)
                        \/ MasterWorks(e) \/ MasterFails(e)
  <2>1. ~\E c \in Configs : ReloadConfig(c) /\ UNCHANGED masterVars
    BY DEF masterVars
  <2> QED
    BY <2>1, Zenon DEF Next
<1>3. DOMAIN pc = FDs
  BY DEF TypeInv, MasterOK
<1>4. ~YamaStep(e)
  BY DEF YamaStep, masterVars
<1>5. ~MasterConnects(e)
  <2>1. MasterConnects(e) => pc' = [pc EXCEPT ![e] = "conectado"]
    BY Zenon DEF MasterConnects, GoTo
  <2> QED
    BY <1>3, <2>1
<1>6. e = fd
  <2>1. MasterStep(e) \/ MasterFault(e)
    BY <1>2, <1>4, <1>5 DEF MasterWorks, MasterFails
  <2>2. Alone(e)
    BY <2>1, MasterProto
  <2> QED
    BY <2>2 DEF Alone
<1>7. \A ms : ~Exit(fd, ms)
  <2>1. \A ms : Exit(fd, ms) => pc' = [pc EXCEPT ![fd] = "off"]
    BY Zenon DEF Exit, GoTo
  <2> QED
    BY <1>3, <2>1
<1>8. ~MasterFault(fd)
  BY <1>7 DEF MasterFault, TransformationFails, LocalReductionFails, LastStagesFail, Kill
<1>9. MasterStep(fd)
  BY <1>2, <1>4, <1>5, <1>6, <1>8 DEF MasterWorks, MasterFails
<1> QED
  BY <1>9 DEF MasterStep, SendTRequest, TransformationReply, TransformationRefused,
     BlockTransformed, CheckReplanification, LocalReductionDone, GlobalReductionDone,
     FinalStoreDone, TransformationJoined, LocalReductionJoined, LastStagesReply

LEMMA ReducingEnded ==
    ASSUME TypeInv, LinkInv, ProtoInv, RowsInv, Next,
           NEW fd \in FDs, pc[fd] = "esperaL", pc'[fd] = "L",
           NEW h \in hilos'[fd], NEW b \in ToSet(h.tmps)
    PROVE  EndedOn(tabla_estados, fd, h.nodo, b)
<1> DEFINE r == Head(salida[fd])
<1>1. salida[fd] # <<>> /\ hilos' = [hilos EXCEPT ![fd] = ThreadsFor(r.data)]
  BY StartsReducing, Zenon DEF LocalReductionReply, StartThreads
<1>2. DOMAIN hilos = FDs
  BY DEF TypeInv, MasterOK
<1>3. salida[fd] \in Seq(Reply) /\ OnlyL(pedidos[fd], salida[fd])
  BY AtHand DEF Dialogue
<1>4. r \in Reply /\ r.data \in Seq(Task)
  BY <1>1, AtHand, RestInTurn
<1>5. 1 \in DOMAIN salida[fd] /\ r = salida[fd][1]
  BY <1>1, <1>3, TailIs
<1>6. r.op = "L"
  BY <1>3, <1>5 DEF OnlyL
<1>7. AllEnded(r.data, tabla_estados, fd)
  BY <1>5, <1>6 DEF RowsInv, RepliesHaveRows
<1>8. h \in ThreadsFor(r.data)
  BY <1>1, <1>2
<1> HIDE DEF r
<1> QED
  BY <1>4, <1>7, <1>8, ThreadsEnded

(* A master starts the local reduction on a node only over temporaries     *)
(* whose transformation ended well on that node, after the last failure,   *)
(* whatever tasks and masters fail, however the jobs overlap and whatever  *)
(* order YAMA serves the messages of the masters in.                       *)
THEOREM ReducesTransformed == Spec => ReducesWhatWasTransformed
<1> DEFINE Inv == TypeInv /\ LinkInv /\ LifeInv /\ ProtoInv /\ RowsInv
           A == \A fd \in FDs : pc[fd] = "esperaL" /\ pc'[fd] = "L" =>
                   \A h \in hilos'[fd] : \A b \in ToSet(h.tmps) :
                      \E i \in RowIx : /\ tabla_estados[i].master = fd
                                       /\ tabla_estados[i].node = h.nodo
                                       /\ tabla_estados[i].block = b
                                       /\ tabla_estados[i].op = "T"
                                       /\ tabla_estados[i].status = "F"
<1>1. Init => Inv
  BY InitTypes, InitLinks, InitLife, InitProto, InitRows
<1>2. Inv /\ [Next]_vars => Inv'
  BY NextTypes, NextLinks, NextLife, NextProto, NextRows
<1>3. Inv /\ [Next]_vars => [A]_vars
  <2>1. ASSUME Inv, Next PROVE A
    BY <2>1, ReducingEnded DEF EndedOn, RowFor, RowIx
  <2> QED
    BY <2>1
<1>4. Spec => []Inv
  <2> HIDE DEF Inv
  <2> QED
    BY <1>1, <1>2, PTL DEF Spec
<1> QED
  BY <1>3, <1>4, PTL DEF Spec, ReducesWhatWasTransformed

-----------------------------------------------------------------------------
(* The jobs, whatever fails: what a message makes of the jobs of its       *)
(* master.                                                                 *)
Rewrites(fd, e, j) ==
    HasJob(fd, e) /\ SetJob(fd, e, j) /\ j.id = JobOf(fd, e).id /\ j.master = fd
Follows(m, j, k) ==
    \/ /\ m.op \in {"L", "G", "S"} /\ k.estado = "P" /\ k.etapa = m.op
       /\ k.replanificaciones = j.replanificaciones
    \/ /\ m.op \in {"O", "E"} /\ m.etapa = j.etapa /\ k.estado # "P" /\ k.etapa = j.etapa
       /\ m.op = "O" => m.etapa = "S"
       /\ k.replanificaciones >= j.replanificaciones
    \/ /\ m.op = "E" /\ m.etapa = "T" /\ j.etapa = "T" /\ j.replanificaciones # 1
       /\ k.estado = "P" /\ k.etapa = "T" /\ k.replanificaciones = 1
IsFail(m) == m.op = "E" /\ m.etapa = "T"
AllStopped(fd) ==
    /\ DOMAIN tabla_jobs' = DOMAIN tabla_jobs
    /\ \A i \in DOMAIN tabla_jobs :
          /\ tabla_jobs'[i].id = tabla_jobs[i].id
          /\ tabla_jobs'[i].master = tabla_jobs[i].master
          /\ tabla_jobs'[i].replanificaciones = tabla_jobs[i].replanificaciones
          /\ tabla_jobs'[i].etapa = tabla_jobs[i].etapa
          /\ tabla_jobs[i].master # fd => tabla_jobs'[i] = tabla_jobs[i]
          /\ tabla_jobs[i].master = fd => tabla_jobs'[i].estado # "P"
          /\ tabla_jobs'[i].estado = "P" => tabla_jobs[i].estado = "P"
JobsDo(fd, m) ==
    \/ m.op = "T" /\ tabla_jobs' = Append(tabla_jobs, NewJob(fd)) /\ conectados' = conectados
    \/ /\ tabla_jobs' = tabla_jobs /\ conectados' = conectados /\ m.op \notin {"FIN", "RST"}
       /\ IsFail(m) /\ vivo' = "up" => ~HasJob(fd, "T")
    \/ /\ \E e \in Stage, j \in Job : Rewrites(fd, e, j) /\ Follows(m, JobOf(fd, e), j)
       /\ conectados' = conectados
    \/ m.op = "FIN" /\ AllStopped(fd) /\ conectados' = conectados \ {fd}
    \/ m.op = "RST" /\ tabla_jobs' = tabla_jobs /\ conectados' = conectados \ {fd}

LEMMA RewritesIs ==
    ASSUME Tables, NEW fd, NEW e \in Stage, NEW j \in Job, Rewrites(fd, e, j), NEW m,
           Follows(m, JobOf(fd, e), j), conectados' = conectados
    PROVE  JobsDo(fd, m)
BY Zenon DEF JobsDo

LEMMA AdvancesDo ==
    ASSUME Tables, NEW fd, NEW from \in Stage, NEW to \in {"L", "G", "S"}, MovesJob(fd, from, to),
           NEW m, m.op = to, conectados' = conectados
    PROVE  JobsDo(fd, m)
<1>1. tabla_jobs \in Seq(Job) /\ HasJob(fd, from) /\ to \in Stage
  BY DEF Tables, MovesJob, Stage
<1>2. JobOf(fd, from) \in Job /\ JobOf(fd, from).master = fd /\ JobOf(fd, from).estado = "P"
  BY <1>1, JobOfIs
<1> DEFINE k == JobOf(fd, from)
           j == [k EXCEPT !.etapa = to]
<1>3. /\ j \in Job /\ j.id = k.id /\ j.master = fd /\ j.estado = "P" /\ j.etapa = to
      /\ j.replanificaciones = k.replanificaciones
  <2> HIDE DEF k
  <2> QED
    BY <1>1, <1>2, JobRewritten DEF k
<1>4. SetJob(fd, from, j)
  BY DEF MovesJob
<1> HIDE DEF j
<1>5. Rewrites(fd, from, j) /\ Follows(m, k, j)
  BY <1>1, <1>3, <1>4 DEF Rewrites, Follows
<1> QED
  BY <1>3, <1>5, RewritesIs

LEMMA StopsDo ==
    ASSUME Tables, NEW fd, NEW e \in Stage, HasJob(fd, e), NEW j \in Job, SetJob(fd, e, j),
           NEW k, k = JobOf(fd, e),
           j.id = k.id, j.master = fd, NEW m, Follows(m, k, j), conectados' = conectados
    PROVE  JobsDo(fd, m)
BY RewritesIs DEF Rewrites

LEMMA OkDoesJobs ==
    ASSUME Tables, NEW fd \in FDs, ProcessOk(fd)
    PROVE  JobsDo(fd, Head(pedidos[fd]))
<1> DEFINE m == Head(pedidos[fd])
           k == JobOf(fd, "S")
           j == [k EXCEPT !.estado = "F"]
<1>1. m.op = "O" /\ conectados' = conectados
  BY Zenon DEF ProcessOk, Attend, Receive
<1>2. \/ tabla_jobs' = tabla_jobs
      \/ m.etapa = "S" /\ HasJob(fd, "S") /\ SetJob(fd, "S", j)
  BY Zenon DEF ProcessOk
<1>3. CASE tabla_jobs' = tabla_jobs
  BY <1>1, <1>3 DEF JobsDo, IsFail
<1>4. CASE m.etapa = "S" /\ HasJob(fd, "S") /\ SetJob(fd, "S", j)
  <2>1. tabla_jobs \in Seq(Job) /\ "S" \in Stage
    BY DEF Tables, Stage
  <2>2. k \in Job /\ k.master = fd /\ k.etapa = "S"
    BY <1>4, <2>1, JobOfIs
  <2>3. /\ j \in Job /\ j.id = k.id /\ j.master = fd /\ j.estado = "F" /\ j.etapa = "S"
        /\ j.replanificaciones = k.replanificaciones
    <3> HIDE DEF k
    <3> QED
      BY <2>2, JobRewritten
  <2>4. k.replanificaciones \in Nat
    BY <2>2 DEF Job
  <2>5. SetJob(fd, "S", j)
    BY <1>4
  <2> HIDE DEF j, k, m
  <2>6. Follows(m, k, j)
    BY <1>1, <1>4, <2>2, <2>3, <2>4 DEF Follows
  <2>7. k = JobOf(fd, "S")
    BY DEF k
  <2>8. JobsDo(fd, m)
    BY <1>1, <1>4, <2>1, <2>3, <2>5, <2>6, <2>7, StopsDo
  <2> QED
    BY <2>8 DEF m
<1> QED
  BY <1>2, <1>3, <1>4

LEMMA AbortDoesJobs ==
    ASSUME TypeInv, NEW fd \in FDs, AbortJob(fd)
    PROVE  JobsDo(fd, Head(pedidos[fd]))
<1> DEFINE m == Head(pedidos[fd])
           e == m.etapa
           k == JobOf(fd, e)
           j == [k EXCEPT !.estado = "E"]
<1>1. /\ m.op = "E" /\ conectados' = conectados /\ HasJob(fd, e) /\ SetJob(fd, e, j)
      /\ pedidos[fd] # <<>>
  BY Zenon DEF AbortJob, Attend, Receive
<1>2. Tables /\ tabla_jobs \in Seq(Job)
  BY DEF TypeInv, Tables
<1>3. m \in Message
  BY <1>1 DEF TypeInv, SocketsOK
<1>4. e \in Stage
  BY <1>1, <1>3, MessageIs DEF TypeInv
<1>5. k \in Job /\ k.master = fd /\ k.etapa = e
  BY <1>1, <1>2, JobOfIs
<1>6. /\ j \in Job /\ j.id = k.id /\ j.master = fd /\ j.estado = "E" /\ j.etapa = k.etapa
      /\ j.replanificaciones = k.replanificaciones
  <2> HIDE DEF k
  <2> QED
    BY <1>5, JobRewritten
<1>7. k.replanificaciones \in Nat
  BY <1>5 DEF Job
<1>8. SetJob(fd, e, j) /\ k = JobOf(fd, e)
  BY <1>1
<1> HIDE DEF j, k, e
<1>9. m.etapa = e
  BY DEF e
<1> HIDE DEF m
<1>10. Follows(m, k, j)
  BY <1>1, <1>5, <1>6, <1>7, <1>9 DEF Follows
<1>11. JobsDo(fd, m)
  BY <1>1, <1>2, <1>4, <1>6, <1>8, <1>10, StopsDo
<1> QED
  BY <1>11 DEF m

LEMMA JobReplanned ==
    ASSUME NEW k \in Job
    PROVE  LET j == [k EXCEPT !.replanificaciones = 1]
               d == [k EXCEPT !.estado = "E", !.replanificaciones = 2]
           IN  /\ j \in Job /\ j.id = k.id /\ j.master = k.master /\ j.estado = k.estado
               /\ j.etapa = k.etapa /\ j.replanificaciones = 1
               /\ d \in Job /\ d.id = k.id /\ d.master = k.master /\ d.estado = "E"
               /\ d.etapa = k.etapa /\ d.replanificaciones = 2
<1> DEFINE i == [k EXCEPT !.estado = "E"]
<1>1. 1 \in 0 .. 2 /\ 2 \in 0 .. 2 /\ "E" \in {"P", "F", "E"}
  OBVIOUS
<1>2. /\ [k EXCEPT !.estado = "E"] \in Job
      /\ [k EXCEPT !.estado = "E"].estado = "E"
      /\ [k EXCEPT !.estado = "E"].id = k.id
      /\ [k EXCEPT !.estado = "E"].master = k.master
      /\ [k EXCEPT !.estado = "E"].etapa = k.etapa
  BY <1>1, JobRewritten, Zenon
<1>3. [k EXCEPT !.estado = "E", !.replanificaciones = 2] = [i EXCEPT !.replanificaciones = 2]
  BY Zenon
<1>4. i \in Job /\ i.estado = "E" /\ i.id = k.id /\ i.master = k.master /\ i.etapa = k.etapa
  BY <1>2, Zenon
<1> HIDE DEF i
<1>5. ASSUME NEW j \in Job, NEW r \in 0 .. 2
      PROVE  /\ [j EXCEPT !.replanificaciones = r] \in Job
             /\ [j EXCEPT !.replanificaciones = r].replanificaciones = r
             /\ [j EXCEPT !.replanificaciones = r].id = j.id
             /\ [j EXCEPT !.replanificaciones = r].master = j.master
             /\ [j EXCEPT !.replanificaciones = r].etapa = j.etapa
             /\ [j EXCEPT !.replanificaciones = r].estado = j.estado
  BY JobRewritten, Zenon
<1>6. /\ [k EXCEPT !.replanificaciones = 1] \in Job
      /\ [k EXCEPT !.replanificaciones = 1].replanificaciones = 1
      /\ [k EXCEPT !.replanificaciones = 1].id = k.id
      /\ [k EXCEPT !.replanificaciones = 1].master = k.master
      /\ [k EXCEPT !.replanificaciones = 1].etapa = k.etapa
      /\ [k EXCEPT !.replanificaciones = 1].estado = k.estado
  BY <1>1, <1>5, Zenon
<1>7. /\ [i EXCEPT !.replanificaciones = 2] \in Job
      /\ [i EXCEPT !.replanificaciones = 2].replanificaciones = 2
      /\ [i EXCEPT !.replanificaciones = 2].id = i.id
      /\ [i EXCEPT !.replanificaciones = 2].master = i.master
      /\ [i EXCEPT !.replanificaciones = 2].etapa = i.etapa
      /\ [i EXCEPT !.replanificaciones = 2].estado = i.estado
  BY <1>1, <1>4, <1>5, Zenon
<1> QED
  BY <1>3, <1>4, <1>6, <1>7, Zenon

LEMMA ReplanDoesJobs ==
    ASSUME TypeInv, NEW fd \in FDs, ReplanTask(fd) \/ ReplanRefused(fd)
    PROVE  JobsDo(fd, Head(pedidos[fd]))
<1> DEFINE m == Head(pedidos[fd])
           k == JobOf(fd, "T")
           j == [k EXCEPT !.replanificaciones = 1]
           d == [k EXCEPT !.estado = "E", !.replanificaciones = 2]
<1>1. /\ m.op = "E" /\ m.etapa = "T" /\ HasJob(fd, "T")
      /\ \/ Crash
         \/ k.replanificaciones # 1 /\ SetJob(fd, "T", j) /\ conectados' = conectados
         \/ SetJob(fd, "T", d) /\ conectados' = conectados
  BY Zenon DEF ReplanTask, ReplanRefused, NodeFailed, Attend, Receive
<1>2. Tables /\ tabla_jobs \in Seq(Job) /\ "T" \in Stage
  BY DEF TypeInv, Tables, Stage
<1>3. k \in Job /\ k.master = fd /\ k.etapa = "T" /\ k.estado = "P"
  BY <1>1, <1>2, JobOfIs
<1>4. /\ j \in Job /\ j.id = k.id /\ j.master = fd /\ j.estado = "P" /\ j.etapa = "T"
      /\ j.replanificaciones = 1
  <2> HIDE DEF k
  <2> QED
    BY <1>3, JobReplanned
<1>5. /\ d \in Job /\ d.id = k.id /\ d.master = fd /\ d.estado = "E" /\ d.etapa = "T"
      /\ d.replanificaciones = 2
  <2> HIDE DEF k
  <2> QED
    BY <1>3, JobReplanned
<1>6. k.replanificaciones \in 0 .. 2 /\ k = JobOf(fd, "T")
  BY <1>3 DEF Job
<1> HIDE DEF k, m, j, d
<1>7. CASE Crash
  <2>1. tabla_jobs' = tabla_jobs /\ conectados' = conectados /\ vivo' = "crash"
    BY <1>7, Zenon DEF Crash
  <2>2. JobsDo(fd, m)
    BY <1>1, <2>1 DEF JobsDo
  <2> QED
    BY <2>2 DEF m
<1>8. CASE k.replanificaciones # 1 /\ SetJob(fd, "T", j) /\ conectados' = conectados
  <2>1. Follows(m, k, j)
    BY <1>1, <1>3, <1>4, <1>8 DEF Follows
  <2>2. JobsDo(fd, m)
    BY <1>1, <1>2, <1>4, <1>6, <1>8, <2>1, StopsDo
  <2> QED
    BY <2>2 DEF m
<1>9. CASE SetJob(fd, "T", d) /\ conectados' = conectados
  <2>1. Follows(m, k, d)
    BY <1>1, <1>3, <1>5, <1>6 DEF Follows
  <2>2. JobsDo(fd, m)
    BY <1>1, <1>2, <1>5, <1>6, <1>9, <2>1, StopsDo
  <2> QED
    BY <2>2 DEF m
<1> QED
  BY <1>1, <1>7, <1>8, <1>9

LEMMA DisconnectedStops ==
    ASSUME Tables, NEW fd \in FDs, MasterDisconnected(fd)
    PROVE  AllStopped(fd) /\ conectados' = conectados \ {fd} /\ Head(pedidos[fd]).op = "FIN"
<1> DEFINE mine == {i \in DOMAIN tabla_jobs : /\ tabla_jobs[i].master = fd
                                              /\ tabla_jobs[i].estado = "P"}
<1>1. /\ tabla_jobs' = [i \in DOMAIN tabla_jobs |->
                          IF i \in mine THEN [tabla_jobs[i] EXCEPT !.estado = "E"]
                                        ELSE tabla_jobs[i]]
      /\ conectados' = conectados \ {fd} /\ Head(pedidos[fd]).op = "FIN"
  BY Zenon DEF MasterDisconnected, Attend, Receive
<1>2. ASSUME NEW i \in DOMAIN tabla_jobs
      PROVE  /\ tabla_jobs'[i].id = tabla_jobs[i].id
             /\ tabla_jobs'[i].master = tabla_jobs[i].master
             /\ tabla_jobs'[i].replanificaciones = tabla_jobs[i].replanificaciones
             /\ tabla_jobs'[i].etapa = tabla_jobs[i].etapa
             /\ tabla_jobs[i].master # fd => tabla_jobs'[i] = tabla_jobs[i]
             /\ tabla_jobs[i].master = fd => tabla_jobs'[i].estado # "P"
             /\ tabla_jobs'[i].estado = "P" => tabla_jobs[i].estado = "P"
  <2>1. tabla_jobs[i] \in Job
    BY DEF Tables
  <2> DEFINE k == tabla_jobs[i]
             j == [k EXCEPT !.estado = "E"]
  <2>2. /\ j.id = k.id /\ j.master = k.master /\ j.estado = "E" /\ j.etapa = k.etapa
        /\ j.replanificaciones = k.replanificaciones
    <3> HIDE DEF k
    <3> QED
      BY <2>1, JobRewritten DEF k
  <2>3. tabla_jobs'[i] = IF i \in mine THEN j ELSE tabla_jobs[i]
    BY <1>1, Zenon
  <2> HIDE DEF j
  <2> QED
    BY <2>2, <2>3
<1>3. DOMAIN tabla_jobs' = DOMAIN tabla_jobs
  BY <1>1
<1> QED
  BY <1>1, <1>2, <1>3 DEF AllStopped

LEMMA HandlerJobs ==
    ASSUME TypeInv, NEW fd \in FDs, GetMasterMessage(fd)
    PROVE  JobsDo(fd, Head(pedidos[fd]))
<1> DEFINE m == Head(pedidos[fd])
<1>0. Tables /\ {"T", "L", "G", "S"} = Stage
  BY DEF TypeInv, Stage
<1>1. CASE ProcessTransformation(fd) \/ FileNotAvailable(fd)
  <2>1. /\ m.op = "T" /\ conectados' = conectados
        /\ tabla_jobs' = Append(tabla_jobs, NewJob(fd)) \/ tabla_jobs' = tabla_jobs
    BY <1>1, Zenon DEF ProcessTransformation, FileNotAvailable, Crash, Attend, Receive
  <2> QED
    BY <2>1 DEF JobsDo, IsFail
<1>2. CASE LocalReductionNotReady(fd) \/ StageNotReady(fd)
  <2>1. tabla_jobs' = tabla_jobs /\ conectados' = conectados /\ m.op \in {"L", "G", "S"}
    BY <1>2, Zenon DEF LocalReductionNotReady, StageNotReady, Crash, Attend, Receive
  <2> QED
    BY <2>1 DEF JobsDo, IsFail
<1>3. CASE ProcessLocalReduction(fd)
  <2>1. MovesJob(fd, "T", "L") /\ conectados' = conectados /\ m.op = "L"
    BY <1>3, Zenon DEF ProcessLocalReduction, MovesJob, Attend, Receive
  <2> QED
    BY <1>0, <2>1, AdvancesDo
<1>4. CASE ProcessGlobalReduction(fd) \/ GlobalReductionRefused(fd)
  <2>1. MovesJob(fd, "L", "G") /\ conectados' = conectados /\ m.op = "G"
    BY <1>4, Zenon DEF ProcessGlobalReduction, GlobalReductionRefused, MovesJob, Attend, Receive
  <2> QED
    BY <1>0, <2>1, AdvancesDo
<1>5. CASE ProcessFinalStore(fd)
  <2>1. MovesJob(fd, "G", "S") /\ conectados' = conectados /\ m.op = "S"
    BY <1>5, Zenon DEF ProcessFinalStore, MovesJob, Attend, Receive
  <2> QED
    BY <1>0, <2>1, AdvancesDo
<1>6. CASE ErrorIgnored(fd)
  <2>1. /\ tabla_jobs' = tabla_jobs /\ conectados' = conectados /\ m.op = "E"
        /\ ~HasJob(fd, m.etapa)
    BY <1>6, Zenon DEF ErrorIgnored, Attend, Receive, yamaVars
  <2> QED
    BY <2>1 DEF JobsDo, IsFail
<1>7. CASE MasterReset(fd)
  <2>1. tabla_jobs' = tabla_jobs /\ conectados' = conectados \ {fd} /\ m.op = "RST"
    BY <1>7, Zenon DEF MasterReset, Attend, Receive
  <2> QED
    BY <2>1 DEF JobsDo
<1>8. CASE MasterDisconnected(fd)
  BY <1>0, <1>8, DisconnectedStops DEF JobsDo
<1> QED
  BY <1>0, <1>1, <1>2, <1>3, <1>4, <1>5, <1>6, <1>7, <1>8, OkDoesJobs, AbortDoesJobs,
     ReplanDoesJobs, Zenon DEF GetMasterMessage

-----------------------------------------------------------------------------
(* What is planned for a job: its entries in t are the blocks of a file,   *)
(* each once; each is of one block, on a node that holds it.               *)
Whole(t, j, arch) ==
    /\ \A k \in DOMAIN t : OwnedBy(j, t[k]) =>
          /\ t[k].file = arch /\ IsInjective(t[k].tmps)
          /\ \A b : In(t[k].tmps, b) => b \in BlocksOf(arch)
    /\ \A k, l \in DOMAIN t : \A b :
          OwnedBy(j, t[k]) /\ OwnedBy(j, t[l]) /\ In(t[k].tmps, b) /\ In(t[l].tmps, b) => k = l
    /\ \A b \in BlocksOf(arch) : \E k \in DOMAIN t : OwnedBy(j, t[k]) /\ In(t[k].tmps, b)
Singly(t, j) ==
    \A k \in DOMAIN t : OwnedBy(j, t[k]) =>
       \E b \in Block : t[k].tmps = <<b>> /\ t[k].nodo \in Replicas(b)
NoneOf(t, j) == \A k \in DOMAIN t : ~OwnedBy(j, t[k])

(* Where the elements that Keep keeps come from.                           *)
KeptFrom(v, s, S) ==
    \E g : /\ \A i \in DOMAIN v : g[i] \in DOMAIN s \cap S /\ v[i] = s[g[i]]
           /\ \A i, j \in DOMAIN v : i < j => g[i] < g[j]
           /\ \A p \in DOMAIN s \cap S : \E i \in DOMAIN v : g[i] = p

LEMMA KeptFromIs ==
    ASSUME NEW E, NEW s \in Seq(E), NEW S
    PROVE  KeptFrom(Keep(s, S), s, S)
<1>1. PICK f : KeepsAs(f, s, S) /\ Keep(s, S) = f[Len(s)]
  BY KeepSteps
<1> DEFINE n == Len(s)
           At(k, v, g) == /\ v \in Seq(E)
                          /\ \A i \in DOMAIN v : /\ g[i] \in (1 .. k) \cap S
                                                 /\ v[i] = s[g[i]]
                          /\ \A i, j \in DOMAIN v : i < j => g[i] < g[j]
                          /\ \A p \in (1 .. k) \cap S : \E i \in DOMAIN v : g[i] = p
           W == {k \in 0 .. n : \E g : At(k, f[k], g)}
<1>2. n \in Nat /\ DOMAIN s = 1 .. n
  OBVIOUS
<1>3. 0 \in W
  <2>1. f[0] = <<>>
    BY <1>1 DEF KeepsAs
  <2> DEFINE g == [i \in {} |-> 0]
  <2>2. <<>> \in Seq(E) /\ DOMAIN <<>> = {}
    BY EmptySeq
  <2>3. At(0, f[0], g)
    <3> HIDE DEF g
    <3> QED
      BY <2>1, <2>2
  <2> HIDE DEF At
  <2> QED
    BY <1>2, <2>3
<1>4. ASSUME NEW k \in 0 .. n - 1, k \in W PROVE k + 1 \in W
  <2> DEFINE v == f[k]
             w == f[k + 1]
  <2>1. k + 1 \in 1 .. n /\ (k + 1) - 1 = k /\ k \in Nat
    BY <1>2
  <2>2. PICK g : At(k, v, g)
    BY <1>4
  <2>3. w = IF k + 1 \in S THEN Append(v, s[k + 1]) ELSE v
    BY <1>1, <2>1 DEF KeepsAs
  <2>4. CASE k + 1 \notin S
    <3>1. w = v /\ \A p : p \in (1 .. k + 1) \cap S <=> p \in (1 .. k) \cap S
      BY <2>1, <2>3, <2>4
    <3> HIDE DEF v, w
    <3>2. At(k + 1, w, g)
      BY <2>2, <3>1
    <3> HIDE DEF At
    <3> QED
      BY <2>1, <3>2 DEF w
  <2>5. CASE k + 1 \in S
    <3> DEFINE m == Len(v) + 1
               h == [i \in 1 .. m |-> IF i = m THEN k + 1 ELSE g[i]]
    <3>1. w = Append(v, s[k + 1])
      BY <2>3, <2>5
    <3> HIDE DEF v, w
    <3>2. /\ v \in Seq(E) /\ s[k + 1] \in E
          /\ \A i \in DOMAIN v : g[i] \in (1 .. k) \cap S /\ v[i] = s[g[i]]
          /\ \A i, j \in DOMAIN v : i < j => g[i] < g[j]
          /\ \A p \in (1 .. k) \cap S : \E i \in DOMAIN v : g[i] = p
      BY <1>2, <2>1, <2>2
    <3>3. /\ w \in Seq(E) /\ DOMAIN w = 1 .. m /\ DOMAIN v = 1 .. Len(v) /\ Len(v) \in Nat
          /\ \A i \in 1 .. Len(v) : w[i] = v[i]
          /\ w[m] = s[k + 1] /\ m = Len(v) + 1
      BY <3>1, <3>2
    <3>4. /\ h[m] = k + 1 /\ \A i \in 1 .. Len(v) : h[i] = g[i]
      BY <3>3
    <3> HIDE DEF m, h
    <3>5. \A i \in DOMAIN w : h[i] \in (1 .. k + 1) \cap S /\ w[i] = s[h[i]]
      <4> SUFFICES ASSUME NEW i \in DOMAIN w
                   PROVE  h[i] \in (1 .. k + 1) \cap S /\ w[i] = s[h[i]]
        OBVIOUS
      <4>1. CASE i = m
        BY <2>1, <2>5, <3>3, <3>4, <4>1
      <4>2. CASE i # m
        <5>1. i \in DOMAIN v /\ i \in 1 .. Len(v)
          BY <3>3, <4>2
        <5> QED
          BY <2>1, <3>2, <3>3, <3>4, <5>1
      <4> QED
        BY <4>1, <4>2
    <3>6. \A i, j \in DOMAIN w : i < j => h[i] < h[j]
      <4> SUFFICES ASSUME NEW i \in DOMAIN w, NEW j \in DOMAIN w, i < j PROVE h[i] < h[j]
        OBVIOUS
      <4>1. i \in DOMAIN v /\ i \in 1 .. Len(v) /\ h[i] = g[i] /\ g[i] \in 1 .. k
        BY <3>2, <3>3, <3>4
      <4>2. CASE j = m
        BY <2>1, <3>4, <4>1, <4>2
      <4>3. CASE j # m
        <5>1. j \in DOMAIN v /\ h[j] = g[j]
          BY <3>3, <3>4, <4>3
        <5> QED
          BY <3>2, <4>1, <5>1
      <4> QED
        BY <4>2, <4>3
    <3>7. \A p \in (1 .. k + 1) \cap S : \E i \in DOMAIN w : h[i] = p
      <4> SUFFICES ASSUME NEW p \in (1 .. k + 1) \cap S PROVE \E i \in DOMAIN w : h[i] = p
        OBVIOUS
      <4>1. CASE p = k + 1
        <5>1. m \in DOMAIN w
          BY <3>3
        <5> QED
          BY <3>4, <4>1, <5>1
      <4>2. CASE p # k + 1
        <5>1. p \in (1 .. k) \cap S
          BY <2>1, <4>2
        <5>2. PICK i \in DOMAIN v : g[i] = p
          BY <3>2, <5>1
        <5>3. i \in DOMAIN w /\ h[i] = p
          BY <3>3, <3>4, <5>2
        <5> QED
          BY <5>3
      <4> QED
        BY <4>1, <4>2
    <3>8. At(k + 1, w, h)
      BY <3>3, <3>5, <3>6, <3>7
    <3> HIDE DEF At
    <3> QED
      BY <2>1, <3>8 DEF w
  <2> QED
    BY <2>4, <2>5
<1>5. n \in W
  <2> HIDE DEF W, n
  <2>1. \A k \in 0 .. n : k \in W
    BY <1>2, <1>3, <1>4, Hasta
  <2> QED
    BY <1>2, <2>1
<1>6. PICK g : At(n, f[n], g)
  BY <1>5
<1> QED
  BY <1>1, <1>2, <1>6 DEF KeptFrom

(* An entry kept is of the job it was of.                                  *)
LEMMA WholeKept ==
    ASSUME NEW E, NEW t \in Seq(E), NEW S, NEW j,
           \A k \in DOMAIN t : OwnedBy(j, t[k]) => k \in S
    PROVE  /\ \A arch : Whole(t, j, arch) => Whole(Keep(t, S), j, arch)
           /\ Singly(t, j) => Singly(Keep(t, S), j)
<1> DEFINE v == Keep(t, S)
<1>1. PICK g : /\ \A i \in DOMAIN v : g[i] \in DOMAIN t \cap S /\ v[i] = t[g[i]]
               /\ \A a, b \in DOMAIN v : a < b => g[a] < g[b]
               /\ \A p \in DOMAIN t \cap S : \E i \in DOMAIN v : g[i] = p
  BY KeptFromIs DEF KeptFrom
<1>2. v \in Seq(E) /\ DOMAIN v \subseteq Nat /\ DOMAIN t \subseteq Nat
  BY KeepIs
<1> HIDE DEF v
<1>3. \A a, b \in DOMAIN v : g[a] = g[b] => a = b
  <2> SUFFICES ASSUME NEW a \in DOMAIN v, NEW b \in DOMAIN v, g[a] = g[b], a # b PROVE FALSE
    OBVIOUS
  <2>1. a < b \/ b < a
    BY <1>2
  <2>2. g[a] \in Nat /\ g[b] \in Nat
    BY <1>1, <1>2
  <2> QED
    BY <1>1, <2>1, <2>2
<1>4. ASSUME NEW arch, Whole(t, j, arch) PROVE Whole(v, j, arch)
  <2>1. ASSUME NEW b \in BlocksOf(arch)
        PROVE  \E k \in DOMAIN v : OwnedBy(j, v[k]) /\ In(v[k].tmps, b)
    <3>1. PICK p \in DOMAIN t : OwnedBy(j, t[p]) /\ In(t[p].tmps, b)
      BY <1>4 DEF Whole
    <3>2. PICK i \in DOMAIN v : g[i] = p
      BY <1>1, <3>1
    <3> QED
      BY <1>1, <3>1, <3>2
  <2>2. ASSUME NEW k \in DOMAIN v, OwnedBy(j, v[k])
        PROVE  /\ v[k].file = arch /\ IsInjective(v[k].tmps)
               /\ \A b : In(v[k].tmps, b) => b \in BlocksOf(arch)
    BY <1>1, <1>4, <2>2 DEF Whole
  <2>3. ASSUME NEW k \in DOMAIN v, NEW l \in DOMAIN v, NEW b, OwnedBy(j, v[k]), OwnedBy(j, v[l]),
               In(v[k].tmps, b), In(v[l].tmps, b)
        PROVE  k = l
    <3>1. g[k] = g[l]
      BY <1>1, <1>4, <2>3 DEF Whole
    <3> QED
      BY <1>3, <3>1
  <2> QED
    BY <2>1, <2>2, <2>3 DEF Whole
<1>5. ASSUME Singly(t, j) PROVE Singly(v, j)
  BY <1>1, <1>5 DEF Singly
<1> QED
  BY <1>4, <1>5 DEF v

(* Entries of others change nothing; those of a job without any are all.   *)
LEMMA WholeJoined ==
    ASSUME NEW E, NEW t \in Seq(E), NEW w \in Seq(E), NEW j
    PROVE  /\ NoneOf(w, j) => /\ \A arch : Whole(t, j, arch) => Whole(t \o w, j, arch)
                              /\ Singly(t, j) => Singly(t \o w, j)
           /\ NoneOf(t, j) => /\ \A arch : Whole(w, j, arch) => Whole(t \o w, j, arch)
                              /\ Singly(w, j) => Singly(t \o w, j)
<1> DEFINE z == t \o w
           n == Len(t)
<1>1. z \in Seq(E) /\ Chain(t, w, z)
  BY ConcatIs
<1> HIDE DEF z
<1>2. /\ n \in Nat /\ DOMAIN t = 1 .. n /\ DOMAIN w = 1 .. Len(w) /\ Len(w) \in Nat
      /\ \A i \in DOMAIN t : i \in DOMAIN z /\ z[i] = t[i]
      /\ \A k \in DOMAIN w : n + k \in DOMAIN z /\ z[n + k] = w[k]
      /\ \A i \in DOMAIN z : i \in DOMAIN t \/ (i - n \in DOMAIN w /\ i = n + (i - n))
  BY <1>1 DEF Chain
<1> HIDE DEF n
<1>3. ASSUME NoneOf(w, j) PROVE \A i \in DOMAIN z : OwnedBy(j, z[i]) => i \in DOMAIN t /\ z[i] = t[i]
  BY <1>2, <1>3 DEF NoneOf
<1>4. ASSUME NoneOf(t, j) PROVE \A i \in DOMAIN z : OwnedBy(j, z[i]) =>
                                   /\ i - n \in DOMAIN w /\ z[i] = w[i - n] /\ i = n + (i - n)
  <2> SUFFICES ASSUME NEW i \in DOMAIN z, OwnedBy(j, z[i])
               PROVE  i - n \in DOMAIN w /\ z[i] = w[i - n] /\ i = n + (i - n)
    OBVIOUS
  <2>1. i \notin DOMAIN t
    BY <1>2, <1>4 DEF NoneOf
  <2>2. i - n \in DOMAIN w /\ i = n + (i - n)
    BY <1>2, <2>1
  <2> QED
    BY <1>2, <2>2, Zenon
<1>5. ASSUME NoneOf(w, j), NEW arch, Whole(t, j, arch) PROVE Whole(z, j, arch)
  <2>1. \A i \in DOMAIN z : OwnedBy(j, z[i]) => i \in DOMAIN t /\ z[i] = t[i]
    BY <1>3, <1>5
  <2> QED
    BY <1>2, <1>5, <2>1, Zenon DEF Whole
<1>6. ASSUME NoneOf(t, j), NEW arch, Whole(w, j, arch) PROVE Whole(z, j, arch)
  <2>1. \A i \in DOMAIN z : OwnedBy(j, z[i]) =>
           i - n \in DOMAIN w /\ z[i] = w[i - n] /\ i = n + (i - n)
    BY <1>4, <1>6
  <2>2. ASSUME NEW b \in BlocksOf(arch)
        PROVE  \E k \in DOMAIN z : OwnedBy(j, z[k]) /\ In(z[k].tmps, b)
    BY <1>2, <1>6 DEF Whole
  <2>3. ASSUME NEW k \in DOMAIN z, OwnedBy(j, z[k])
        PROVE  /\ z[k].file = arch /\ IsInjective(z[k].tmps)
               /\ \A b : In(z[k].tmps, b) => b \in BlocksOf(arch)
    BY <1>6, <2>1, <2>3 DEF Whole
  <2>4. ASSUME NEW k \in DOMAIN z, NEW l \in DOMAIN z, NEW b, OwnedBy(j, z[k]), OwnedBy(j, z[l]),
               In(z[k].tmps, b), In(z[l].tmps, b)
        PROVE  k = l
    <3>1. k - n = l - n
      BY <1>6, <2>1, <2>4 DEF Whole
    <3> QED
      BY <2>1, <2>4, <3>1
  <2> QED
    BY <2>2, <2>3, <2>4 DEF Whole
<1>7. NoneOf(w, j) /\ Singly(t, j) => Singly(z, j)
  BY <1>3 DEF Singly
<1>8. NoneOf(t, j) /\ Singly(w, j) => Singly(z, j)
  BY <1>4 DEF Singly
<1> QED
  BY <1>5, <1>6, <1>7, <1>8 DEF z

-----------------------------------------------------------------------------
(* AllTmps, step by step.                                                  *)
TmpsPass(f, planed) ==
    /\ f[0] = <<>>
    /\ \A k \in 1 .. Len(planed) : f[k] = f[k - 1] \o planed[k].tmps
    /\ \A k \in 0 .. Len(planed) : f[k] \in Seq(Block)

LEMMA AllTmpsSteps ==
    ASSUME NEW N, NEW planed \in Seq(PlannedOn(N))
    PROVE  \E f : TmpsPass(f, planed) /\ AllTmps(planed) = f[Len(planed)]
<1> DEFINE n == Len(planed)
           V == Seq(Block)
           a == <<>>
           next(k, v) == v \o planed[k].tmps
           paso == [k \in 1 .. n |-> [v \in V |-> next(k, v)]]
           Es(h) == h = [k \in 0 .. n |-> IF k = 0 THEN <<>> ELSE h[k - 1] \o planed[k].tmps]
           f == CHOOSE h : Es(h)
<1>1. n \in Nat
  OBVIOUS
<1>2. \A k \in 1 .. n, v \in V : next(k, v) \in V
  <2>1. \A k \in 1 .. n : planed[k].tmps \in Seq(Block)
    BY EntryFields
  <2> HIDE DEF n
  <2> QED
    BY <2>1
<1>3. a \in V
  BY EmptySeq
<1>4. PICK g : Ecuacion(g, n, V, a, paso)
  <2>1. paso \in [1 .. n -> [V -> V]]
    <3> HIDE DEF n, next, V
    <3> QED
      BY <1>2
  <2> HIDE DEF n, paso, V, a
  <2> QED
    BY <1>1, <1>3, <2>1, RecursivaEs
<1>5. Es(g)
  <2>1. /\ g \in [0 .. n -> V]
        /\ g = [k \in 0 .. n |-> IF k = 0 THEN a ELSE paso[k][g[k - 1]]]
    BY <1>4, Zenon DEF Ecuacion
  <2>2. \A k \in 1 .. n : paso[k][g[k - 1]] = next(k, g[k - 1])
    <3>1. \A k \in 1 .. n : k - 1 \in 0 .. n
      BY <1>1
    <3> HIDE DEF n, next, V
    <3> QED
      BY <2>1, <3>1
  <2>3. \A k \in 0 .. n : k # 0 => k \in 1 .. n
    BY <1>1
  <2>4. g = [k \in 0 .. n |-> IF k = 0 THEN a ELSE next(k, g[k - 1])]
    <3> HIDE DEF n, next, paso, V, a
    <3> QED
      BY <2>1, <2>2, <2>3
  <2> QED
    BY <2>4, Zenon
<1>6. Es(f)
  <2> HIDE DEF Es
  <2> QED
    BY <1>5
<1>7. AllTmps(planed) = f[n]
  BY Zenon DEF AllTmps
<1>8. f[0] = a /\ \A k \in 1 .. n : f[k] = next(k, f[k - 1])
  <2>1. f = [k \in 0 .. n |-> IF k = 0 THEN a ELSE next(k, f[k - 1])]
    BY <1>6, Zenon
  <2> HIDE DEF f, next, a, n
  <2> QED
    BY <1>1, <2>1
<1> HIDE DEF f, n, Es, paso
<1>9. \A k \in 0 .. n : f[k] \in V
  <2>1. \A k \in 1 .. n : f[k - 1] \in V => f[k] \in V
    <3> HIDE DEF V, next
    <3> QED
      BY <1>2, <1>8
  <2> HIDE DEF V, a
  <2> QED
    BY <1>1, <1>3, <1>8, <2>1, EnTipo
<1> HIDE DEF f
<1> QED
  BY <1>7, <1>8, <1>9 DEF TmpsPass, n

LEMMA JoinInjective ==
    ASSUME NEW E, NEW x \in Seq(E), NEW y \in Seq(E), IsInjective(x), IsInjective(y),
           \A b : ~(In(x, b) /\ In(y, b))
    PROVE  IsInjective(x \o y)
<1> DEFINE z == x \o y
           n == Len(x)
<1>1. Chain(x, y, z)
  BY ConcatIs
<1> HIDE DEF z
<1>2. /\ n \in Nat /\ DOMAIN x = 1 .. n /\ DOMAIN y = 1 .. Len(y) /\ Len(y) \in Nat
      /\ DOMAIN z = 1 .. n + Len(y)
      /\ \A i \in DOMAIN x : z[i] = x[i]
      /\ \A k \in DOMAIN y : z[n + k] = y[k]
      /\ \A i \in DOMAIN z : i \in DOMAIN x \/ (i - n \in DOMAIN y /\ i = n + (i - n))
  BY <1>1 DEF Chain
<1> HIDE DEF n
<1>3. \A i \in DOMAIN z : \/ i \in DOMAIN x /\ z[i] = x[i]
                          \/ i - n \in DOMAIN y /\ z[i] = y[i - n] /\ i = n + (i - n)
  <2> SUFFICES ASSUME NEW i \in DOMAIN z, i \notin DOMAIN x
               PROVE  i - n \in DOMAIN y /\ z[i] = y[i - n] /\ i = n + (i - n)
    BY <1>2
  <2>1. i - n \in DOMAIN y /\ i = n + (i - n)
    BY <1>2
  <2> QED
    BY <1>2, <2>1, Zenon
<1>4. ASSUME NEW i \in DOMAIN z, NEW j \in DOMAIN z, z[i] = z[j] PROVE i = j
  <2>1. CASE i \in DOMAIN x /\ j \in DOMAIN x
    BY <1>2, <1>4, <2>1 DEF IsInjective
  <2>2. CASE i \in DOMAIN x /\ j \notin DOMAIN x
    <3>1. In(x, z[i]) /\ In(y, z[j])
      BY <1>2, <1>3, <2>2 DEF In
    <3> QED
      BY <1>4, <3>1
  <2>3. CASE i \notin DOMAIN x /\ j \in DOMAIN x
    <3>1. In(y, z[i]) /\ In(x, z[j])
      BY <1>2, <1>3, <2>3 DEF In
    <3> QED
      BY <1>4, <3>1
  <2>4. CASE i \notin DOMAIN x /\ j \notin DOMAIN x
    <3>1. i - n = j - n
      BY <1>3, <1>4, <2>4 DEF IsInjective
    <3> QED
      BY <1>3, <2>4, <3>1
  <2> QED
    BY <2>1, <2>2, <2>3, <2>4
<1> QED
  BY <1>4 DEF IsInjective, z

(* Together, the temporaries of several tasks are each of theirs, once.    *)
LEMMA TmpsTogether ==
    ASSUME NEW N, NEW planed \in Seq(PlannedOn(N)),
           \A k \in DOMAIN planed : IsInjective(planed[k].tmps),
           \A k, l \in DOMAIN planed : \A b :
              In(planed[k].tmps, b) /\ In(planed[l].tmps, b) => k = l
    PROVE  /\ IsInjective(AllTmps(planed))
           /\ \A b : In(AllTmps(planed), b) <=> \E k \in DOMAIN planed : In(planed[k].tmps, b)
<1>1. PICK f : TmpsPass(f, planed) /\ AllTmps(planed) = f[Len(planed)]
  BY AllTmpsSteps
<1> DEFINE n == Len(planed)
           W == {k \in 0 .. n : /\ IsInjective(f[k])
                                /\ \A b : In(f[k], b) <=> \E i \in 1 .. k : In(planed[i].tmps, b)}
<1>2. n \in Nat /\ DOMAIN planed = 1 .. n
  OBVIOUS
<1>3. 0 \in W
  <2>1. f[0] = <<>> /\ DOMAIN <<>> = {}
    BY <1>1, EmptySeq DEF TmpsPass
  <2>2. IsInjective(f[0]) /\ \A b : ~In(f[0], b)
    BY <2>1 DEF IsInjective, In
  <2>3. 1 .. 0 = {} /\ 0 \in 0 .. n
    BY <1>2
  <2> QED
    BY <2>2, <2>3
<1>4. ASSUME NEW k \in 0 .. n - 1, k \in W PROVE k + 1 \in W
  <2> DEFINE v == f[k]
             y == planed[k + 1].tmps
  <2>1. /\ k + 1 \in 1 .. n /\ (k + 1) - 1 = k /\ k \in 0 .. n /\ k + 1 \in 0 .. n
        /\ \A i : i \in 1 .. k + 1 <=> i \in 1 .. k \/ i = k + 1
        /\ \A i \in 1 .. k : i \in DOMAIN planed /\ i # k + 1
    BY <1>2
  <2>2. f[k + 1] = v \o y /\ v \in Seq(Block)
    BY <1>1, <2>1 DEF TmpsPass
  <2>3. y \in Seq(Block) /\ IsInjective(y) /\ k + 1 \in DOMAIN planed
    BY <1>2, <2>1, EntryFields
  <2>4. IsInjective(v) /\ \A b : In(v, b) <=> \E i \in 1 .. k : In(planed[i].tmps, b)
    BY <1>4
  <2>5. \A b : ~(In(v, b) /\ In(y, b))
    BY <2>1, <2>3, <2>4
  <2>6. \A b : (\E i \in 1 .. k + 1 : In(planed[i].tmps, b))
                  <=> (\E i \in 1 .. k : In(planed[i].tmps, b)) \/ In(y, b)
    BY <2>1
  <2> HIDE DEF v, y
  <2>7. IsInjective(v \o y) /\ \A b : In(v \o y, b) <=> In(v, b) \/ In(y, b)
    BY <2>2, <2>3, <2>4, <2>5, JoinInjective, ConcatHas
  <2>8. IsInjective(f[k + 1])
    BY <2>2, <2>7
  <2>9. \A b : In(f[k + 1], b) <=> \E i \in 1 .. k + 1 : In(planed[i].tmps, b)
    BY <2>2, <2>4, <2>6, <2>7
  <2> QED
    BY <2>1, <2>8, <2>9
<1>5. n \in W
  <2> HIDE DEF W, n
  <2>1. \A k \in 0 .. n : k \in W
    BY <1>2, <1>3, <1>4, Hasta
  <2> QED
    BY <1>2, <2>1
<1> QED
  BY <1>1, <1>2, <1>5

-----------------------------------------------------------------------------
(* The local reductions of runs of different nodes, when none is in        *)
(* process: one entry each.                                                *)
EntryOf(r, job, fd, arch) ==
    [job |-> job, master |-> fd, nodo |-> r.nodo, tmps |-> r.tmps, file |-> arch]
Listed(runs, job, fd, arch, v, k) ==
    LET l == Len(tabla_LR_planificados)
    IN  /\ DOMAIN v.lr = 1 .. l + k
        /\ \A i \in 1 .. l : v.lr[i] = tabla_LR_planificados[i]
        /\ \A i \in 1 .. k : v.lr[l + i] = EntryOf(runs[i], job, fd, arch)
        /\ \A i \in DOMAIN v.estados :
              i \in DOMAIN tabla_estados \/ \E j \in 1 .. k : v.estados[i].node = runs[j].nodo

LEMMA LocalEntryAdded ==
    ASSUME Tables, NEW job \in Nat, NEW fd \in FDs, NEW arch \in Files, NoneReducing(job),
           NEW runs \in Seq(TasksOf(NodesOf(tabla_nodos))), Different(runs),
           NEW v \in LocalPlans(job, fd), NEW k \in Nat, k + 1 \in DOMAIN runs,
           Listed(runs, job, fd, arch, v, k)
    PROVE  Listed(runs, job, fd, arch, PlanLocalReduction(v, runs[k + 1], job, fd, arch), k + 1)
<1> DEFINE n == runs[k + 1].nodo
           q == PlanLocalReduction(v, runs[k + 1], job, fd, arch)
           x == [job |-> job, master |-> fd, nodo |-> n, tmps |-> runs[k + 1].tmps, file |-> arch]
           r == NewRow(job, fd, n, <<>>, "L", arch)
           g == IncreaseNodeCharge(v.nodos, n)
           w == Append(v.estados, r)
           lr == Append(v.lr, x)
           l == Len(tabla_LR_planificados)
<1>1. /\ More(tabla_estados, v.estados, job, fd, "L")
      /\ v.estados \in Seq(RowsOver(NodesOf(tabla_nodos), Findable(tabla_info_archivos)))
      /\ v.lr \in Seq(PlannedOn(NodesOf(tabla_nodos)))
  BY DEF LocalPlans
<1>2. /\ DOMAIN v.lr = 1 .. l + k
      /\ \A i \in 1 .. l : v.lr[i] = tabla_LR_planificados[i]
      /\ \A i \in 1 .. k : v.lr[l + i] = EntryOf(runs[i], job, fd, arch)
      /\ \A i \in DOMAIN v.estados :
            i \in DOMAIN tabla_estados \/ \E j \in 1 .. k : v.estados[i].node = runs[j].nodo
  BY Zenon DEF Listed
<1>3. \A j \in 1 .. k : j \in DOMAIN runs /\ j # k + 1
  OBVIOUS
<1>4. ~\E i \in DOMAIN v.estados :
         /\ v.estados[i].job = job /\ v.estados[i].node = n
         /\ v.estados[i].op = "L" /\ v.estados[i].status = "P"
  <2> SUFFICES ASSUME NEW i \in DOMAIN v.estados, v.estados[i].job = job, v.estados[i].node = n,
                      v.estados[i].op = "L", v.estados[i].status = "P"
               PROVE  FALSE
    OBVIOUS
  <2>1. CASE i \in DOMAIN tabla_estados
    <3>1. v.estados[i] = tabla_estados[i]
      BY <1>1, <2>1 DEF More
    <3> QED
      BY <2>1, <3>1 DEF NoneReducing
  <2>2. CASE i \notin DOMAIN tabla_estados
    <3>1. PICK j \in 1 .. k : v.estados[i].node = runs[j].nodo
      BY <1>2, <2>2
    <3> QED
      BY <1>3, <3>1 DEF Different
  <2> QED
    BY <2>1, <2>2
<1>5. q = [nodos |-> g, estados |-> w, lr |-> lr]
  BY <1>4, Zenon DEF PlanLocalReduction
<1>6. x = EntryOf(runs[k + 1], job, fd, arch)
  BY DEF EntryOf
<1>7. r.node = n
  BY DEF NewRow
<1>8. l \in Nat
  BY DEF Tables
<1> HIDE DEF x, r, g, l
<1>9. /\ DOMAIN lr = 1 .. l + (k + 1) /\ lr[l + (k + 1)] = x
      /\ \A i \in 1 .. l + k : lr[i] = v.lr[i]
  <2>1. Len(v.lr) = l + k
    <3>1. Len(v.lr) \in Nat /\ 1 .. Len(v.lr) = 1 .. l + k /\ l + k \in Nat
      BY <1>1, <1>2, <1>8
    <3> QED
      BY <3>1
  <2> QED
    BY <1>1, <1>8, <2>1
<1>10. /\ DOMAIN w = DOMAIN v.estados \cup {Len(v.estados) + 1} /\ w[Len(v.estados) + 1] = r
       /\ \A i \in DOMAIN v.estados : w[i] = v.estados[i]
  BY <1>1
<1> HIDE DEF w, lr
<1>11. \A i \in 1 .. l : lr[i] = tabla_LR_planificados[i]
  <2>1. \A i \in 1 .. l : i \in 1 .. l + k
    BY <1>8
  <2> QED
    BY <1>2, <1>9, <2>1
<1>12. \A i \in 1 .. k + 1 : lr[l + i] = EntryOf(runs[i], job, fd, arch)
  <2> SUFFICES ASSUME NEW i \in 1 .. k + 1 PROVE lr[l + i] = EntryOf(runs[i], job, fd, arch)
    OBVIOUS
  <2>1. CASE i = k + 1
    BY <1>6, <1>9, <2>1
  <2>2. CASE i # k + 1
    <3>1. i \in 1 .. k /\ l + i \in 1 .. l + k
      BY <1>8, <2>2
    <3> QED
      BY <1>2, <1>9, <3>1
  <2> QED
    BY <2>1, <2>2
<1>13. \A i \in DOMAIN w :
          i \in DOMAIN tabla_estados \/ \E j \in 1 .. k + 1 : w[i].node = runs[j].nodo
  <2> SUFFICES ASSUME NEW i \in DOMAIN w, i \notin DOMAIN tabla_estados
               PROVE  \E j \in 1 .. k + 1 : w[i].node = runs[j].nodo
    OBVIOUS
  <2>1. CASE i \in DOMAIN v.estados
    <3>1. PICK j \in 1 .. k : v.estados[i].node = runs[j].nodo
      BY <1>2, <2>1
    <3>2. j \in 1 .. k + 1
      OBVIOUS
    <3> QED
      BY <1>10, <2>1, <3>1, <3>2
  <2>2. CASE i \notin DOMAIN v.estados
    <3>1. w[i].node = n /\ k + 1 \in 1 .. k + 1
      BY <1>7, <1>10, <2>2
    <3> QED
      BY <3>1
  <2> QED
    BY <2>1, <2>2
<1>14. q.lr = lr /\ q.estados = w
  BY <1>5
<1> HIDE DEF q, n
<1> QED
  BY <1>9, <1>11, <1>12, <1>13, <1>14, Zenon DEF Listed, l, q

LEMMA LocalEntriesAdded ==
    ASSUME Tables, NEW job \in Nat, NEW fd \in FDs, NEW arch, NoneReducing(job),
           NEW runs \in Seq(TasksOf(NodesOf(tabla_nodos))), Different(runs),
           runs # <<>> => arch \in Files
    PROVE  PlanLocalReductions(runs, job, fd, arch).lr
             = tabla_LR_planificados \o PlannedEntries(runs, job, fd, arch)
<1> DEFINE q == PlanLocalReductions(runs, job, fd, arch)
           n == Len(runs)
           l == Len(tabla_LR_planificados)
           es == PlannedEntries(runs, job, fd, arch)
<1>1. PICK f : LocalPass(f, runs, job, fd, arch) /\ q = f[n]
  <2>1. /\ Table_OK(tabla_nodos)
        /\ tabla_estados \in Seq(RowsOver(NodesOf(tabla_nodos), Findable(tabla_info_archivos)))
        /\ tabla_LR_planificados \in Seq(PlannedOn(NodesOf(tabla_nodos)))
    BY DEF Tables, KnownNodes, KnownBlocks
  <2> QED
    BY <2>1, LocalReductionSteps
<1> DEFINE W == {k \in 0 .. n : Listed(runs, job, fd, arch, f[k], k)}
<1>2. n \in Nat /\ DOMAIN runs = 1 .. n
  OBVIOUS
<1>3. l \in Nat /\ DOMAIN tabla_LR_planificados = 1 .. l
  BY DEF Tables
<1>4. 0 \in W
  <2> DEFINE v == f[0]
  <2>1. v.lr = tabla_LR_planificados /\ v.estados = tabla_estados
    BY <1>1 DEF LocalPass
  <2> HIDE DEF v, l
  <2>2. /\ DOMAIN v.lr = 1 .. l + 0 /\ (\A i \in 1 .. l : v.lr[i] = tabla_LR_planificados[i])
        /\ (\A i \in 1 .. 0 : v.lr[l + i] = EntryOf(runs[i], job, fd, arch))
        /\ \A i \in DOMAIN v.estados :
              i \in DOMAIN tabla_estados \/ \E j \in 1 .. 0 : v.estados[i].node = runs[j].nodo
    BY <1>3, <2>1
  <2>3. Listed(runs, job, fd, arch, v, 0)
    BY <2>2, Zenon DEF Listed, l
  <2> QED
    BY <1>2, <2>3 DEF v
<1>5. ASSUME NEW k \in 0 .. n - 1, k \in W PROVE k + 1 \in W
  <2>1. k + 1 \in 1 .. n /\ (k + 1) - 1 = k /\ k \in 0 .. n /\ k \in Nat /\ runs # <<>>
    BY <1>2
  <2>2. f[k + 1] = PlanLocalReduction(f[k], runs[k + 1], job, fd, arch) /\ f[k] \in LocalPlans(job, fd)
    BY <1>1, <2>1 DEF LocalPass
  <2>3. Listed(runs, job, fd, arch, f[k], k) /\ k + 1 \in DOMAIN runs /\ arch \in Files
    BY <1>2, <1>5, <2>1
  <2> DEFINE v == f[k]
  <2> HIDE DEF v
  <2>4. Listed(runs, job, fd, arch, PlanLocalReduction(v, runs[k + 1], job, fd, arch), k + 1)
    BY <2>1, <2>2, <2>3, LocalEntryAdded DEF v
  <2> QED
    BY <2>1, <2>2, <2>4 DEF v
<1>6. n \in W
  <2> HIDE DEF W, n
  <2>1. \A k \in 0 .. n : k \in W
    BY <1>2, <1>4, <1>5, Hasta
  <2> QED
    BY <1>2, <2>1
<1>7. Listed(runs, job, fd, arch, q, n)
  BY <1>1, <1>6
<1>8. q.lr \in Seq(PlannedOn(NodesOf(tabla_nodos)))
  <2>1. f[n] \in LocalPlans(job, fd)
    BY <1>1, <1>2 DEF LocalPass
  <2> HIDE DEF q, n
  <2> QED
    BY <1>1, <2>1 DEF LocalPlans
<1>9. DOMAIN es = 1 .. n /\ \A i \in 1 .. n : es[i] = EntryOf(runs[i], job, fd, arch)
  BY <1>2 DEF PlannedEntries, EntryOf
<1>10. es \in Seq({EntryOf(runs[i], job, fd, arch) : i \in 1 .. n})
  <2> HIDE DEF es
  <2>1. es = [i \in 1 .. n |-> EntryOf(runs[i], job, fd, arch)]
    BY <1>9, <1>2, Zenon DEF es, PlannedEntries, EntryOf
  <2> HIDE DEF n
  <2> QED
    BY <1>2, <2>1
<1> HIDE DEF q, n
<1>11. /\ DOMAIN q.lr = 1 .. l + n
       /\ \A i \in 1 .. l : q.lr[i] = tabla_LR_planificados[i]
       /\ \A i \in 1 .. n : q.lr[l + i] = EntryOf(runs[i], job, fd, arch)
  BY <1>7, Zenon DEF Listed
<1>12. q.lr = tabla_LR_planificados \o es
  <2> DEFINE z == tabla_LR_planificados \o es
             E == PlannedOn(KnownNodes) \cup {EntryOf(runs[i], job, fd, arch) : i \in 1 .. n}
  <2>1. tabla_LR_planificados \in Seq(E) /\ es \in Seq(E)
    <3>1. tabla_LR_planificados \in Seq(PlannedOn(KnownNodes))
      BY DEF Tables
    <3> HIDE DEF es
    <3> QED
      BY <1>10, <3>1
  <2>2. Len(es) = n
    <3> HIDE DEF es
    <3> QED
      BY <1>2, <1>9, <1>10
  <2> HIDE DEF E, es
  <2>3. Chain(tabla_LR_planificados, es, z) /\ z \in Seq(E)
    BY <2>1, ConcatIs
  <2> HIDE DEF z
  <2>4. DOMAIN z = 1 .. l + n /\ (\A i \in 1 .. l : z[i] = tabla_LR_planificados[i])
        /\ \A i \in 1 .. n : z[l + i] = es[i]
    BY <2>2, <2>3 DEF Chain
  <2>5. \A i \in 1 .. l + n : q.lr[i] = z[i]
    <3> SUFFICES ASSUME NEW i \in 1 .. l + n PROVE q.lr[i] = z[i]
      OBVIOUS
    <3>1. CASE i \in 1 .. l
      BY <1>11, <2>4, <3>1
    <3>2. CASE i \notin 1 .. l
      <4> DEFINE j == i - l
      <4>1. j \in 1 .. n /\ i = l + j
        BY <1>2, <1>3, <3>2
      <4> HIDE DEF j
      <4> QED
        BY <1>9, <1>11, <2>4, <4>1
    <3> QED
      BY <3>1, <3>2
  <2>6. Len(z) = l + n /\ Len(q.lr) = l + n
    <3>1. Len(q.lr) \in Nat /\ 1 .. Len(q.lr) = 1 .. l + n /\ l + n \in Nat
      BY <1>2, <1>3, <1>8, <1>11
    <3>2. Len(z) \in Nat /\ 1 .. Len(z) = 1 .. l + n
      BY <2>3, <2>4
    <3> QED
      BY <3>1, <3>2
  <2>7. q.lr = z
    BY <1>8, <2>3, <2>5, <2>6, <1>11, <2>4
  <2> QED
    BY <2>7 DEF z
<1> QED
  BY <1>12 DEF q

-----------------------------------------------------------------------------
(* A planning gives every block to a node that holds it.                   *)
LEMMA PlanBlockOnReplica ==
    ASSUME config \in Configs, NEW t, Table_OK(t), t # <<>>, NEW acc \in PlanOf(t),
           NEW b \in Block, ~PlanBlock(acc, b).overflow
    PROVE  LET q == PlanBlock(acc, b)
           IN  /\ ~acc.overflow
               /\ \E n \in Replicas(b) : q.tasks = Append(acc.tasks, [nodo |-> n, tmps |-> <<b>>])
<1> DEFINE p == DoPlanning(acc.nodos, Replicas(b), config.availBase, StackDepth)
           q == PlanBlock(acc, b)
           n == CHOOSE n \in p.found : TRUE
           l == [nodo |-> n, tmps |-> <<b>>]
           g == p.tabla_nodos
<1>1. Table_OK(acc.nodos) /\ SameNodes(t, acc.nodos)
  BY DEF PlanOf
<1>2. acc.nodos # <<>>
  BY <1>1 DEF SameNodes, Table_OK
<1>3. config.availBase \in Int /\ StackDepth \in Nat
  <2>1. config \in [algoritm : Algorithm, availBase : Int]
    BY YamaAssumption
  <2> QED
    BY <2>1, YamaAssumption
<1>4. Planning(acc.nodos, Replicas(b), p)
  BY <1>1, <1>2, <1>3, DoPlanningOK
<1> HIDE DEF p
<1>5. ~(acc.overflow \/ p.found = {})
  <2> SUFFICES ASSUME acc.overflow \/ p.found = {} PROVE FALSE
    OBVIOUS
  <2>1. q = [acc EXCEPT !.overflow = TRUE]
    BY Zenon DEF PlanBlock, p
  <2>2. q.overflow
    BY <2>1 DEF PlanOf
  <2> QED
    BY <2>2
<1>6. PICK i \in DOMAIN acc.nodos : /\ p.found = {acc.nodos[i].node_id}
                                    /\ acc.nodos[i].node_id \in Replicas(b)
  BY <1>4, <1>5 DEF Planning
<1>7. n \in Replicas(b)
  BY <1>6
<1>9. q = Planned1(acc, g, l)
  BY <1>5, Zenon DEF PlanBlock, p, Planned1
<1> HIDE DEF n
<1>10. q.tasks = Append(acc.tasks, l)
  <2> DEFINE s == Append(acc.tasks, l)
             q1 == [acc EXCEPT !.nodos = g]
  <2>1. q = [q1 EXCEPT !.tasks = s]
    BY <1>9, Zenon DEF Planned1
  <2> HIDE DEF s, l, g, q
  <2>2. q1 \in [nodos : {g}, tasks : Seq(TasksOf(Node)), overflow : BOOLEAN]
    BY DEF PlanOf
  <2> HIDE DEF q1
  <2>3. q.tasks = s
    BY <2>1, <2>2
  <2> QED
    BY <2>3 DEF s
<1> HIDE DEF g, q
<1> QED
  BY <1>5, <1>7, <1>10 DEF l, q

LEMMA PlannedOnReplicas ==
    ASSUME config \in Configs, NEW t, Table_OK(t), NEW bs \in Seq(Block), bs # <<>> => t # <<>>,
           ~PlanBlocks(t, bs).overflow
    PROVE  \A k \in DOMAIN bs : PlanBlocks(t, bs).tasks[k].nodo \in Replicas(bs[k])
<1> DEFINE n == Len(bs)
           q == PlanBlocks(t, bs)
<1> SUFFICES ASSUME bs # <<>> PROVE \A k \in DOMAIN bs : q.tasks[k].nodo \in Replicas(bs[k])
  OBVIOUS
<1>1. n \in Nat /\ DOMAIN bs = 1 .. n /\ t # <<>>
  OBVIOUS
<1>2. PICK f : PlanPass(f, t, bs) /\ q = f[n]
  BY <1>1, PlanBlocksSteps
<1> HIDE DEF q
<1> DEFINE At(k, v) == v.overflow \/ /\ Len(v.tasks) = k
                                     /\ \A i \in 1 .. k : v.tasks[i].nodo \in Replicas(bs[i])
           W == {k \in 0 .. n : At(k, f[k])}
<1>3. 0 \in W
  <2>1. f[0].tasks = <<>>
    BY <1>2 DEF PlanPass
  <2>2. At(0, f[0])
    BY <2>1
  <2> HIDE DEF At
  <2> QED
    BY <1>1, <2>2
<1>4. ASSUME NEW k \in 0 .. n - 1, k \in W PROVE k + 1 \in W
  <2> DEFINE v == f[k]
             w == f[k + 1]
  <2>1. k + 1 \in 1 .. n /\ (k + 1) - 1 = k /\ k \in 0 .. n /\ k \in Nat /\ k + 1 \in 0 .. n
    BY <1>1
  <2>2. w = PlanBlock(v, bs[k + 1]) /\ v \in PlanOf(t) /\ bs[k + 1] \in Block
    BY <1>1, <1>2, <2>1 DEF PlanPass
  <2>3. At(k, v)
    BY <1>4
  <2> HIDE DEF v, w
  <2>4. CASE w.overflow
    <3>1. At(k + 1, w)
      BY <2>4
    <3> HIDE DEF At
    <3> QED
      BY <2>1, <3>1 DEF w
  <2>5. CASE ~w.overflow
    <3>1. ~v.overflow /\ \E m \in Replicas(bs[k + 1]) :
             w.tasks = Append(v.tasks, [nodo |-> m, tmps |-> <<bs[k + 1]>>])
      BY <1>1, <2>2, <2>5, PlanBlockOnReplica
    <3>2. PICK m \in Replicas(bs[k + 1]) :
             w.tasks = Append(v.tasks, [nodo |-> m, tmps |-> <<bs[k + 1]>>])
      BY <3>1
    <3> DEFINE l == [nodo |-> m, tmps |-> <<bs[k + 1]>>]
    <3>3. l.nodo = m
      OBVIOUS
    <3>4. v.tasks \in Seq(TasksOf(Node))
      BY <2>2 DEF PlanOf
    <3>5. Len(v.tasks) = k /\ \A i \in 1 .. k : v.tasks[i].nodo \in Replicas(bs[i])
      BY <2>3, <3>1
    <3> HIDE DEF l
    <3>6. /\ Len(w.tasks) = k + 1 /\ w.tasks[k + 1] = l
          /\ \A i \in 1 .. k : w.tasks[i] = v.tasks[i]
      BY <3>2, <3>4, <3>5 DEF l
    <3>7. ASSUME NEW i \in 1 .. k + 1 PROVE w.tasks[i].nodo \in Replicas(bs[i])
      <4>1. CASE i = k + 1
        BY <3>3, <3>6, <4>1
      <4>2. CASE i # k + 1
        <5>1. i \in 1 .. k
          BY <2>1, <4>2
        <5> QED
          BY <3>5, <3>6, <5>1
      <4> QED
        BY <4>1, <4>2
    <3>8. At(k + 1, w)
      BY <3>6, <3>7
    <3> HIDE DEF At
    <3> QED
      BY <2>1, <3>8 DEF w
  <2> QED
    BY <2>4, <2>5
<1>5. n \in W
  <2> HIDE DEF W, n
  <2>1. \A k \in 0 .. n : k \in W
    BY <1>1, <1>3, <1>4, Hasta
  <2> QED
    BY <1>1, <2>1
<1>6. At(n, q) /\ ~q.overflow
  BY <1>2, <1>5 DEF q
<1> QED
  BY <1>1, <1>6

(* The entries of the local reductions, of the entries of the job.         *)
LEMMA SinglyApart ==
    ASSUME NEW N, NEW planed \in Seq(PlannedOn(N)), NEW j, NEW arch,
           \A k \in DOMAIN planed : OwnedBy(j, planed[k]), Whole(planed, j, arch), Singly(planed, j)
    PROVE  Apart(planed)
<1>1. \A k \in DOMAIN planed : planed[k].tmps \in Seq(Block)
  BY EntryFields
<1>2. ASSUME NEW k \in DOMAIN planed
      PROVE  /\ Len(planed[k].tmps) = 1 /\ In(planed[k].tmps, planed[k].tmps[1])
  <2>1. PICK b \in Block : planed[k].tmps = <<b>>
    BY DEF Singly
  <2>2. Len(planed[k].tmps) = 1 /\ 1 \in DOMAIN planed[k].tmps
    BY <2>1
  <2> QED
    BY <2>2, Zenon DEF In
<1>3. ASSUME NEW k \in DOMAIN planed, NEW l \in DOMAIN planed, planed[k].tmps[1] = planed[l].tmps[1]
      PROVE  k = l
  <2> DEFINE b == planed[k].tmps[1]
  <2>1. In(planed[k].tmps, b) /\ In(planed[l].tmps, b)
    BY <1>2, <1>3
  <2>2. OwnedBy(j, planed[k]) /\ OwnedBy(j, planed[l])
    OBVIOUS
  <2> HIDE DEF b
  <2> QED
    BY <2>1, <2>2, Zenon DEF Whole
<1> QED
  BY <1>2, <1>3 DEF Apart

LEMMA RunsWhole ==
    ASSUME NEW N \in SUBSET Nat, NEW planed \in Seq(PlannedOn(N)), NEW j, NEW arch, NEW f,
           \A k \in DOMAIN planed : OwnedBy(j, planed[k]), Whole(planed, j, arch),
           Singly(planed, j), ByNode(planed), planed # <<>> => f = arch
    PROVE  Whole(PlannedEntries(Runs(planed), j.id, j.master, f), j, arch)
<1> DEFINE runs == Runs(planed)
           es == PlannedEntries(runs, j.id, j.master, f)
<1>1. /\ Len(planed) \in Nat /\ DOMAIN planed = 1 .. Len(planed)
      /\ \A k \in DOMAIN planed : planed[k].nodo \in N /\ planed[k].tmps \in Seq(Block)
  <2>1. \A k \in DOMAIN planed : planed[k] \in PlannedOn(N)
    OBVIOUS
  <2> QED
    BY <2>1 DEF PlannedOn
<1>2. Apart(planed)
  BY SinglyApart
<1>3. /\ runs \in Seq(TasksOf(N))
      /\ \A n, b : Has(runs, DOMAIN runs, n, b) <=> Has(planed, DOMAIN planed, n, b)
      /\ \A i, k \in DOMAIN runs : runs[i].nodo = runs[k].nodo => i = k
      /\ \A k \in DOMAIN runs : IsInjective(runs[k].tmps)
  BY <1>1, <1>2, GroupsAre DEF Runs
<1>4. runs # <<>> => f = arch
  BY RunsAre
<1> HIDE DEF runs
<1>5. /\ DOMAIN es = DOMAIN runs
      /\ \A k \in DOMAIN es : /\ es[k].tmps = runs[k].tmps /\ es[k].file = f
                              /\ es[k].job = j.id /\ es[k].master = j.master
  BY DEF PlannedEntries
<1> HIDE DEF es
<1>6. \A k \in DOMAIN es : OwnedBy(j, es[k])
  BY <1>5 DEF OwnedBy
<1>7. \A k \in DOMAIN runs : \A b : In(runs[k].tmps, b) =>
         \E p \in DOMAIN planed : planed[p].nodo = runs[k].nodo /\ In(planed[p].tmps, b)
  <2> SUFFICES ASSUME NEW k \in DOMAIN runs, NEW b, In(runs[k].tmps, b)
               PROVE  \E p \in DOMAIN planed : planed[p].nodo = runs[k].nodo /\ In(planed[p].tmps, b)
    OBVIOUS
  <2>1. Has(runs, DOMAIN runs, runs[k].nodo, b)
    BY Zenon DEF Has
  <2>2. Has(planed, DOMAIN planed, runs[k].nodo, b)
    BY <1>3, <2>1
  <2> QED
    BY <2>2, Zenon DEF Has
<1>8. ASSUME NEW k \in DOMAIN es, OwnedBy(j, es[k])
      PROVE  /\ es[k].file = arch /\ IsInjective(es[k].tmps)
             /\ \A b : In(es[k].tmps, b) => b \in BlocksOf(arch)
  <2>1. runs # <<>>
    BY <1>3, <1>5
  <2>2. \A b : In(es[k].tmps, b) => b \in BlocksOf(arch)
    BY <1>5, <1>7, Zenon DEF Whole
  <2> QED
    BY <1>3, <1>4, <1>5, <2>1, <2>2
<1>9. ASSUME NEW k \in DOMAIN es, NEW l \in DOMAIN es, NEW b, In(es[k].tmps, b), In(es[l].tmps, b)
      PROVE  k = l
  <2>1. PICK p \in DOMAIN planed : planed[p].nodo = runs[k].nodo /\ In(planed[p].tmps, b)
    BY <1>5, <1>7, <1>9
  <2>2. PICK q \in DOMAIN planed : planed[q].nodo = runs[l].nodo /\ In(planed[q].tmps, b)
    BY <1>5, <1>7, <1>9
  <2>3. p = q
    BY <2>1, <2>2, Zenon DEF Whole
  <2> QED
    BY <1>3, <1>5, <2>1, <2>2, <2>3
<1>10. ASSUME NEW b \in BlocksOf(arch) PROVE \E k \in DOMAIN es : OwnedBy(j, es[k]) /\ In(es[k].tmps, b)
  <2>1. PICK p \in DOMAIN planed : In(planed[p].tmps, b)
    BY DEF Whole
  <2>2. Has(planed, DOMAIN planed, planed[p].nodo, b)
    BY <2>1, Zenon DEF Has
  <2>3. Has(runs, DOMAIN runs, planed[p].nodo, b)
    BY <1>3, <2>2
  <2>4. PICK k \in DOMAIN runs : In(runs[k].tmps, b)
    BY <2>3, Zenon DEF Has
  <2> QED
    BY <1>5, <1>6, <2>4
<1>11. Whole(es, j, arch)
  BY <1>8, <1>9, <1>10, Zenon DEF Whole
<1> QED
  BY <1>11 DEF es, runs

-----------------------------------------------------------------------------
(* The entries PlannedFor selects, and those of a request.                 *)
LEMMA PlannedWhole ==
    ASSUME NEW N, NEW t \in Seq(PlannedOn(N)), NEW j
    PROVE  LET planed == PlannedFor(t, j.id, j.master)
           IN  /\ \A k \in DOMAIN planed : OwnedBy(j, planed[k])
               /\ \A arch : Whole(t, j, arch) => Whole(planed, j, arch)
               /\ Singly(t, j) => Singly(planed, j)
<1> DEFINE planed == PlannedFor(t, j.id, j.master)
           S == {i \in DOMAIN t : t[i].job = j.id /\ t[i].master = j.master}
<1>1. planed = Keep(t, S)
  BY Zenon DEF PlannedFor
<1>2. \A k \in DOMAIN t : OwnedBy(j, t[k]) => k \in S
  BY DEF OwnedBy
<1>3. \A k \in DOMAIN planed : OwnedBy(j, planed[k])
  <2>1. \A k \in DOMAIN planed : \E q \in DOMAIN t :
           planed[k] = t[q] /\ t[q].job = j.id /\ t[q].master = j.master
    BY PlannedForAre
  <2> HIDE DEF planed
  <2> QED
    BY <2>1 DEF OwnedBy
<1> HIDE DEF S
<1>4. /\ \A arch : Whole(t, j, arch) => Whole(Keep(t, S), j, arch)
      /\ Singly(t, j) => Singly(Keep(t, S), j)
  BY <1>2, WholeKept
<1> HIDE DEF planed
<1> QED
  BY <1>1, <1>3, <1>4, Zenon DEF planed

LEMMA SortedWhole ==
    ASSUME NEW N \in SUBSET Nat, NEW tasks \in Seq(TasksOf(N)), NEW arch \in Files,
           DOMAIN tasks = DOMAIN Layout[arch],
           \A k \in DOMAIN tasks : /\ tasks[k].tmps = <<<<arch, k>>>>
                                   /\ tasks[k].nodo \in Replicas(<<arch, k>>),
           NEW j
    PROVE  LET es == PlannedEntries(SortByNode(tasks), j.id, j.master, arch)
           IN  Whole(es, j, arch) /\ Singly(es, j)
<1> DEFINE v == SortByNode(tasks)
           es == PlannedEntries(v, j.id, j.master, arch)
           n == Len(tasks)
<1>1. v \in Seq(TasksOf(N)) /\ SameTasks(v, tasks, n)
  BY SortedAre
<1> HIDE DEF v
<1>2. DOMAIN tasks = 1 .. n /\ n \in Nat
  OBVIOUS
<1> HIDE DEF n
<1>3. \A k \in DOMAIN tasks : Len(tasks[k].tmps) = 1 /\ tasks[k].tmps[1] = <<arch, k>>
  <2> SUFFICES ASSUME NEW k \in DOMAIN tasks
               PROVE  Len(tasks[k].tmps) = 1 /\ tasks[k].tmps[1] = <<arch, k>>
    OBVIOUS
  <2> DEFINE b == <<arch, k>>
             m == tasks[k].tmps
  <2>1. m = <<b>>
    OBVIOUS
  <2> HIDE DEF b, m
  <2>2. Len(m) = 1 /\ m[1] = b
    BY <2>1
  <2> QED
    BY <2>2 DEF b, m
<1>4. Apart(tasks)
  BY <1>2, <1>3 DEF Apart
<1>5. /\ Apart(v)
      /\ \A i \in DOMAIN v : \E k \in DOMAIN tasks : v[i] = tasks[k]
      /\ \A k \in DOMAIN tasks : \E i \in DOMAIN v : v[i] = tasks[k]
  BY <1>1, <1>2, <1>4 DEF SameTasks
<1>6. /\ DOMAIN es = DOMAIN v
      /\ \A k \in DOMAIN es : /\ es[k].tmps = v[k].tmps /\ es[k].file = arch
                              /\ es[k].nodo = v[k].nodo
                              /\ es[k].job = j.id /\ es[k].master = j.master
  BY DEF PlannedEntries
<1> HIDE DEF es
<1>7. \A k \in DOMAIN Layout[arch] : <<arch, k>> \in Block /\ <<arch, k>> \in BlocksOf(arch)
  <2>1. Layout[arch] \in Seq(Node \X Node)
    BY LayoutAssumption
  <2>2. DOMAIN Layout[arch] = 1 .. Len(Layout[arch]) /\ Len(Layout[arch]) \in Nat
    BY <2>1
  <2> QED
    BY <2>2 DEF Block, BlocksOf
<1>8. ASSUME NEW i \in DOMAIN es
      PROVE  \E b \in BlocksOf(arch) : /\ b \in Block /\ es[i].tmps = <<b>>
                                       /\ es[i].nodo \in Replicas(b)
  <2>1. PICK k \in DOMAIN tasks : v[i] = tasks[k]
    BY <1>5, <1>6
  <2> DEFINE b == <<arch, k>>
  <2>2. es[i].tmps = <<b>> /\ es[i].nodo \in Replicas(b) /\ b \in Block /\ b \in BlocksOf(arch)
    BY <1>6, <1>7, <2>1
  <2> HIDE DEF b
  <2> QED
    BY <2>2
<1>9. \A i \in DOMAIN es : \A b : In(es[i].tmps, b) => es[i].tmps = <<b>> /\ es[i].tmps[1] = b
  <2> SUFFICES ASSUME NEW i \in DOMAIN es, NEW b, In(es[i].tmps, b)
               PROVE  es[i].tmps = <<b>> /\ es[i].tmps[1] = b
    OBVIOUS
  <2>1. PICK c : es[i].tmps = <<c>>
    BY <1>8
  <2>2. b = c
    BY <2>1 DEF In
  <2> QED
    BY <2>1, <2>2
<1>10. ASSUME NEW i \in DOMAIN es
       PROVE  IsInjective(es[i].tmps) /\ \A b : In(es[i].tmps, b) => b \in BlocksOf(arch)
  <2>1. PICK b \in BlocksOf(arch) : es[i].tmps = <<b>>
    BY <1>8
  <2>2. IsInjective(es[i].tmps)
    BY <2>1 DEF IsInjective
  <2>3. \A c : In(es[i].tmps, c) => c = b
    BY <2>1 DEF In
  <2> QED
    BY <2>2, <2>3
<1>11. ASSUME NEW i \in DOMAIN es, NEW k \in DOMAIN es, NEW b, In(es[i].tmps, b), In(es[k].tmps, b)
       PROVE  i = k
  <2>1. es[i].tmps[1] = b /\ es[k].tmps[1] = b
    BY <1>9, <1>11
  <2>2. v[i].tmps[1] = v[k].tmps[1] /\ i \in DOMAIN v /\ k \in DOMAIN v
    BY <1>6, <2>1
  <2> QED
    BY <1>5, <2>2 DEF Apart
<1>12. ASSUME NEW b \in BlocksOf(arch) PROVE \E i \in DOMAIN es : OwnedBy(j, es[i]) /\ In(es[i].tmps, b)
  <2>1. PICK k \in DOMAIN Layout[arch] : b = <<arch, k>>
    BY DEF BlocksOf
  <2>2. PICK i \in DOMAIN v : v[i] = tasks[k]
    BY <1>5, <2>1
  <2>3. es[i].tmps = <<b>> /\ OwnedBy(j, es[i])
    BY <1>6, <2>1, <2>2 DEF OwnedBy
  <2>4. In(es[i].tmps, b)
    BY <2>3 DEF In
  <2> QED
    BY <1>6, <2>3, <2>4
<1>13. Whole(es, j, arch)
  <2>1. \A k \in DOMAIN es : es[k].file = arch
    BY <1>6
  <2> QED
    BY <1>10, <1>11, <1>12, <2>1, Zenon DEF Whole
<1>14. Singly(es, j)
  BY <1>8 DEF Singly
<1> QED
  BY <1>13, <1>14 DEF es, v

(* The request for the transformation of a file.                           *)
PlansFile(fd, arch, es) ==
    /\ tabla_jobs' = Append(tabla_jobs, NewJob(fd))
    /\ tabla_T_planificados' = tabla_T_planificados \o es
    /\ Whole(es, NewJob(fd), arch) /\ Singly(es, NewJob(fd))
    /\ es \in Seq(Planned)
    /\ \A k \in DOMAIN es : OwnedBy(NewJob(fd), es[k])
    /\ tabla_LR_planificados' = tabla_LR_planificados
    /\ tabla_GR_planificados' = tabla_GR_planificados

LEMMA RequestPlansFile ==
    ASSUME TypeInv, NEW fd \in FDs, ProcessTransformation(fd)
    PROVE  \/ Crash
           \/ \E arch \in Files : \E es : PlansFile(fd, arch, es)
<1> DEFINE arch == Head(pedidos[fd]).file
           t1 == AddNodesOf(arch)
           t2 == UpdateAvailability(t1, config.algoritm, config.availBase)
           bs == [k \in DOMAIN Layout[arch] |-> <<arch, k>>]
           p == PlanBlocks(t2, bs)
           sorted == SortByNode(p.tasks)
           j == NewJob(fd)
           es == PlannedEntries(SortByNode(p.tasks), j.id, j.master, arch)
<1>0. j.id = jobs /\ j.master = fd
  BY DEF NewJob
<1>1. /\ Attend(fd, "T")
      /\ \/ Crash
         \/ /\ ~p.overflow
            /\ tabla_jobs' = Append(tabla_jobs, NewJob(fd))
            /\ tabla_T_planificados' = tabla_T_planificados
                                         \o PlannedEntries(sorted, jobs, fd, arch)
            /\ tabla_LR_planificados' = tabla_LR_planificados
            /\ tabla_GR_planificados' = tabla_GR_planificados
  BY Zenon DEF ProcessTransformation
<1>2. SUFFICES ASSUME ~Crash
               PROVE  \E a \in Files : \E e : PlansFile(fd, a, e)
  OBVIOUS
<1>3. Tables /\ SocketsOK /\ Table_OK(tabla_nodos) /\ jobs \in Nat
  BY DEF TypeInv, Tables
<1>4. arch \in Files /\ Layout[arch] \in Seq(Node \X Node)
  <2>1. pedidos[fd] # <<>> /\ Head(pedidos[fd]).op = "T"
    BY <1>1 DEF Attend, Receive
  <2>2. arch \in Files
    BY <1>3, <2>1, MessageIs
  <2> QED
    BY <2>2, LayoutAssumption
<1>5. bs \in Seq(Block) /\ (bs # <<>> => Layout[arch] # <<>>) /\ DOMAIN bs = DOMAIN Layout[arch]
      /\ \A k \in DOMAIN bs : bs[k] = <<arch, k>>
  <2>1. DOMAIN Layout[arch] = 1 .. Len(Layout[arch]) /\ Len(Layout[arch]) \in Nat
    BY <1>4
  <2>2. \A k \in DOMAIN Layout[arch] : <<arch, k>> \in Block
    BY <1>4, <2>1 DEF Block
  <2> QED
    BY <2>1, <2>2
<1> HIDE DEF arch, j
<1>6. Table_OK(t1) /\ (Layout[arch] # <<>> => t1 # <<>>)
  BY <1>3, <1>4, AddNodesOfIs, ConfigIs DEF KnownNodes
<1> HIDE DEF t1
<1>7. Table_OK(t2) /\ SameNodes(t1, t2)
  BY <1>3, <1>6, AvailabilityKeepsTable, ConfigIs
<1> HIDE DEF t2
<1>8. bs # <<>> => t2 # <<>>
  BY <1>5, <1>6, <1>7 DEF SameNodes, Table_OK
<1> HIDE DEF bs
<1>9. /\ p.tasks \in Seq(TasksOf(Node)) /\ DOMAIN p.tasks = DOMAIN bs
      /\ \A k \in DOMAIN bs : p.tasks[k].tmps = <<bs[k]>>
  BY <1>1, <1>2, <1>3, <1>5, <1>7, <1>8, ConfigIs, PlanBlocksIs
<1>10. \A k \in DOMAIN bs : p.tasks[k].nodo \in Replicas(bs[k])
  <2>1. config \in Configs
    BY <1>3, ConfigIs DEF Tables
  <2> QED
    BY <1>1, <1>2, <1>5, <1>7, <1>8, <2>1, PlannedOnReplicas
<1> DEFINE tasks == p.tasks
<1>11. /\ tasks \in Seq(TasksOf(Node)) /\ DOMAIN tasks = DOMAIN Layout[arch]
       /\ \A k \in DOMAIN tasks : /\ tasks[k].tmps = <<<<arch, k>>>>
                                  /\ tasks[k].nodo \in Replicas(<<arch, k>>)
  BY <1>5, <1>9, <1>10
<1> HIDE DEF p
<1>12. Node \in SUBSET Nat
  BY LayoutAssumption
<1>13. Whole(es, j, arch) /\ Singly(es, j)
  <2> HIDE DEF tasks
  <2>1. Whole(PlannedEntries(SortByNode(tasks), j.id, j.master, arch), j, arch)
        /\ Singly(PlannedEntries(SortByNode(tasks), j.id, j.master, arch), j)
    BY <1>4, <1>11, <1>12, SortedWhole
  <2> QED
    BY <2>1 DEF tasks
<1>14. tabla_T_planificados' = tabla_T_planificados \o es
  BY <1>0, <1>1, <1>2
<1>15. es \in Seq(Planned) /\ \A k \in DOMAIN es : OwnedBy(j, es[k])
  <2> DEFINE v == SortByNode(tasks)
  <2>1. v \in Seq(TasksOf(Node))
    <3> HIDE DEF tasks
    <3> QED
      BY <1>11, <1>12, SortedAre
  <2>2. es = PlannedEntries(v, j.id, j.master, arch)
    OBVIOUS
  <2> HIDE DEF v, es
  <2>3. j.id \in Nat /\ j.master \in FDs
    BY <1>0, <1>3
  <2>4. \A k \in DOMAIN v : v[k].nodo \in Node /\ v[k].tmps \in Seq(Block)
    <3>1. \A k \in DOMAIN v : v[k] \in TasksOf(Node)
      BY <2>1
    <3> QED
      BY <3>1 DEF TasksOf
  <2>5. es = [k \in DOMAIN v |-> [job |-> j.id, master |-> j.master, nodo |-> v[k].nodo,
                                   tmps |-> v[k].tmps, file |-> arch]]
    BY <2>2 DEF PlannedEntries
  <2>6. DOMAIN v = 1 .. Len(v) /\ Len(v) \in Nat
    BY <2>1
  <2> HIDE DEF j
  <2>7. \A k \in DOMAIN v : es[k] \in Planned /\ OwnedBy(j, es[k])
    BY <1>4, <2>3, <2>4, <2>5 DEF Planned, OwnedBy
  <2>8. es \in Seq(Planned)
    BY <2>5, <2>6, <2>7
  <2> QED
    BY <2>5, <2>7, <2>8
<1> HIDE DEF es
<1>16. PlansFile(fd, arch, es)
  BY <1>1, <1>2, <1>13, <1>14, <1>15, Zenon DEF PlansFile, j
<1> QED
  BY <1>4, <1>16

-----------------------------------------------------------------------------
(* Every job in process at stage e has all its entries in t.               *)
InStage(j, e) == j.estado = "P" /\ j.etapa = e
Filed(t, j, one) == \E arch \in Files : Whole(t, j, arch) /\ (one => Singly(t, j))
WholeFor(t, js, e, one) == \A i \in DOMAIN js : InStage(js[i], e) => Filed(t, js[i], one)
CoverT == WholeFor(tabla_T_planificados, tabla_jobs, "T", TRUE)
CoverL == WholeFor(tabla_LR_planificados, tabla_jobs, "L", FALSE)

(* The jobs at stage e are some of those that were; a job past its         *)
(* transformation stays so.                                                *)
Still(js, ks, e) ==
    \A i \in DOMAIN ks : InStage(ks[i], e) =>
       /\ i \in DOMAIN js /\ InStage(js[i], e)
       /\ ks[i].id = js[i].id /\ ks[i].master = js[i].master
Past(js, ks) ==
    \A i \in DOMAIN js : /\ i \in DOMAIN ks
                         /\ ks[i].id = js[i].id /\ ks[i].master = js[i].master
                         /\ js[i].etapa # "T" => ks[i].etapa # "T"

LEMMA FiledSame ==
    ASSUME NEW t, NEW j, NEW k, j.id = k.id, j.master = k.master, NEW one, Filed(t, j, one)
    PROVE  Filed(t, k, one)
<1>1. \A e : OwnedBy(j, e) <=> OwnedBy(k, e)
  BY DEF OwnedBy
<1>2. PICK arch \in Files : Whole(t, j, arch) /\ (one => Singly(t, j))
  BY DEF Filed
<1>3. Whole(t, k, arch)
  BY <1>1, <1>2, Zenon DEF Whole
<1>4. one => Singly(t, k)
  BY <1>1, <1>2, Zenon DEF Singly
<1> QED
  BY <1>3, <1>4 DEF Filed

LEMMA StillWhole ==
    ASSUME NEW t, NEW js, NEW ks, NEW e, NEW one, WholeFor(t, js, e, one), Still(js, ks, e)
    PROVE  WholeFor(t, ks, e, one)
<1> SUFFICES ASSUME NEW i \in DOMAIN ks, InStage(ks[i], e) PROVE Filed(t, ks[i], one)
  BY DEF WholeFor
<1>1. /\ i \in DOMAIN js /\ InStage(js[i], e)
      /\ ks[i].id = js[i].id /\ ks[i].master = js[i].master
  BY DEF Still
<1>2. Filed(t, js[i], one)
  BY <1>1 DEF WholeFor
<1> QED
  BY <1>1, <1>2, FiledSame

LEMMA KeptWhole ==
    ASSUME NEW E, NEW t \in Seq(E), NEW js, NEW e, NEW one, WholeFor(t, js, e, one), NEW S,
           \A i \in DOMAIN js : \A k \in DOMAIN t : InStage(js[i], e) /\ OwnedBy(js[i], t[k]) => k \in S
    PROVE  WholeFor(Keep(t, S), js, e, one)
<1> SUFFICES ASSUME NEW i \in DOMAIN js, InStage(js[i], e) PROVE Filed(Keep(t, S), js[i], one)
  BY DEF WholeFor
<1>1. PICK arch \in Files : Whole(t, js[i], arch) /\ (one => Singly(t, js[i]))
  BY DEF WholeFor, Filed
<1>2. \A k \in DOMAIN t : OwnedBy(js[i], t[k]) => k \in S
  OBVIOUS
<1>3. /\ \A a : Whole(t, js[i], a) => Whole(Keep(t, S), js[i], a)
      /\ Singly(t, js[i]) => Singly(Keep(t, S), js[i])
  BY <1>2, WholeKept
<1> QED
  BY <1>1, <1>3 DEF Filed

(* Entries are added: those of a job that had none, to those of others.    *)
LEMMA JoinedWhole ==
    ASSUME NEW E, NEW t \in Seq(E), NEW w \in Seq(E), NEW js, NEW e, NEW one,
           \A i \in DOMAIN js : InStage(js[i], e) =>
              \/ Filed(t, js[i], one) /\ NoneOf(w, js[i])
              \/ NoneOf(t, js[i]) /\ Filed(w, js[i], one)
    PROVE  WholeFor(t \o w, js, e, one)
<1> SUFFICES ASSUME NEW i \in DOMAIN js, InStage(js[i], e) PROVE Filed(t \o w, js[i], one)
  BY DEF WholeFor
<1> DEFINE j == js[i]
<1> HIDE DEF j
<1>1. /\ NoneOf(w, j) => /\ \A arch : Whole(t, j, arch) => Whole(t \o w, j, arch)
                         /\ Singly(t, j) => Singly(t \o w, j)
      /\ NoneOf(t, j) => /\ \A arch : Whole(w, j, arch) => Whole(t \o w, j, arch)
                         /\ Singly(w, j) => Singly(t \o w, j)
  BY WholeJoined
<1>2. \/ Filed(t, j, one) /\ NoneOf(w, j)
      \/ NoneOf(t, j) /\ Filed(w, j, one)
  BY DEF j
<1>3. Filed(t \o w, j, one)
  BY <1>1, <1>2 DEF Filed
<1> QED
  BY <1>3 DEF j

(* What the messages do to the jobs of a stage.                            *)
LEMMA RewrittenIs ==
    ASSUME Tables, NEW fd, NEW e \in Stage, NEW j \in Job, Rewrites(fd, e, j)
    PROVE  \E i \in DOMAIN tabla_jobs :
              /\ tabla_jobs[i] = JobOf(fd, e) /\ InStage(tabla_jobs[i], e) /\ tabla_jobs[i].master = fd
              /\ DOMAIN tabla_jobs' = DOMAIN tabla_jobs /\ tabla_jobs'[i] = j
              /\ \A k \in DOMAIN tabla_jobs : k # i => tabla_jobs'[k] = tabla_jobs[k]
<1>1. tabla_jobs \in Seq(Job) /\ HasJob(fd, e) /\ SetJob(fd, e, j)
  BY DEF Tables, Rewrites
<1> DEFINE i == GetJobIndex(fd, e)
<1>2. /\ i \in DOMAIN tabla_jobs /\ JobOf(fd, e) = tabla_jobs[i] /\ JobOf(fd, e).master = fd
      /\ JobOf(fd, e).estado = "P" /\ JobOf(fd, e).etapa = e
  BY <1>1, JobOfIs
<1>3. /\ DOMAIN tabla_jobs' = DOMAIN tabla_jobs /\ tabla_jobs'[i] = j
      /\ \A k \in DOMAIN tabla_jobs : k # i => tabla_jobs'[k] = tabla_jobs[k]
  BY <1>1, SetJobIs
<1> HIDE DEF i
<1> QED
  BY <1>2, <1>3 DEF InStage

LEMMA JobsThen ==
    ASSUME Tables, NEW fd, NEW m, JobsDo(fd, m)
    PROVE  /\ Past(tabla_jobs, tabla_jobs')
           /\ m.op # "T" => Still(tabla_jobs, tabla_jobs', "T")
           /\ m.op \notin {"T", "L"} => Still(tabla_jobs, tabla_jobs', "L")
<1>1. tabla_jobs \in Seq(Job)
  BY DEF Tables
<1>2. CASE m.op = "T" /\ tabla_jobs' = Append(tabla_jobs, NewJob(fd))
  <2>1. /\ DOMAIN tabla_jobs \subseteq DOMAIN tabla_jobs'
        /\ \A i \in DOMAIN tabla_jobs : tabla_jobs'[i] = tabla_jobs[i]
    BY <1>1, <1>2
  <2> QED
    BY <1>2, <2>1 DEF Past
<1>3. CASE tabla_jobs' = tabla_jobs
  BY <1>3 DEF Past, Still
<1>4. CASE \E e \in Stage, j \in Job : Rewrites(fd, e, j) /\ Follows(m, JobOf(fd, e), j)
  <2>1. PICK e \in Stage, j \in Job : Rewrites(fd, e, j) /\ Follows(m, JobOf(fd, e), j)
    BY <1>4
  <2>2. PICK i \in DOMAIN tabla_jobs :
              /\ tabla_jobs[i] = JobOf(fd, e) /\ InStage(tabla_jobs[i], e) /\ tabla_jobs[i].master = fd
              /\ DOMAIN tabla_jobs' = DOMAIN tabla_jobs /\ tabla_jobs'[i] = j
              /\ \A k \in DOMAIN tabla_jobs : k # i => tabla_jobs'[k] = tabla_jobs[k]
    BY <2>1, RewrittenIs
  <2>3. /\ j.id = tabla_jobs[i].id /\ j.master = tabla_jobs[i].master
    BY <2>1, <2>2 DEF Rewrites
  <2>4. Follows(m, tabla_jobs[i], j)
    BY <2>1, <2>2
  <2>5. /\ tabla_jobs[i].etapa # "T" => j.etapa # "T"
        /\ m.op # "T" /\ InStage(j, "T") => InStage(tabla_jobs[i], "T")
        /\ m.op \notin {"T", "L"} => ~InStage(j, "L")
    BY <2>2, <2>4 DEF Follows, InStage
  <2>6. Past(tabla_jobs, tabla_jobs')
    BY <2>2, <2>3, <2>5 DEF Past
  <2>7. m.op # "T" => Still(tabla_jobs, tabla_jobs', "T")
    BY <2>2, <2>3, <2>5 DEF Still
  <2>8. m.op \notin {"T", "L"} => Still(tabla_jobs, tabla_jobs', "L")
    BY <2>2, <2>3, <2>5 DEF Still
  <2> QED
    BY <2>6, <2>7, <2>8
<1>5. CASE AllStopped(fd)
  <2>1. Past(tabla_jobs, tabla_jobs')
    BY <1>5 DEF AllStopped, Past
  <2>2. \A e : Still(tabla_jobs, tabla_jobs', e)
    BY <1>5 DEF AllStopped, Still, InStage
  <2> QED
    BY <2>1, <2>2
<1> QED
  BY <1>2, <1>3, <1>4, <1>5, Zenon DEF JobsDo

-----------------------------------------------------------------------------
(* Local reductions are of jobs past their transformation; what a global   *)
(* reduction is given is a file.                                           *)
LaterIn(t, js) ==
    \A k \in DOMAIN t : \E i \in DOMAIN js : OwnedBy(js[i], t[k]) /\ js[i].etapa # "T"
CompleteIn(t) ==
    \A k \in DOMAIN t :
       IsInjective(t[k].tmps) /\ \A b : In(t[k].tmps, b) <=> b \in BlocksOf(t[k].file)
After == LaterIn(tabla_LR_planificados, tabla_jobs)
Complete == CompleteIn(tabla_GR_planificados)
LaterPlans(fd) == CoverL' /\ After' /\ Complete'
IdIsNew(fd) == \A i \in DOMAIN tabla_jobs : tabla_jobs[i].master = fd => tabla_jobs[i].id < jobs

LEMMA LaterStill ==
    ASSUME NEW t, NEW js, NEW ks, LaterIn(t, js), Past(js, ks)
    PROVE  LaterIn(t, ks)
BY DEF LaterIn, Past, OwnedBy

LEMMA LaterKept ==
    ASSUME NEW E, NEW t \in Seq(E), NEW js, LaterIn(t, js), NEW S
    PROVE  LaterIn(Keep(t, S), js)
<1>1. \A k \in DOMAIN Keep(t, S) : \E i \in DOMAIN t \cap S : Keep(t, S)[k] = t[i]
  BY KeepIs
<1> DEFINE v == Keep(t, S)
<1> HIDE DEF v
<1>2. \A k \in DOMAIN v : \E i \in DOMAIN t : v[k] = t[i]
  BY <1>1 DEF v
<1>3. LaterIn(v, js)
  BY <1>2 DEF LaterIn
<1> QED
  BY <1>3 DEF v

LEMMA CompleteKept ==
    ASSUME NEW E, NEW t \in Seq(E), CompleteIn(t), NEW S
    PROVE  CompleteIn(Keep(t, S))
<1>1. \A k \in DOMAIN Keep(t, S) : \E i \in DOMAIN t \cap S : Keep(t, S)[k] = t[i]
  BY KeepIs
<1> DEFINE v == Keep(t, S)
<1> HIDE DEF v
<1>2. \A k \in DOMAIN v : \E i \in DOMAIN t : v[k] = t[i]
  BY <1>1 DEF v
<1>3. CompleteIn(v)
  BY <1>2 DEF CompleteIn
<1> QED
  BY <1>3 DEF v

(* A request for a file.                                                   *)
LEMMA RequestCovers ==
    ASSUME TypeInv, NEW fd \in FDs, NEW arch \in Files, NEW es, PlansFile(fd, arch, es),
           IdIsNew(fd), EntriesOwned
    PROVE  /\ CoverT => CoverT'
           /\ CoverL /\ After /\ Complete => LaterPlans(fd)
<1> DEFINE j == NewJob(fd)
           js == tabla_jobs
           ks == tabla_jobs'
           t == tabla_T_planificados
<1>1. /\ ks = Append(js, j) /\ tabla_T_planificados' = t \o es
      /\ Whole(es, j, arch) /\ Singly(es, j) /\ es \in Seq(Planned)
      /\ \A k \in DOMAIN es : OwnedBy(j, es[k])
      /\ tabla_LR_planificados' = tabla_LR_planificados
      /\ tabla_GR_planificados' = tabla_GR_planificados
  BY DEF PlansFile
<1>2. j.id = jobs /\ j.master = fd /\ j.estado = "P" /\ j.etapa = "T"
  BY DEF NewJob
<1> HIDE DEF j
<1>3. /\ js \in Seq(Job) /\ t \in Seq(PlannedOn(KnownNodes)) /\ jobs \in Nat
  BY DEF TypeInv, Tables
<1>4. /\ DOMAIN ks = DOMAIN js \cup {Len(js) + 1} /\ ks[Len(js) + 1] = j
      /\ \A i \in DOMAIN js : ks[i] = js[i] /\ i \in DOMAIN ks /\ js[i].id \in Nat
  <2>1. \A i \in DOMAIN js : js[i].id \in Nat
    <3>1. \A i \in DOMAIN js : js[i] \in Job
      BY <1>3
    <3> QED
      BY <3>1 DEF Job
  <2> QED
    BY <1>1, <1>3, <2>1
<1>5. \A i \in DOMAIN js : ~(js[i].id = j.id /\ js[i].master = j.master)
  BY <1>2, <1>3, <1>4 DEF IdIsNew
<1>6. NoneOf(t, j)
  <2> SUFFICES ASSUME NEW k \in DOMAIN t, OwnedBy(j, t[k]) PROVE FALSE
    BY DEF NoneOf
  <2>1. PICK i \in DOMAIN js : OwnedBy(js[i], t[k])
    BY DEF EntriesOwned, HasOwner
  <2> QED
    BY <1>5, <2>1 DEF OwnedBy
<1>7. \A i \in DOMAIN js : NoneOf(es, js[i])
  BY <1>1, <1>5 DEF NoneOf, OwnedBy
<1>8. ASSUME CoverT PROVE CoverT'
  <2>1. \A i \in DOMAIN ks : InStage(ks[i], "T") =>
              \/ Filed(t, ks[i], TRUE) /\ NoneOf(es, ks[i])
              \/ NoneOf(t, ks[i]) /\ Filed(es, ks[i], TRUE)
    <3> SUFFICES ASSUME NEW i \in DOMAIN ks, InStage(ks[i], "T")
                 PROVE  \/ Filed(t, ks[i], TRUE) /\ NoneOf(es, ks[i])
                        \/ NoneOf(t, ks[i]) /\ Filed(es, ks[i], TRUE)
      OBVIOUS
    <3>1. CASE i \in DOMAIN js
      BY <1>4, <1>7, <1>8, <3>1 DEF CoverT, WholeFor
    <3>2. CASE i \notin DOMAIN js
      <4>1. ks[i] = j
        BY <1>4, <3>2
      <4>2. Filed(es, j, TRUE)
        BY <1>1 DEF Filed
      <4> QED
        BY <1>6, <4>1, <4>2
    <3> QED
      BY <3>1, <3>2
  <2> DEFINE E == PlannedOn(KnownNodes) \cup Planned
  <2>2. t \in Seq(E) /\ es \in Seq(E)
    BY <1>1, <1>3
  <2> HIDE DEF E
  <2>3. WholeFor(t \o es, ks, "T", TRUE)
    BY <2>1, <2>2, JoinedWhole
  <2> QED
    BY <1>1, <2>3, Zenon DEF CoverT
<1>9. ASSUME CoverL, After, Complete PROVE LaterPlans(fd)
  <2>1. Still(js, ks, "L") /\ Past(js, ks)
    BY <1>2, <1>4 DEF Still, Past, InStage
  <2>2. WholeFor(tabla_LR_planificados, ks, "L", FALSE)
    BY <1>9, <2>1, StillWhole DEF CoverL
  <2>3. LaterIn(tabla_LR_planificados, ks)
    BY <1>9, <2>1, LaterStill DEF After
  <2> QED
    BY <1>1, <1>9, <2>2, <2>3, Zenon DEF LaterPlans, CoverL, After, Complete
<1> QED
  BY <1>8, <1>9

(* Handlers that leave the entries planned, or drop global reductions.     *)
LEMMA QuietCovers ==
    ASSUME TypeInv, NEW fd, NEW m, JobsDo(fd, m), m.op \notin {"T", "L"},
           tabla_T_planificados' = tabla_T_planificados,
           tabla_LR_planificados' = tabla_LR_planificados,
           \/ tabla_GR_planificados' = tabla_GR_planificados
           \/ \E S : tabla_GR_planificados' = Keep(tabla_GR_planificados, S)
    PROVE  /\ CoverT => CoverT'
           /\ CoverL /\ After /\ Complete => LaterPlans(fd)
<1>1. /\ Past(tabla_jobs, tabla_jobs') /\ Still(tabla_jobs, tabla_jobs', "T")
      /\ Still(tabla_jobs, tabla_jobs', "L")
  BY JobsThen DEF TypeInv
<1>2. ASSUME CoverT PROVE CoverT'
  <2>1. WholeFor(tabla_T_planificados, tabla_jobs', "T", TRUE)
    BY <1>1, <1>2, StillWhole DEF CoverT
  <2> QED
    BY <2>1, Zenon DEF CoverT
<1>3. ASSUME CoverL, After, Complete PROVE LaterPlans(fd)
  <2>1. WholeFor(tabla_LR_planificados, tabla_jobs', "L", FALSE)
    BY <1>1, <1>3, StillWhole DEF CoverL
  <2>2. LaterIn(tabla_LR_planificados, tabla_jobs')
    BY <1>1, <1>3, LaterStill DEF After
  <2>3. CompleteIn(tabla_GR_planificados')
    <3>1. tabla_GR_planificados \in Seq(PlannedOn(KnownNodes))
      BY DEF TypeInv, Tables
    <3> QED
      BY <1>3, <3>1, CompleteKept DEF Complete
  <2> QED
    BY <2>1, <2>2, <2>3, Zenon DEF LaterPlans, CoverL, After, Complete
<1> QED
  BY <1>2, <1>3

(* A message changes a job of its master: no other job of it is active.    *)
LEMMA NoOtherActive ==
    ASSUME Tables, OneActive, NEW fd, NEW e \in Stage, NEW j \in Job, Rewrites(fd, e, j)
    PROVE  \A i \in DOMAIN tabla_jobs' :
              tabla_jobs'[i].estado = "P" /\ tabla_jobs'[i].master = fd => tabla_jobs'[i] = j
<1>1. PICK i \in DOMAIN tabla_jobs :
              /\ tabla_jobs[i] = JobOf(fd, e) /\ InStage(tabla_jobs[i], e) /\ tabla_jobs[i].master = fd
              /\ DOMAIN tabla_jobs' = DOMAIN tabla_jobs /\ tabla_jobs'[i] = j
              /\ \A k \in DOMAIN tabla_jobs : k # i => tabla_jobs'[k] = tabla_jobs[k]
  BY RewrittenIs
<1> QED
  BY <1>1 DEF OneActive, ActiveJobs, InStage

-----------------------------------------------------------------------------
(* The two reductions.                                                     *)
LEMMA MovedIs ==
    ASSUME Tables, NEW fd, NEW from, NEW to \in Stage, MovesJob(fd, from, to)
    PROVE  \E j \in Job : /\ Rewrites(fd, from, j) /\ j.id = JobOf(fd, from).id
                          /\ j.master = fd /\ j.estado = "P" /\ j.etapa = to
<1>1. tabla_jobs \in Seq(Job) /\ HasJob(fd, from)
  BY DEF Tables, MovesJob
<1>2. JobOf(fd, from) \in Job /\ JobOf(fd, from).master = fd /\ JobOf(fd, from).estado = "P"
  BY <1>1, JobOfIs
<1> DEFINE k == JobOf(fd, from)
           j == [k EXCEPT !.etapa = to]
<1>3. j \in Job /\ j.id = k.id /\ j.master = fd /\ j.estado = "P" /\ j.etapa = to
  <2>1. /\ [k EXCEPT !.etapa = to] \in Job /\ [k EXCEPT !.etapa = to].etapa = to
        /\ [k EXCEPT !.etapa = to].id = k.id /\ [k EXCEPT !.etapa = to].master = k.master
        /\ [k EXCEPT !.etapa = to].estado = k.estado
    <3>1. k \in Job /\ to \in Stage
      BY <1>2
    <3> HIDE DEF k
    <3> QED
      BY <3>1, JobRewritten
  <2>2. k.master = fd /\ k.estado = "P"
    BY <1>2
  <2> HIDE DEF k
  <2> QED
    BY <2>1, <2>2 DEF j
<1>4. SetJob(fd, from, j)
  BY DEF MovesJob
<1> HIDE DEF j
<1>5. Rewrites(fd, from, j)
  BY <1>1, <1>3, <1>4 DEF Rewrites
<1> QED
  BY <1>3, <1>5

(* The entries deleted are of the master of the request, whose job is past *)
(* the stage.                                                              *)
LEMMA DeletedCovers ==
    ASSUME Tables, OneActive, NEW fd \in FDs, NEW from \in Stage, NEW to \in Stage,
           MovesJob(fd, from, to), NEW t \in Seq(PlannedOn(KnownNodes)), NEW n, NEW e \in Stage \ {to},
           NEW one, WholeFor(t, tabla_jobs, e, one), Still(tabla_jobs, tabla_jobs', e)
    PROVE  WholeFor(DeletePlaned(t, fd, n), tabla_jobs', e, one)
<1> DEFINE ks == tabla_jobs'
           rank(i) == Cardinality({j \in 1 .. i : t[j].master = fd})
           S == {i \in DOMAIN t : t[i].master = fd => rank(i) > n}
<1>1. PICK j \in Job : Rewrites(fd, from, j) /\ j.etapa = to
  BY MovedIs
<1>2. \A i \in DOMAIN ks : ks[i].estado = "P" /\ ks[i].master = fd => ks[i] = j
  BY <1>1, NoOtherActive
<1>3. \A i \in DOMAIN ks : InStage(ks[i], e) => ks[i].master # fd
  BY <1>1, <1>2 DEF InStage
<1>4. WholeFor(t, ks, e, one)
  BY StillWhole
<1>5. \A i \in DOMAIN ks : \A k \in DOMAIN t : InStage(ks[i], e) /\ OwnedBy(ks[i], t[k]) => k \in S
  <2> HIDE DEF rank
  <2> QED
    BY <1>3 DEF OwnedBy
<1>6. DeletePlaned(t, fd, n) = Keep(t, S)
  BY Zenon DEF DeletePlaned
<1> HIDE DEF S, ks
<1>7. WholeFor(Keep(t, S), ks, e, one)
  BY <1>4, <1>5, KeptWhole
<1> QED
  BY <1>6, <1>7 DEF ks

LEMMA LocalReductionCovers ==
    ASSUME TypeInv, NoTwoAlike, OneActive, NEW fd \in FDs, ProcessLocalReduction(fd), CoverT
    PROVE  /\ CoverT'
           /\ /\ CoverL /\ After /\ Complete /\ NoneReducing(JobOf(fd, "T").id)
              /\ ByNode(PlannedFor(tabla_T_planificados, JobOf(fd, "T").id, fd))
              => LaterPlans(fd)
<1> DEFINE k == JobOf(fd, "T")
           id == k.id
           planed == PlannedFor(tabla_T_planificados, id, fd)
           f == planed[1].file
           runs == Runs(planed)
           es == PlannedEntries(runs, id, fd, f)
           t == tabla_T_planificados
           lr == tabla_LR_planificados
           js == tabla_jobs
           ks == tabla_jobs'
<1>1. /\ HasJob(fd, "T")
      /\ tabla_T_planificados' = DeletePlaned(t, fd, Len(planed))
      /\ tabla_LR_planificados' = PlanLocalReductions(Runs(planed), id, fd, f).lr
      /\ tabla_GR_planificados' = tabla_GR_planificados
      /\ SetJob(fd, "T", [k EXCEPT !.etapa = "L"]) /\ conectados' = conectados
  BY Zenon DEF ProcessLocalReduction
<1>2. /\ Tables /\ js \in Seq(Job) /\ Table_OK(tabla_nodos)
      /\ t \in Seq(PlannedOn(KnownNodes)) /\ lr \in Seq(PlannedOn(KnownNodes))
  BY DEF TypeInv, Tables
<1>3. MovesJob(fd, "T", "L") /\ {"T", "L"} \subseteq Stage
  BY <1>1, Zenon DEF MovesJob, Stage
<1>4. k \in Job /\ id \in Nat /\ k.master = fd
  BY <1>1, <1>2, JobOfIs
<1> DEFINE m == [op |-> "L"]
<1>5. /\ Past(js, ks) /\ Still(js, ks, "T")
  <2>1. m.op = "L" /\ {"L"} \subseteq {"L", "G", "S"}
    OBVIOUS
  <2> HIDE DEF m
  <2>2. JobsDo(fd, m)
    BY <1>1, <1>2, <1>3, <2>1, AdvancesDo
  <2> QED
    BY <1>2, <2>1, <2>2, JobsThen
<1>6. CoverT'
  <2>1. WholeFor(DeletePlaned(t, fd, Len(planed)), ks, "T", TRUE)
    <3> DEFINE n == Len(planed)
    <3> HIDE DEF n
    <3>1. WholeFor(t, js, "T", TRUE) /\ "T" \in Stage \ {"L"}
      BY <1>3 DEF CoverT
    <3> QED
      BY <1>2, <1>3, <1>5, <3>1, DeletedCovers
  <2> QED
    BY <1>1, <2>1, Zenon DEF CoverT
<1>7. ASSUME CoverL, After, Complete, NoneReducing(id), ByNode(planed) PROVE LaterPlans(fd)
  <2>1. PICK j \in Job : /\ Rewrites(fd, "T", j) /\ j.id = id
                         /\ j.master = fd /\ j.estado = "P" /\ j.etapa = "L"
    BY <1>2, <1>3, MovedIs
  <2>2. PICK x \in DOMAIN js :
              /\ js[x] = k /\ InStage(js[x], "T") /\ js[x].master = fd
              /\ DOMAIN ks = DOMAIN js /\ ks[x] = j
              /\ \A i \in DOMAIN js : i # x => ks[i] = js[i]
    BY <1>2, <1>3, <2>1, RewrittenIs
  <2>3. PICK arch \in Files : Whole(t, k, arch) /\ Singly(t, k)
    BY <2>2 DEF CoverT, WholeFor, Filed
  <2>4. /\ planed \in Seq(PlannedOn(KnownNodes))
        /\ \A i \in DOMAIN planed : OwnedBy(k, planed[i])
        /\ Whole(planed, k, arch) /\ Singly(planed, k)
    <3>1. planed = PlannedFor(t, k.id, k.master)
      BY <1>4
    <3>2. /\ \A i \in DOMAIN PlannedFor(t, k.id, k.master) : OwnedBy(k, PlannedFor(t, k.id, k.master)[i])
          /\ \A a : Whole(t, k, a) => Whole(PlannedFor(t, k.id, k.master), k, a)
          /\ Singly(t, k) => Singly(PlannedFor(t, k.id, k.master), k)
      <4> HIDE DEF k
      <4> QED
        BY <1>2, PlannedWhole
    <3>3. PlannedFor(t, k.id, k.master) \in Seq(PlannedOn(KnownNodes))
      <4> HIDE DEF k
      <4> QED
        BY <1>2, PlannedForIs
    <3> HIDE DEF planed, k
    <3> QED
      BY <2>3, <3>1, <3>2, <3>3
  <2>5. KnownNodes \in SUBSET Nat
    <3>1. KnownNodes \in SUBSET Node
      BY <1>2, NodesAreNodes DEF KnownNodes
    <3> QED
      BY <3>1, LayoutAssumption
  <2>6. planed # <<>> => f = arch
    <3>1. planed # <<>> => 1 \in DOMAIN planed
      <4> HIDE DEF planed
      <4> QED
        BY <2>4
    <3> HIDE DEF planed
    <3> QED
      BY <2>4, <3>1 DEF Whole
  <2>7. runs \in Seq(TasksOf(KnownNodes)) /\ Different(runs) /\ (runs # <<>> => f \in Files)
    <3>1. runs \in Seq(TasksOf(KnownNodes)) /\ Different(runs)
      <4> HIDE DEF planed
      <4> QED
        BY <1>7, <2>4, <2>5, LocalsTell
    <3>2. runs # <<>> => planed # <<>>
      <4> HIDE DEF planed
      <4> QED
        BY <2>4, RunsAre
    <3> HIDE DEF runs, planed, f
    <3> QED
      BY <2>6, <3>1, <3>2
  <2>8. tabla_LR_planificados' = lr \o es
    <3>1. PlanLocalReductions(runs, id, fd, f).lr = lr \o es
      <4> HIDE DEF runs, f, id
      <4> QED
        BY <1>2, <1>4, <1>7, <2>7, LocalEntriesAdded DEF KnownNodes
    <3> QED
      BY <1>1, <3>1
  <2>9. Whole(es, k, arch)
    <3>1. Whole(PlannedEntries(Runs(planed), k.id, k.master, f), k, arch)
      <4> HIDE DEF planed, k, f
      <4> QED
        BY <2>4, <2>5, <2>6, <1>7, RunsWhole
    <3> QED
      BY <1>4, <3>1
  <2>10. es \in Seq(PlannedOn(KnownNodes)) /\ \A i \in DOMAIN es : es[i].job = id /\ es[i].master = fd
    <3>1. es \in Seq(PlannedOn(KnownNodes))
      <4> HIDE DEF runs, id, f
      <4> QED
        BY <1>4, <2>7, EntriesOfTasks
    <3>2. \A i \in DOMAIN es : es[i].job = id /\ es[i].master = fd
      <4> HIDE DEF runs, id, f
      <4> QED
        BY DEF PlannedEntries
    <3> QED
      BY <3>1, <3>2
  <2> HIDE DEF es, planed, runs, f
  <2>11. \A i \in DOMAIN js : js[i].id = id /\ js[i].master = fd => i = x
    BY <1>4, <2>2 DEF NoTwoAlike
  <2>12. NoneOf(lr, k)
    <3> SUFFICES ASSUME NEW i \in DOMAIN lr, OwnedBy(k, lr[i]) PROVE FALSE
      BY DEF NoneOf
    <3>1. PICK y \in DOMAIN js : OwnedBy(js[y], lr[i]) /\ js[y].etapa # "T"
      BY <1>7 DEF After, LaterIn
    <3>2. y = x
      BY <1>4, <2>11, <3>1 DEF OwnedBy
    <3> QED
      BY <2>2, <3>1, <3>2 DEF InStage
  <2>13. WholeFor(lr \o es, ks, "L", FALSE)
    <3>1. ASSUME NEW i \in DOMAIN ks, InStage(ks[i], "L")
          PROVE  \/ Filed(lr, ks[i], FALSE) /\ NoneOf(es, ks[i])
                 \/ NoneOf(lr, ks[i]) /\ Filed(es, ks[i], FALSE)
      <4>1. CASE i = x
        <5>1. ks[i].id = k.id /\ ks[i].master = k.master
          BY <1>4, <2>1, <2>2, <4>1
        <5>2. Filed(es, k, FALSE)
          BY <2>9 DEF Filed
        <5> HIDE DEF k
        <5>3. Filed(es, ks[i], FALSE)
          BY <5>1, <5>2, FiledSame
        <5>4. NoneOf(lr, ks[i])
          BY <2>12, <5>1 DEF NoneOf, OwnedBy
        <5> QED
          BY <5>3, <5>4
      <4>2. CASE i # x
        <5>1. i \in DOMAIN js /\ ks[i] = js[i]
          BY <2>2, <4>2
        <5>2. Filed(lr, ks[i], FALSE)
          BY <1>7, <3>1, <5>1 DEF CoverL, WholeFor
        <5>3. NoneOf(es, ks[i])
          BY <2>10, <2>11, <4>2, <5>1 DEF NoneOf, OwnedBy
        <5> QED
          BY <5>2, <5>3
      <4> QED
        BY <4>1, <4>2
    <3> QED
      BY <1>2, <2>10, <3>1, JoinedWhole
  <2>14. LaterIn(lr \o es, ks)
    <3>1. LaterIn(lr, ks)
      BY <1>5, <1>7, LaterStill DEF After
    <3>2. \A i \in DOMAIN es : OwnedBy(ks[x], es[i]) /\ ks[x].etapa # "T" /\ x \in DOMAIN ks
      BY <2>1, <2>2, <2>10 DEF OwnedBy
    <3>3. Parts(lr, es, lr \o es)
      BY <1>2, <2>10, JoinParts
    <3> DEFINE z == lr \o es
    <3> HIDE DEF z
    <3>4. LaterIn(z, ks)
      BY <3>1, <3>2, <3>3 DEF LaterIn, Parts, z
    <3> QED
      BY <3>4 DEF z
  <2>15. CompleteIn(tabla_GR_planificados')
    BY <1>1, <1>7 DEF Complete
  <2> QED
    BY <2>8, <2>13, <2>14, <2>15, Zenon DEF LaterPlans, CoverL, After, Complete
<1> QED
  BY <1>6, <1>7
LEMMA GlobalReductionCovers ==
    ASSUME TypeInv, NoTwoAlike, OneActive, NEW fd \in FDs, ProcessGlobalReduction(fd)
    PROVE  /\ CoverT => CoverT'
           /\ CoverL /\ After /\ Complete => LaterPlans(fd)
<1> DEFINE k == JobOf(fd, "L")
           id == k.id
           planed == PlannedFor(tabla_LR_planificados, id, fd)
           f == planed[1].file
           encargado == GetLastChargedNode(planed)
           all == AllTmps(planed)
           e == [job |-> id, master |-> fd, nodo |-> encargado, tmps |-> all, file |-> f]
           lr == tabla_LR_planificados
           gr == tabla_GR_planificados
           js == tabla_jobs
           ks == tabla_jobs'
<1>1. /\ HasJob(fd, "L") /\ planed # <<>>
      /\ tabla_LR_planificados' = DeletePlaned(lr, fd, Len(planed))
      /\ tabla_T_planificados' = tabla_T_planificados
      /\ tabla_GR_planificados' = Append(gr, e)
      /\ SetJob(fd, "L", [k EXCEPT !.etapa = "G"]) /\ conectados' = conectados
  BY Zenon DEF ProcessGlobalReduction
<1>2. /\ Tables /\ js \in Seq(Job) /\ gr \in Seq(PlannedOn(KnownNodes))
      /\ lr \in Seq(PlannedOn(KnownNodes))
  BY DEF TypeInv, Tables
<1>3. MovesJob(fd, "L", "G") /\ {"L", "G"} \subseteq Stage
  BY <1>1, Zenon DEF MovesJob, Stage
<1>4. k \in Job /\ id \in Nat /\ k.master = fd
  BY <1>1, <1>2, JobOfIs
<1> DEFINE m == [op |-> "G"]
<1>5. /\ Past(js, ks) /\ Still(js, ks, "T") /\ Still(js, ks, "L")
  <2>1. m.op = "G" /\ {"G"} \subseteq {"L", "G", "S"}
    OBVIOUS
  <2> HIDE DEF m
  <2>2. JobsDo(fd, m)
    BY <1>1, <1>2, <1>3, <2>1, AdvancesDo
  <2> QED
    BY <1>2, <2>1, <2>2, JobsThen
<1>6. ASSUME CoverT PROVE CoverT'
  <2>1. WholeFor(tabla_T_planificados, ks, "T", TRUE)
    BY <1>5, <1>6, StillWhole DEF CoverT
  <2> QED
    BY <1>1, <2>1, Zenon DEF CoverT
<1>7. ASSUME CoverL, After, Complete PROVE LaterPlans(fd)
  <2>1. WholeFor(DeletePlaned(lr, fd, Len(planed)), ks, "L", FALSE)
    <3> DEFINE n == Len(planed)
    <3> HIDE DEF n
    <3>1. WholeFor(lr, js, "L", FALSE) /\ "L" \in Stage \ {"G"}
      BY <1>3, <1>7 DEF CoverL
    <3> QED
      BY <1>2, <1>3, <1>5, <3>1, DeletedCovers
  <2>2. LaterIn(DeletePlaned(lr, fd, Len(planed)), ks)
    <3>1. LaterIn(lr, ks)
      BY <1>5, <1>7, LaterStill DEF After
    <3>2. \E S : DeletePlaned(lr, fd, Len(planed)) = Keep(lr, S)
      BY Zenon DEF DeletePlaned
    <3> QED
      BY <1>2, <3>1, <3>2, LaterKept
  <2>3. PICK x \in DOMAIN js : js[x] = k /\ InStage(js[x], "L")
    <3>1. k = js[GetJobIndex(fd, "L")] /\ GetJobIndex(fd, "L") \in DOMAIN js
          /\ k.estado = "P" /\ k.etapa = "L"
      BY <1>1, <1>2, JobOfIs
    <3> HIDE DEF k
    <3> QED
      BY <3>1 DEF InStage
  <2>4. PICK arch \in Files : Whole(lr, k, arch)
    BY <1>7, <2>3 DEF CoverL, WholeFor, Filed
  <2>5. /\ planed \in Seq(PlannedOn(KnownNodes))
        /\ \A i \in DOMAIN planed : OwnedBy(k, planed[i])
        /\ Whole(planed, k, arch)
    <3>1. planed = PlannedFor(lr, k.id, k.master)
      BY <1>4
    <3>2. /\ \A i \in DOMAIN PlannedFor(lr, k.id, k.master) :
                OwnedBy(k, PlannedFor(lr, k.id, k.master)[i])
          /\ \A a : Whole(lr, k, a) => Whole(PlannedFor(lr, k.id, k.master), k, a)
      <4> HIDE DEF k
      <4> QED
        BY <1>2, PlannedWhole
    <3>3. PlannedFor(lr, k.id, k.master) \in Seq(PlannedOn(KnownNodes))
      <4> HIDE DEF k
      <4> QED
        BY <1>2, PlannedForIs
    <3> HIDE DEF planed, k
    <3> QED
      BY <2>4, <3>1, <3>2, <3>3
  <2>6. f = arch
    <3>1. 1 \in DOMAIN planed
      <4> HIDE DEF planed
      <4> QED
        BY <1>1, <2>5
    <3> HIDE DEF planed
    <3> QED
      BY <2>5, <3>1 DEF Whole
  <2>7. IsInjective(all) /\ \A b : In(all, b) <=> b \in BlocksOf(arch)
    <3> HIDE DEF planed
    <3>1. \A i \in DOMAIN planed : IsInjective(planed[i].tmps)
      BY <2>5 DEF Whole
    <3>2. \A i, l \in DOMAIN planed : \A b :
             In(planed[i].tmps, b) /\ In(planed[l].tmps, b) => i = l
      BY <2>5 DEF Whole
    <3>3. /\ IsInjective(AllTmps(planed))
          /\ \A b : In(AllTmps(planed), b) <=> \E i \in DOMAIN planed : In(planed[i].tmps, b)
      BY <2>5, <3>1, <3>2, TmpsTogether
    <3>4. \A b : b \in BlocksOf(arch) <=> \E i \in DOMAIN planed : In(planed[i].tmps, b)
      BY <2>5 DEF Whole
    <3> QED
      BY <3>3, <3>4
  <2>8. e.tmps = all /\ e.file = arch
    BY <2>6
  <2> HIDE DEF e, all
  <2>9. CompleteIn(Append(gr, e))
    <3> DEFINE g == Append(gr, e)
    <3>1. \A i \in DOMAIN g : g[i] = e \/ (i \in DOMAIN gr /\ g[i] = gr[i])
      BY <1>2
    <3> HIDE DEF g
    <3>2. CompleteIn(g)
      BY <1>7, <2>7, <2>8, <3>1 DEF Complete, CompleteIn
    <3> QED
      BY <3>2 DEF g
  <2> QED
    BY <1>1, <2>1, <2>2, <2>9, Zenon DEF LaterPlans, CoverL, After, Complete
<1> QED
  BY <1>6, <1>7

-----------------------------------------------------------------------------
(* Every step keeps the plans whole, while nothing fails.                  *)
PlansKept == CoverT /\ CoverL /\ After /\ Complete

LEMMA SamePlans ==
    ASSUME PlansKept, UNCHANGED <<tabla_jobs, planificados>>
    PROVE  PlansKept'
<1>1. /\ tabla_jobs' = tabla_jobs /\ tabla_T_planificados' = tabla_T_planificados
      /\ tabla_LR_planificados' = tabla_LR_planificados
      /\ tabla_GR_planificados' = tabla_GR_planificados
  BY Zenon DEF planificados
<1> QED
  BY <1>1, Zenon DEF PlansKept, CoverT, CoverL, After, Complete

LEMMA RequestPlansKept ==
    ASSUME TypeInv, LifeInv, EntriesOwned, PlansKept, NEW fd \in FDs, Greeting(fd),
           ProcessTransformation(fd)
    PROVE  PlansKept'
<1>1. CASE Crash
  <2>1. UNCHANGED <<tabla_jobs, planificados>>
    BY <1>1, Zenon DEF Crash
  <2> QED
    BY <2>1, SamePlans
<1>2. CASE \E arch \in Files : \E es : PlansFile(fd, arch, es)
  <2>0. PICK arch \in Files : \E es : PlansFile(fd, arch, es)
    BY <1>2
  <2>1. PICK es : PlansFile(fd, arch, es)
    BY <2>0
  <2>2. IdIsNew(fd)
    BY DEF LifeInv, NextIsNew, IdIsNew
  <2>3. CoverT' /\ LaterPlans(fd)
    BY <2>1, <2>2, RequestCovers, Zenon DEF PlansKept
  <2> QED
    BY <2>3, Zenon DEF LaterPlans, PlansKept
<1> QED
  BY <1>1, <1>2, RequestPlansFile

LEMMA LocalReductionPlans ==
    ASSUME TypeInv, LifeInv, JobsInv, Working, PlansKept, NEW fd \in FDs,
           NoneOpen(tabla_estados, fd), ProcessLocalReduction(fd)
    PROVE  PlansKept'
<1>1. HasJob(fd, "T")
  BY Zenon DEF ProcessLocalReduction
<1>2. Tables /\ NoTwoAlike /\ OneActive /\ IdsApart /\ AllBacked /\ EntriesInOrder
  BY DEF TypeInv, LifeInv, JobsInv, Working
<1>3. NoneReducing(JobOf(fd, "T").id)
  BY <1>1, <1>2, NoneOfJob
<1>4. ByNode(PlannedFor(tabla_T_planificados, JobOf(fd, "T").id, fd))
  BY <1>2, PlannedByNode
<1>5. CoverT' /\ LaterPlans(fd)
  BY <1>2, <1>3, <1>4, LocalReductionCovers, Zenon DEF PlansKept
<1> QED
  BY <1>5, Zenon DEF LaterPlans, PlansKept

LEMMA QuietPlans ==
    ASSUME TypeInv, PlansKept, NEW fd \in FDs, GetMasterMessage(fd),
           Head(pedidos[fd]).op \notin {"T", "L"},
           tabla_T_planificados' = tabla_T_planificados,
           tabla_LR_planificados' = tabla_LR_planificados,
           \/ tabla_GR_planificados' = tabla_GR_planificados
           \/ \E S : tabla_GR_planificados' = Keep(tabla_GR_planificados, S)
    PROVE  PlansKept'
<1> DEFINE m == Head(pedidos[fd])
<1>1. JobsDo(fd, m) /\ m.op \notin {"T", "L"}
  BY HandlerJobs
<1> HIDE DEF m
<1>2. CoverT' /\ LaterPlans(fd)
  BY <1>1, QuietCovers, Zenon DEF PlansKept
<1> QED
  BY <1>2, Zenon DEF LaterPlans, PlansKept

LEMMA ServedPlans ==
    ASSUME ~FSFails, TypeInv, LinkInv, LifeInv, JobsInv, Working, EntriesOwned, PlansKept,
           NEW fd \in FDs, Calm(fd), GetMasterMessage(fd), UNCHANGED masterVars
    PROVE  PlansKept'
<1> DEFINE op == Head(pedidos[fd]).op
<1>1. Handles(fd, op)
  BY ServedJobs
<1>2. op = "T" => Greeting(fd)
  BY YamaGreets
<1>3. op # "O" => Finds(fd, op)
  BY FindsIs DEF Working
<1> HIDE DEF op
<1>4. CASE Crash
  <2>1. UNCHANGED <<tabla_jobs, planificados>>
    BY <1>4, Zenon DEF Crash
  <2> QED
    BY <2>1, SamePlans
<1>5. CASE op = "T" /\ ProcessTransformation(fd)
  BY <1>2, <1>5, RequestPlansKept
<1>6. CASE op = "L" /\ ProcessLocalReduction(fd)
  BY <1>3, <1>6, LocalReductionPlans DEF Finds
<1>7. CASE op = "G" /\ ProcessGlobalReduction(fd)
  <2>1. NoTwoAlike /\ OneActive
    BY DEF LifeInv, JobsInv
  <2>2. CoverT' /\ LaterPlans(fd)
    BY <1>7, <2>1, GlobalReductionCovers, Zenon DEF PlansKept
  <2> QED
    BY <2>2, Zenon DEF LaterPlans, PlansKept
<1>8. CASE \/ op = "G" /\ GlobalReductionRefused(fd)
           \/ op = "O" /\ ProcessOk(fd)
           \/ op = "FIN" /\ MasterDisconnected(fd)
  <2>1. UNCHANGED planificados
    BY <1>8, Zenon DEF GlobalReductionRefused, ProcessOk, MasterDisconnected
  <2>2. /\ tabla_T_planificados' = tabla_T_planificados
        /\ tabla_LR_planificados' = tabla_LR_planificados
        /\ tabla_GR_planificados' = tabla_GR_planificados
    BY <2>1 DEF planificados
  <2>3. Head(pedidos[fd]).op \notin {"T", "L"}
    BY <1>8 DEF op
  <2> QED
    BY <2>2, <2>3, QuietPlans
<1>9. CASE op = "S" /\ ProcessFinalStore(fd)
  <2>1. /\ tabla_T_planificados' = tabla_T_planificados
        /\ tabla_LR_planificados' = tabla_LR_planificados
        /\ \E S : tabla_GR_planificados' = Keep(tabla_GR_planificados, S)
    BY <1>9, Zenon DEF ProcessFinalStore
  <2>3. Head(pedidos[fd]).op \notin {"T", "L"}
    BY <1>9 DEF op
  <2> QED
    BY <2>1, <2>3, QuietPlans
<1>10. LocalReductionNotReady(fd) \/ StageNotReady(fd) => Crash
  BY Zenon DEF LocalReductionNotReady, StageNotReady
<1> QED
  BY <1>1, <1>4, <1>5, <1>6, <1>7, <1>8, <1>9, <1>10, Zenon DEF Handles

CoverInv == faults = 0 => PlansKept
LEMMA InitCover == Init => CoverInv
<1> SUFFICES ASSUME Init PROVE PlansKept
  BY DEF CoverInv
<1>1. /\ DOMAIN tabla_jobs = {} /\ DOMAIN tabla_LR_planificados = {}
      /\ DOMAIN tabla_GR_planificados = {}
  BY DEF Init, YamaInit
<1> QED
  BY <1>1 DEF PlansKept, CoverT, CoverL, After, Complete, WholeFor, LaterIn, CompleteIn

LEMMA NextCover ==
    ASSUME ~FSFails, ~Overlapping, TypeInv, LinkInv, LifeInv, CalmInv, WorkInv, RowsInv, CoverInv,
           [Next]_vars
    PROVE  CoverInv'
<1> SUFFICES ASSUME faults' = 0 PROVE PlansKept'
  BY DEF CoverInv
<1>1. CASE \E fd \in FDs : MasterFails(fd)
  <2>1. PICK fd \in FDs : MasterFault(fd)
    BY <1>1 DEF MasterFails
  <2>2. faults' > 0
    BY <2>1, FaultsGrow DEF TypeInv
  <2> QED
    BY <2>2
<1>2. CASE \E fd \in FDs : MasterConnects(fd)
  <2>1. faults' = faults /\ UNCHANGED <<tabla_jobs, planificados>>
    BY <1>2, Zenon DEF MasterConnects, AcceptMasterConnection
  <2> QED
    BY <2>1, SamePlans DEF CoverInv
<1>3. CASE \E fd \in FDs : MasterWorks(fd)
  <2>1. PICK fd \in FDs : MasterStep(fd) /\ UNCHANGED yamaVars
    BY <1>3 DEF MasterWorks
  <2>2. faults' = faults
    BY <2>1, FaultsKept
  <2>3. UNCHANGED <<tabla_jobs, planificados>>
    BY <2>1, Zenon DEF yamaVars
  <2> QED
    BY <2>2, <2>3, SamePlans DEF CoverInv
<1>4. CASE \E fd \in FDs : YamaStep(fd)
  <2>1. PICK fd \in FDs : GetMasterMessage(fd) /\ UNCHANGED masterVars
    BY <1>4 DEF YamaStep
  <2>2. faults' = faults
    BY <2>1 DEF masterVars
  <2>3. Calm(fd) /\ JobsInv /\ Working /\ PlansKept /\ EntriesOwned
    BY <2>2 DEF CalmInv, WorkInv, CoverInv, RowsInv
  <2> QED
    BY <2>1, <2>3, ServedPlans
<1>5. CASE (\E c \in Configs : ReloadConfig(c) /\ UNCHANGED masterVars) \/ UNCHANGED vars
  <2>1. faults' = faults /\ UNCHANGED <<tabla_jobs, planificados>>
    BY <1>5, Zenon DEF ReloadConfig, vars, yamaVars, masterVars
  <2> QED
    BY <2>1, SamePlans DEF CoverInv
<1> QED
  BY <1>1, <1>2, <1>3, <1>4, <1>5, Zenon DEF Next

(* What the properties say of the plans.                                   *)
LEMMA CoverageIs ==
    ASSUME TypeInv, CoverT
    PROVE  TransformationCoverage
<1> SUFFICES ASSUME NEW i \in ActiveJobs,
                    tabla_jobs[i].etapa = "T", Entries(tabla_T_planificados, tabla_jobs[i]) # <<>>
             PROVE  LET es == Entries(tabla_T_planificados, tabla_jobs[i])
                    IN  /\ \A k \in DOMAIN es : es[k].nodo \in Replicas(es[k].tmps[1])
                        /\ IsInjective([k \in DOMAIN es |-> es[k].tmps[1]])
                        /\ {es[k].tmps[1] : k \in DOMAIN es} = BlocksOf(es[1].file)
  BY Zenon DEF TransformationCoverage
<1> DEFINE j == tabla_jobs[i]
           es == PlannedFor(tabla_T_planificados, j.id, j.master)
           first == [k \in DOMAIN es |-> es[k].tmps[1]]
<1>1. Entries(tabla_T_planificados, j) = es
  BY Zenon DEF Entries
<1>2. i \in DOMAIN tabla_jobs /\ InStage(j, "T")
  BY DEF ActiveJobs, InStage
<1>3. PICK arch \in Files : Whole(tabla_T_planificados, j, arch) /\ Singly(tabla_T_planificados, j)
  BY <1>2, Zenon DEF CoverT, WholeFor, Filed
<1>4. tabla_T_planificados \in Seq(PlannedOn(KnownNodes))
  BY DEF TypeInv, Tables
<1>5. es \in Seq(PlannedOn(KnownNodes))
  BY <1>4, PlannedForIs
<1>6. /\ \A k \in DOMAIN es : OwnedBy(j, es[k])
      /\ Whole(es, j, arch) /\ Singly(es, j)
  BY <1>3, <1>4, PlannedWhole
<1>7. es # <<>>
  BY <1>1
<1> HIDE DEF es, j
<1>8. 1 \in DOMAIN es
  BY <1>5, <1>7
<1>9. ASSUME NEW k \in DOMAIN es
      PROVE  /\ es[k].file = arch /\ es[k].nodo \in Replicas(es[k].tmps[1])
             /\ es[k].tmps[1] \in BlocksOf(arch)
             /\ \A b : In(es[k].tmps, b) <=> b = es[k].tmps[1]
  <2>1. PICK b \in Block : es[k].tmps = <<b>> /\ es[k].nodo \in Replicas(b)
    BY <1>6, Zenon DEF Singly
  <2>2. es[k].tmps[1] = b /\ DOMAIN es[k].tmps = {1}
    BY <2>1
  <2>3. es[k].file = arch /\ \A c : In(es[k].tmps, c) => c \in BlocksOf(arch)
    BY <1>6, Zenon DEF Whole
  <2>4. \A c : In(es[k].tmps, c) <=> c = b
    BY <2>2 DEF In
  <2> QED
    BY <2>1, <2>2, <2>3, <2>4
<1>10. \A k, l \in DOMAIN es : es[k].tmps[1] = es[l].tmps[1] => k = l
  <2>1. \A k, l \in DOMAIN es : \A b : In(es[k].tmps, b) /\ In(es[l].tmps, b) => k = l
    BY <1>6, Zenon DEF Whole
  <2> QED
    BY <1>9, <2>1
<1>11. IsInjective(first)
  <2>1. DOMAIN first = DOMAIN es /\ \A k \in DOMAIN es : first[k] = es[k].tmps[1]
    OBVIOUS
  <2> HIDE DEF first
  <2> QED
    BY <1>10, <2>1 DEF IsInjective
<1>12. {es[k].tmps[1] : k \in DOMAIN es} = BlocksOf(es[1].file)
  <2>1. es[1].file = arch
    BY <1>8, <1>9
  <2>2. \A b \in BlocksOf(arch) : \E k \in DOMAIN es : In(es[k].tmps, b)
    BY <1>6, Zenon DEF Whole
  <2>3. \A b \in BlocksOf(arch) : \E k \in DOMAIN es : b = es[k].tmps[1]
    BY <1>9, <2>2
  <2> QED
    BY <1>9, <2>1, <2>3
<1> QED
  BY <1>1, <1>9, <1>11, <1>12 DEF j

LEMMA StoredWhole ==
    ASSUME Complete
    PROVE  ResultComplete
<1> SUFFICES ASSUME NEW k \in DOMAIN tabla_GR_planificados
             PROVE  /\ IsInjective(tabla_GR_planificados[k].tmps)
                    /\ ToSet(tabla_GR_planificados[k].tmps)
                         = BlocksOf(tabla_GR_planificados[k].file)
  BY Zenon DEF ResultComplete
<1> DEFINE e == tabla_GR_planificados[k]
<1>1. IsInjective(e.tmps) /\ \A b : In(e.tmps, b) <=> b \in BlocksOf(e.file)
  BY Zenon DEF Complete, CompleteIn
<1> HIDE DEF e
<1>2. ToSet(e.tmps) = {e.tmps[i] : i \in DOMAIN e.tmps}
  BY Zenon DEF ToSet
<1>3. \A b : b \in ToSet(e.tmps) <=> In(e.tmps, b)
  BY <1>2 DEF In
<1>4. IsInjective(e.tmps) /\ ToSet(e.tmps) = BlocksOf(e.file)
  BY <1>1, <1>3
<1> QED
  BY <1>4, Zenon DEF e

(* While nothing fails and the requests do not overlap, no block is lost or*)
(* doubled.                                                                *)
LEMMA PlansAreComplete ==
    ASSUME ~FSFails, ~Overlapping
    PROVE  Spec => [](faults = 0 => TransformationCoverage /\ ResultComplete)
<1> DEFINE All == /\ TypeInv /\ LinkInv /\ LifeInv /\ CalmInv /\ WorkInv /\ ProtoInv /\ RowsInv
                  /\ CoverInv
<1>1. Init => All
  BY InitTypes, InitLinks, InitLife, InitCalm, InitJobs, InitWorking, InitProto, InitRows, InitCover
     DEF WorkInv
<1>2. All /\ [Next]_vars => All'
  BY NextTypes, NextLinks, NextLife, NextCalm, NextWorking, NextProto, NextRows, NextCover
<1>3. All => (faults = 0 => TransformationCoverage /\ ResultComplete)
  <2> SUFFICES ASSUME TypeInv, PlansKept PROVE TransformationCoverage /\ ResultComplete
    BY DEF CoverInv
  <2>1. CoverT /\ Complete
    BY Zenon DEF PlansKept
  <2> QED
    BY <2>1, CoverageIs, StoredWhole
<1> QED
  BY <1>1, <1>2, <1>3, PTL DEF Spec

(* While nothing fails and the requests do not overlap, the transformations*)
(* planned for a job in its first stage are those of the blocks of one     *)
(* file, each once, on a node that holds it: nothing that the list        *)
(* was given for others is charged to it, and nothing of it is deleted.     *)
THEOREM PlansAreWhole ==
    ASSUME ~FSFails, ~Overlapping
    PROVE  Spec => [](faults = 0 => TransformationCoverage)
BY PlansAreComplete, PTL

(* And then what a global reduction is given, after the passes that group  *)
(* the entries by node and join their temporaries, is the transformation of*)
(* every block of the file, each once.                                     *)
THEOREM StoredPlansAreWhole ==
    ASSUME ~FSFails, ~Overlapping
    PROVE  Spec => [](faults = 0 => ResultComplete)
BY PlansAreComplete, PTL
=============================================================================
