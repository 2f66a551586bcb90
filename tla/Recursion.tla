----------------------------- MODULE Recursion ------------------------------
(***************************************************************************)
(* Induction and recursion over the naturals with sets and functions in    *)
(* place of operators, for the passes of the algorithms over a sequence.   *)
(***************************************************************************)
EXTENDS Integers, FiniteSetsExt, FiniteSetTheorems, WellFoundedInduction, TLAPS

(* Every nonempty set of naturals has a least element.                     *)
LEMMA MenorNatural ==
    ASSUME NEW S \in SUBSET Nat, S # {}
    PROVE  \E m \in S : \A k \in S : m <= k
<1>1. PICK m \in S : \A k \in S : ~ (<<k, m>> \in OpToRel(<, Nat))
  BY NatLessThanWellFounded, WFMin
<1>2. ASSUME NEW k \in S PROVE m <= k
  <2>1. <<k, m>> \in Nat \X Nat
    OBVIOUS
  <2>2. ~ (k < m)
    BY <1>1, <2>1, Zenon DEF OpToRel
  <2> QED
    BY <2>2, SMT
<1> QED
  BY <1>2

(* Induction up to n, over a set instead of an operator.                   *)
LEMMA Hasta ==
    ASSUME NEW n \in Nat, NEW S, 0 \in S, \A k \in 0 .. n - 1 : k \in S => k + 1 \in S
    PROVE  \A k \in 0 .. n : k \in S
<1> DEFINE Bad == {k \in 0 .. n : k \notin S}
<1>1. SUFFICES ASSUME Bad # {} PROVE FALSE
  OBVIOUS
<1>2. PICK m \in Bad : \A k \in Bad : m <= k
  <2>1. Bad \in SUBSET Nat
    OBVIOUS
  <2> HIDE DEF Bad
  <2> QED
    BY <1>1, <2>1, MenorNatural
<1>3. m - 1 \in 0 .. n - 1 /\ m - 1 \notin Bad
  BY <1>2
<1>4. m - 1 \in S
  BY <1>3
<1> QED
  BY <1>2, <1>3, <1>4

(* h is defined step by step: a at first, and what paso makes of it next.  *)
PorPasos(h, n, V, a, paso) ==
    h \in [0 .. n -> V] /\ h[0] = a /\ \A k \in 1 .. n : h[k] = paso[k][h[k - 1]]

(* A function that is defined step by step exists.                         *)
LEMMA Recursiva ==
    ASSUME NEW n \in Nat, NEW V, NEW a \in V, NEW paso \in [1 .. n -> [V -> V]]
    PROVE  \E h : PorPasos(h, n, V, a, paso)
<1> DEFINE Bien(m, h) ==
             \A k \in 0 .. m : h[k] = IF k = 0 THEN a ELSE paso[k][h[k - 1]]
           S == {m \in 0 .. n : \E h \in [0 .. n -> V] : Bien(m, h)}
<1>1. 0 \in S
  <2>1. [k \in 0 .. n |-> a] \in [0 .. n -> V] /\ Bien(0, [k \in 0 .. n |-> a]) /\ 0 \in 0 .. n
    OBVIOUS
  <2> HIDE DEF Bien
  <2> QED
    BY <2>1
<1>2. ASSUME NEW m \in 0 .. n - 1, m \in S PROVE m + 1 \in S
  <2>1. PICK h \in [0 .. n -> V] : Bien(m, h)
    BY <1>2
  <2> DEFINE g == [h EXCEPT ![m + 1] = paso[m + 1][h[m]]]
  <2>2. /\ g \in [0 .. n -> V] /\ g[m + 1] = paso[m + 1][h[m]]
        /\ \A k \in 0 .. m : g[k] = h[k]
    <3>1. /\ m \in 0 .. n /\ m + 1 \in 1 .. n /\ m + 1 \in 0 .. n
          /\ m + 1 \notin 0 .. m /\ 0 .. m \subseteq 0 .. n
      OBVIOUS
    <3>2. h[m] \in V
      BY <3>1
    <3>3. paso[m + 1][h[m]] \in V
      BY <3>1, <3>2
    <3> QED
      BY <3>1, <3>3
  <2> HIDE DEF g
  <2>4. ASSUME NEW k \in 0 .. m + 1
        PROVE  g[k] = IF k = 0 THEN a ELSE paso[k][g[k - 1]]
    <3>1. CASE k = m + 1
      <4>1. k # 0 /\ k - 1 = m /\ m \in 0 .. m
        BY <3>1
      <4> QED
        BY <3>1, <4>1, <2>2
    <3>2. CASE k \in 0 .. m
      <4>1. k # 0 => k - 1 \in 0 .. m
        BY <3>2
      <4> QED
        BY <3>2, <4>1, <2>1, <2>2
    <3> QED
      BY <3>1, <3>2
  <2>5. Bien(m + 1, g) /\ m + 1 \in 0 .. n
    BY <2>4
  <2> HIDE DEF Bien
  <2> QED
    BY <2>2, <2>5
<1>3. n \in S
  <2> HIDE DEF S
  <2>1. \A k \in 0 .. n : k \in S
    BY <1>1, <1>2, Hasta
  <2> QED
    BY <2>1
<1>4. PICK h \in [0 .. n -> V] : Bien(n, h)
  BY <1>3
<1>5. h[0] = a /\ \A k \in 1 .. n : h[k] = paso[k][h[k - 1]]
  <2>1. 0 \in 0 .. n /\ \A k \in 1 .. n : k \in 0 .. n /\ k # 0
    OBVIOUS
  <2> QED
    BY <2>1, <1>4
<1> QED
  BY <1>5 DEF PorPasos

(* The same as one equation, as a LET defines it.                          *)
Ecuacion(g, n, V, a, paso) ==
    /\ g \in [0 .. n -> V]
    /\ g = [k \in 0 .. n |-> IF k = 0 THEN a ELSE paso[k][g[k - 1]]]

LEMMA RecursivaEs ==
    ASSUME NEW n \in Nat, NEW V, NEW a \in V, NEW paso \in [1 .. n -> [V -> V]]
    PROVE  \E g : Ecuacion(g, n, V, a, paso)
<1>1. PICK g : PorPasos(g, n, V, a, paso)
  BY Recursiva
<1>2. g \in [0 .. n -> V] /\ g[0] = a /\ \A k \in 1 .. n : g[k] = paso[k][g[k - 1]]
  BY <1>1 DEF PorPasos
<1>3. \A k \in 0 .. n : g[k] = IF k = 0 THEN a ELSE paso[k][g[k - 1]]
  BY <1>2
<1>4. g = [k \in 0 .. n |-> g[k]]
  BY <1>2
<1>5. g = [k \in 0 .. n |-> IF k = 0 THEN a ELSE paso[k][g[k - 1]]]
  BY <1>3, <1>4
<1> QED
  BY <1>2, <1>5, Zenon DEF Ecuacion

(* What every step keeps holds of all the values.                          *)
LEMMA EnTipo ==
    ASSUME NEW n \in Nat, NEW V, NEW f, f[0] \in V,
           \A k \in 1 .. n : f[k - 1] \in V => f[k] \in V
    PROVE  \A k \in 0 .. n : f[k] \in V
<1> DEFINE S == {k \in 0 .. n : f[k] \in V}
<1>1. 0 \in S
  OBVIOUS
<1>2. ASSUME NEW k \in 0 .. n - 1, k \in S PROVE k + 1 \in S
  <2>1. k + 1 \in 1 .. n /\ (k + 1) - 1 = k /\ f[k] \in V
    BY <1>2
  <2>2. f[k + 1] \in V
    BY <2>1
  <2> QED
    BY <2>1, <2>2
<1> HIDE DEF S
<1>3. \A k \in 0 .. n : k \in S
  BY <1>1, <1>2, Hasta
<1> QED
  BY <1>3 DEF S

-----------------------------------------------------------------------------
(* Sums over a finite set.                                                 *)

SumaDe(f, S) == MapThenSumSet(LAMBDA x : f[x], S)

Alguno(s) == CHOOSE x \in s : TRUE

(* The sum of f over s, from the sums over smaller sets that g holds.      *)
Sumando(f, g, s) == IF s = {} THEN 0 ELSE f[Alguno(s)] + g[s \ {Alguno(s)}]

LEMMA QuitarAlguno ==
    ASSUME NEW s, IsFiniteSet(s), s # {}
    PROVE  /\ Alguno(s) \in s /\ IsFiniteSet(s \ {Alguno(s)})
           /\ Cardinality(s \ {Alguno(s)}) = Cardinality(s) - 1 /\ Cardinality(s) \in Nat \ {0}
<1>1. Alguno(s) \in s
  BY DEF Alguno
<1>2. Cardinality(s) \in Nat /\ Cardinality(s) # 0
  BY FS_CardinalityType, FS_EmptySet
<1>3. IsFiniteSet(s \ {Alguno(s)}) /\ Cardinality(s \ {Alguno(s)}) = Cardinality(s) - 1
  BY <1>1, FS_RemoveElement
<1> QED
  BY <1>1, <1>2, <1>3

LEMMA SumaExiste ==
    ASSUME NEW S, IsFiniteSet(S), NEW f \in [S -> Int]
    PROVE  \E g \in [SUBSET S -> Int] : \A s \in SUBSET S : g[s] = Sumando(f, g, s)
<1> DEFINE Hasta_(k, g) == \A s \in SUBSET S : Cardinality(s) <= k => g[s] = Sumando(f, g, s)
           n == Cardinality(S)
           Q == {k \in 0 .. n : \E g \in [SUBSET S -> Int] : Hasta_(k, g)}
<1>1. n \in Nat /\ \A s \in SUBSET S : IsFiniteSet(s) /\ Cardinality(s) \in 0 .. n
  BY FS_CardinalityType, FS_Subset
<1> HIDE DEF n
<1>2. ASSUME NEW g \in [SUBSET S -> Int], NEW s \in SUBSET S PROVE Sumando(f, g, s) \in Int
  <2>1. s # {} => Alguno(s) \in S
    BY DEF Alguno
  <2> QED
    BY <2>1 DEF Sumando
<1>3. 0 \in Q
  <2> DEFINE g == [s \in SUBSET S |-> 0]
  <2>1. g \in [SUBSET S -> Int]
    OBVIOUS
  <2>2. ASSUME NEW s \in SUBSET S, Cardinality(s) <= 0 PROVE g[s] = Sumando(f, g, s)
    <3>1. s = {}
      BY <1>1, <2>2, FS_EmptySet
    <3> QED
      BY <3>1 DEF Sumando
  <2> HIDE DEF g
  <2> QED
    BY <1>1, <2>1, <2>2
<1>4. ASSUME NEW k \in 0 .. n - 1, k \in Q PROVE k + 1 \in Q
  <2>1. PICK g \in [SUBSET S -> Int] : Hasta_(k, g)
    BY <1>4
  <2> DEFINE e == [s \in SUBSET S |-> IF Cardinality(s) <= k THEN g[s] ELSE Sumando(f, g, s)]
  <2>2. e \in [SUBSET S -> Int]
    BY <1>2
  <2>3. ASSUME NEW s \in SUBSET S, Cardinality(s) <= k + 1 PROVE e[s] = Sumando(f, e, s)
    <3>1. e[s] = Sumando(f, g, s)
      BY <2>1
    <3>2. s # {} => e[s \ {Alguno(s)}] = g[s \ {Alguno(s)}]
      <4>1. s # {} => Cardinality(s \ {Alguno(s)}) <= k
        BY <1>1, <2>3, QuitarAlguno
      <4>2. s \ {Alguno(s)} \in SUBSET S
        OBVIOUS
      <4> QED
        BY <4>1, <4>2
    <3> HIDE DEF e
    <3> QED
      BY <3>1, <3>2 DEF Sumando
  <2>4. k + 1 \in 0 .. n
    BY <1>1
  <2> HIDE DEF e
  <2> QED
    BY <2>2, <2>3, <2>4
<1>5. n \in Q
  <2> HIDE DEF Q
  <2>1. \A k \in 0 .. n : k \in Q
    BY <1>1, <1>3, <1>4, Hasta
  <2> QED
    BY <2>1, <1>1
<1>6. PICK g \in [SUBSET S -> Int] : Hasta_(n, g)
  BY <1>5
<1> QED
  BY <1>1, <1>6

(* The sums over the smaller sets are only one function.                   *)
PorSumas(f, g, S) == \A s \in SUBSET S : g[s] = Sumando(f, g, s)
LEMMA SumaUnica ==
    ASSUME NEW S, IsFiniteSet(S), NEW f, NEW h, NEW g, PorSumas(f, h, S), PorSumas(f, g, S)
    PROVE  h[S] = g[S]
<1> DEFINE n == Cardinality(S)
           Q == {k \in 0 .. n : \A s \in SUBSET S : Cardinality(s) = k => h[s] = g[s]}
<1>1. n \in Nat /\ \A s \in SUBSET S : IsFiniteSet(s) /\ Cardinality(s) \in 0 .. n
  BY FS_CardinalityType, FS_Subset
<1> HIDE DEF n
<1>2. 0 \in Q
  <2>1. \A s \in SUBSET S : Cardinality(s) = 0 => s = {}
    BY <1>1, FS_EmptySet
  <2>2. h[{}] = g[{}]
    BY DEF PorSumas, Sumando
  <2>3. 0 \in 0 .. n
    BY <1>1
  <2>4. \A s \in SUBSET S : Cardinality(s) = 0 => h[s] = g[s]
    BY <2>1, <2>2
  <2> QED
    BY <2>3, <2>4
<1>3. ASSUME NEW k \in 0 .. n - 1, k \in Q PROVE k + 1 \in Q
  <2>1. ASSUME NEW s \in SUBSET S, Cardinality(s) = k + 1 PROVE h[s] = g[s]
    <3>1. s # {}
      <4>1. k + 1 # 0
        BY <1>1
      <4> QED
        BY <2>1, <4>1, FS_EmptySet
    <3>2. Cardinality(s \ {Alguno(s)}) = k /\ s \ {Alguno(s)} \in SUBSET S
      BY <1>1, <2>1, <3>1, QuitarAlguno
    <3>3. h[s \ {Alguno(s)}] = g[s \ {Alguno(s)}]
      BY <1>3, <3>2
    <3> QED
      BY <3>1, <3>3 DEF PorSumas, Sumando
  <2>2. k + 1 \in 0 .. n
    BY <1>1
  <2> QED
    BY <2>1, <2>2
<1>4. \A k \in 0 .. n : k \in Q
  <2> HIDE DEF Q
  <2> QED
    BY <1>1, <1>2, <1>3, Hasta
<1> QED
  BY <1>1, <1>4

LEMMA SumaPorPasos ==
    ASSUME NEW S, IsFiniteSet(S), NEW f \in [S -> Int]
    PROVE  \E h \in [SUBSET S -> Int] : /\ \A s \in SUBSET S : h[s] = Sumando(f, h, s)
                                        /\ SumaDe(f, S) = h[S]
<1> DEFINE iter[s \in SUBSET S] == IF s = {} THEN 0
             ELSE LET x == CHOOSE x \in s : TRUE IN f[x] + iter[s \ {x}]
<1>1. SumaDe(f, S) = iter[S]
  BY Zenon DEF SumaDe, MapThenSumSet, MapThenFoldSet
<1>2. PICK g \in [SUBSET S -> Int] : \A s \in SUBSET S : g[s] = Sumando(f, g, s)
  BY SumaExiste
<1>3. g = [s \in SUBSET S |-> IF s = {} THEN 0
             ELSE LET x == CHOOSE x \in s : TRUE IN f[x] + g[s \ {x}]]
  BY <1>2, Zenon DEF Sumando, Alguno
<1>4. iter = [s \in SUBSET S |-> IF s = {} THEN 0
             ELSE LET x == CHOOSE x \in s : TRUE IN f[x] + iter[s \ {x}]]
  BY <1>3, Zenon
<1> HIDE DEF iter
<1>5. \A s \in SUBSET S : iter[s] = Sumando(f, iter, s)
  BY <1>4, Zenon DEF Sumando, Alguno
<1>6. iter[S] = g[S]
  <2>1. PorSumas(f, iter, S) /\ PorSumas(f, g, S)
    BY <1>2, <1>5 DEF PorSumas
  <2> QED
    BY <2>1, SumaUnica
<1> QED
  BY <1>1, <1>2, <1>6

LEMMA SumaEntera ==
    ASSUME NEW S, IsFiniteSet(S), NEW f \in [S -> Int]
    PROVE  SumaDe(f, S) \in Int
<1>1. PICK h \in [SUBSET S -> Int] : SumaDe(f, S) = h[S]
  BY SumaPorPasos
<1>2. S \in SUBSET S
  OBVIOUS
<1> QED
  BY <1>1, <1>2

(* One term of the sum changes.                                            *)
LEMMA SumaCambia ==
    ASSUME NEW S, IsFiniteSet(S), NEW f \in [S -> Int], NEW x \in S, NEW d \in Int
    PROVE  SumaDe([f EXCEPT ![x] = @ + d], S) = SumaDe(f, S) + d
<1> DEFINE e == [f EXCEPT ![x] = @ + d]
<1>1. e \in [S -> Int] /\ e[x] = f[x] + d /\ \A y \in S : y # x => e[y] = f[y]
  OBVIOUS
<1> HIDE DEF e
<1>2. PICK g \in [SUBSET S -> Int] : (\A s \in SUBSET S : g[s] = Sumando(f, g, s)) /\ SumaDe(f, S) = g[S]
  BY SumaPorPasos
<1>3. PICK h \in [SUBSET S -> Int] : (\A s \in SUBSET S : h[s] = Sumando(e, h, s)) /\ SumaDe(e, S) = h[S]
  BY <1>1, SumaPorPasos
<1> DEFINE n == Cardinality(S)
           Q == {k \in 0 .. n : \A s \in SUBSET S : Cardinality(s) = k =>
                                    h[s] = g[s] + (IF x \in s THEN d ELSE 0)}
<1>4. n \in Nat /\ \A s \in SUBSET S : IsFiniteSet(s) /\ Cardinality(s) \in 0 .. n
  BY FS_CardinalityType, FS_Subset
<1> HIDE DEF n
<1>5. 0 \in Q
  <2>1. \A s \in SUBSET S : Cardinality(s) = 0 => s = {}
    BY <1>4, FS_EmptySet
  <2>2. h[{}] = 0 /\ g[{}] = 0
    BY <1>2, <1>3 DEF Sumando
  <2>3. 0 + 0 = 0 /\ x \notin {}
    OBVIOUS
  <2>4. 0 \in 0 .. n
    BY <1>4
  <2>5. \A s \in SUBSET S : Cardinality(s) = 0 => h[s] = g[s] + (IF x \in s THEN d ELSE 0)
    BY <2>1, <2>2, <2>3, Zenon
  <2> QED
    BY <2>4, <2>5
<1>6. ASSUME NEW k \in 0 .. n - 1, k \in Q PROVE k + 1 \in Q
  <2>1. ASSUME NEW s \in SUBSET S, Cardinality(s) = k + 1
        PROVE  h[s] = g[s] + (IF x \in s THEN d ELSE 0)
    <3> DEFINE a == Alguno(s)
               r == s \ {a}
    <3>1. s # {}
      <4>1. k + 1 # 0
        BY <1>4
      <4> QED
        BY <2>1, <4>1, FS_EmptySet
    <3>2. a \in s /\ a \in S /\ Cardinality(r) = k /\ r \in SUBSET S
      BY <1>4, <2>1, <3>1, QuitarAlguno
    <3>3. h[r] = g[r] + (IF x \in r THEN d ELSE 0)
      BY <1>6, <3>2
    <3>4. h[s] = e[a] + h[r] /\ g[s] = f[a] + g[r]
      BY <1>2, <1>3, <3>1 DEF Sumando
    <3>5. g[r] \in Int /\ h[r] \in Int /\ f[a] \in Int /\ e[a] = f[a] + (IF x = a THEN d ELSE 0)
      BY <1>1, <3>2
    <3>6. x \in s <=> (x = a \/ x \in r)
      BY <3>2
    <3>7. x = a => x \notin r
      OBVIOUS
    <3> HIDE DEF a, r
    <3> QED
      BY <3>3, <3>4, <3>5, <3>6, <3>7
  <2>2. k + 1 \in 0 .. n
    BY <1>4
  <2> QED
    BY <2>1, <2>2
<1>7. \A k \in 0 .. n : k \in Q
  <2> HIDE DEF Q
  <2> QED
    BY <1>4, <1>5, <1>6, Hasta
<1>8. \A s \in SUBSET S : h[s] = g[s] + (IF x \in s THEN d ELSE 0)
  BY <1>4, <1>7
<1>9. h[S] = g[S] + d
  BY <1>8
<1> QED
  BY <1>2, <1>3, <1>9 DEF e

(* A sum stays in a set of numbers that has 0 and is closed under          *)
(* addition.                                                               *)
LEMMA SumaCerrada ==
    ASSUME NEW S, IsFiniteSet(S), NEW V \in SUBSET Int, 0 \in V, \A a, b \in V : a + b \in V,
           NEW f \in [S -> V]
    PROVE  SumaDe(f, S) \in V
<1>1. f \in [S -> Int]
  OBVIOUS
<1>2. PICK h \in [SUBSET S -> Int] : (\A s \in SUBSET S : h[s] = Sumando(f, h, s)) /\ SumaDe(f, S) = h[S]
  BY <1>1, SumaPorPasos
<1> DEFINE n == Cardinality(S)
           Q == {k \in 0 .. n : \A s \in SUBSET S : Cardinality(s) = k => h[s] \in V}
<1>3. n \in Nat /\ \A s \in SUBSET S : IsFiniteSet(s) /\ Cardinality(s) \in 0 .. n
  BY FS_CardinalityType, FS_Subset
<1> HIDE DEF n
<1>4. 0 \in Q
  <2>1. \A s \in SUBSET S : Cardinality(s) = 0 => s = {}
    BY <1>3, FS_EmptySet
  <2>2. h[{}] = 0
    BY <1>2 DEF Sumando
  <2>3. 0 \in 0 .. n
    BY <1>3
  <2> QED
    BY <2>1, <2>2, <2>3
<1>5. ASSUME NEW k \in 0 .. n - 1, k \in Q PROVE k + 1 \in Q
  <2>1. ASSUME NEW s \in SUBSET S, Cardinality(s) = k + 1
        PROVE  h[s] \in V
    <3> DEFINE a == Alguno(s)
               r == s \ {a}
    <3>1. s # {}
      <4>1. k + 1 # 0
        BY <1>3
      <4> QED
        BY <2>1, <4>1, FS_EmptySet
    <3>2. a \in S /\ Cardinality(r) = k /\ r \in SUBSET S
      BY <1>3, <2>1, <3>1, QuitarAlguno
    <3>3. h[r] \in V
      BY <1>5, <3>2
    <3>4. h[s] = f[a] + h[r]
      BY <1>2, <3>1 DEF Sumando
    <3>5. f[a] \in V
      BY <3>2
    <3> HIDE DEF a, r
    <3>6. f[a] + h[r] \in V
      BY <3>3, <3>5
    <3> QED
      BY <3>4, <3>6
  <2>2. k + 1 \in 0 .. n
    BY <1>3
  <2> QED
    BY <2>1, <2>2
<1>6. \A k \in 0 .. n : k \in Q
  <2> HIDE DEF Q
  <2> QED
    BY <1>3, <1>4, <1>5, Hasta
<1>7. h[S] \in V
  BY <1>3, <1>6
<1> QED
  BY <1>2, <1>7

(* The sum is at least two of its terms, none of which is negative.        *)
LEMMA SumaDeDos ==
    ASSUME NEW S, IsFiniteSet(S), NEW f \in [S -> Nat], NEW x \in S, NEW y \in S, x # y
    PROVE  SumaDe(f, S) >= f[x] + f[y]
<1> DEFINE a == -f[x]
           b == -f[y]
           e == [f EXCEPT ![x] = @ + a]
           d == [e EXCEPT ![y] = @ + b]
<1>1. f \in [S -> Int] /\ f[x] \in Nat /\ f[y] \in Nat /\ a \in Int /\ b \in Int
  OBVIOUS
<1>2. e \in [S -> Nat] /\ e[y] = f[y]
  OBVIOUS
<1>3. d \in [S -> Nat]
  <2> HIDE DEF e
  <2> QED
    BY <1>2
<1>4. SumaDe(e, S) = SumaDe(f, S) + a
  <2> HIDE DEF a
  <2> QED
    BY <1>1, SumaCambia
<1>5. SumaDe(d, S) = SumaDe(e, S) + b
  <2>1. e \in [S -> Int]
    BY <1>2
  <2> HIDE DEF b, e
  <2> QED
    BY <1>1, <2>1, SumaCambia
<1>6. SumaDe(d, S) \in Nat
  <2>1. 0 \in Nat /\ Nat \in SUBSET Int /\ \A p, q \in Nat : p + q \in Nat
    OBVIOUS
  <2> HIDE DEF d
  <2> QED
    BY <1>3, <2>1, SumaCerrada
<1>7. SumaDe(f, S) \in Int
  BY <1>1, SumaEntera
<1> HIDE DEF d, e
<1> QED
  BY <1>1, <1>4, <1>5, <1>6, <1>7

(* A sum of zeros, and of zeros but for one term.                          *)
LEMMA SumaDeUno ==
    ASSUME NEW S, IsFiniteSet(S), NEW f \in [S -> Int], NEW m \in S, \A x \in S : x # m => f[x] = 0
    PROVE  SumaDe(f, S) = f[m]
<1> DEFINE a == -f[m]
           e == [f EXCEPT ![m] = @ + a]
<1>1. a \in Int /\ f[m] \in Int
  OBVIOUS
<1>2. e \in [S -> {0}]
  OBVIOUS
<1>3. SumaDe(e, S) = SumaDe(f, S) + a
  <2> HIDE DEF a
  <2> QED
    BY <1>1, SumaCambia
<1>4. SumaDe(e, S) \in {0}
  <2>1. 0 \in {0} /\ {0} \in SUBSET Int /\ \A p, q \in {0} : p + q \in {0}
    OBVIOUS
  <2> HIDE DEF e
  <2> QED
    BY <1>2, <2>1, SumaCerrada
<1>5. SumaDe(f, S) \in Int
  BY SumaEntera
<1> HIDE DEF e
<1>6. SumaDe(e, S) = 0
  BY <1>4
<1>7. SumaDe(f, S) - f[m] = 0
  BY <1>1, <1>3, <1>5, <1>6
<1> QED
  BY <1>1, <1>5, <1>7

=============================================================================
