---------------------------- MODULE FoldTheorems ----------------------------
(***************************************************************************)
(* Facts about the folds, sums and orders the models are written with,     *)
(* which the library states with an operator as a parameter and therefore  *)
(* cannot be applied by the provers.  Here the summand, the key or the     *)
(* order is a function or a set, and the induction is on a smallest        *)
(* counterexample.                                                         *)
(***************************************************************************)
EXTENDS Integers, Sequences, SequencesExt, FiniteSets, FiniteSetsExt, LexOrder,
        FiniteSetTheorems, WellFoundedInduction, TLAPS

-----------------------------------------------------------------------------
(* Smallest elements: the form every induction takes.                      *)

Smallest(s, T) == s \in T /\ \A t \in T : t \subseteq s => t = s

\* A non-empty family of finite sets has a member that contains no other one.
LEMMA SmallestSet ==
  ASSUME NEW S, NEW T, T \subseteq FiniteSubsetsOf(S), T # {}
  PROVE  \E s : Smallest(s, T)
<1>1. T \subseteq SUBSET S
  BY DEF FiniteSubsetsOf
<1>2. \E s \in T : \A t \in T : ~(<<t, s>> \in StrictSubsetOrdering(S))
  BY FS_StrictSubsetOrderingWellFounded, WFMin
<1> QED BY <1>1, <1>2 DEF StrictSubsetOrdering, Smallest

\* The same for a family of subsets of a finite set.
LEMMA SmallestSubset ==
  ASSUME NEW S, IsFiniteSet(S), NEW T, T \subseteq SUBSET S, T # {}
  PROVE  \E s : Smallest(s, T)
BY FS_FiniteSubsetsOfFinite, SmallestSet

\* A non-empty set of natural numbers has a least element.
LEMMA SmallestNumber ==
  ASSUME NEW T \in SUBSET Nat, T # {}
  PROVE  \E n \in T : \A m \in T : n <= m
<1> DEFINE U == {s \in SUBSET Nat : \E n \in T : s = 0..n}
<1>1. PICK n0 \in T : TRUE
  OBVIOUS
<1>2. 0..n0 \in U
  OBVIOUS
<1>3. U \subseteq FiniteSubsetsOf(Nat)
  <2> SUFFICES ASSUME NEW s \in U
               PROVE  IsFiniteSet(s)
    BY DEF FiniteSubsetsOf
  <2>1. PICK n \in T : s = 0..n
    OBVIOUS
  <2> QED BY <2>1, FS_Interval
<1>4. PICK s : Smallest(s, U)
  <2>1. U # {}
    BY <1>2
  <2> HIDE DEF U
  <2> QED BY <1>3, <2>1, SmallestSet
<1>5. PICK n \in T : s = 0..n
  BY <1>4 DEF Smallest
<1>6. ASSUME NEW m \in T, m < n
      PROVE  FALSE
  <2>1. 0..m \in U
    OBVIOUS
  <2>2. 0..m \subseteq 0..n /\ n \in 0..n /\ n \notin 0..m
    BY <1>6
  <2> QED BY <2>1, <2>2, <1>4, <1>5 DEF Smallest
<1> QED BY <1>6

-----------------------------------------------------------------------------
(* Recursion along choices: MapThenFoldSet takes the elements out of a set *)
(* one by one, always the one its choice function names.                   *)

Chooses(c, S) == \A s \in SUBSET S : s # {} => c[s] \in s

StepsInto(step, S, V) == \A x \in S, v \in V : step[x][v] \in V

Climbs(g, S, V, base, c, step) ==
  /\ g \in [SUBSET S -> V]
  /\ g[{}] = base
  /\ \A s \in SUBSET S : s # {} => g[s] = step[c[s]][g[s \ {c[s]}]]

\* The recursion of a fold over a finite set has a solution.
LEMMA FoldExists ==
  ASSUME NEW S, IsFiniteSet(S), NEW V, NEW base \in V,
         NEW c, Chooses(c, S), NEW step, StepsInto(step, S, V)
  PROVE  \E g : Climbs(g, S, V, base, c, step)
<1> USE DEF Chooses, StepsInto
<1> DEFINE F(g) == [s \in SUBSET S |->
                      IF s = {} THEN base ELSE step[c[s]][g[s \ {c[s]}]]]
           Good(n) == \E g \in [SUBSET S -> V] :
                        \A s \in SUBSET S : Cardinality(s) <= n => g[s] = F(g)[s]
           Bad == {n \in Nat : ~Good(n)}
<1>1. \A g \in [SUBSET S -> V] : F(g) \in [SUBSET S -> V]
  OBVIOUS
<1>2. \A s \in SUBSET S : Cardinality(s) \in Nat
  BY FS_Subset, FS_CardinalityType
<1>3. Good(0)
  <2> DEFINE g == [s \in SUBSET S |-> base]
  <2>1. \A s \in SUBSET S : Cardinality(s) <= 0 => s = {}
    BY <1>2, FS_EmptySet, FS_Subset
  <2>2. g \in [SUBSET S -> V]
    OBVIOUS
  <2> QED BY <2>1, <2>2
<1>4. ASSUME NEW n \in Nat, Good(n)
      PROVE  Good(n + 1)
  <2>1. PICK g \in [SUBSET S -> V] :
          \A s \in SUBSET S : Cardinality(s) <= n => g[s] = F(g)[s]
    BY <1>4
  <2>2. ASSUME NEW s \in SUBSET S, Cardinality(s) <= n + 1
        PROVE  F(g)[s] = F(F(g))[s]
    <3>1. CASE s = {}
      BY <3>1
    <3>2. CASE s # {}
      <4>1. c[s] \in s /\ s \ {c[s]} \in SUBSET S
        BY <3>2
      <4>2. Cardinality(s \ {c[s]}) <= n
        <5>1. IsFiniteSet(s) /\ Cardinality(s) \in Nat
          BY <1>2, FS_Subset
        <5>2. PICK x : x = c[s]
          OBVIOUS
        <5>3. x \in s
          BY <4>1, <5>2
        <5>4. Cardinality(s \ {x}) = Cardinality(s) - 1
          BY <5>1, <5>3, FS_RemoveElement
        <5>5. Cardinality(s \ {x}) <= n
          BY <2>2, <5>1, <5>4
        <5> QED BY Zenon, <5>2, <5>5
      <4>3. g[s \ {c[s]}] = F(g)[s \ {c[s]}]
        BY <4>1, <4>2, <2>1
      <4> QED BY <4>3, <4>1, <3>2
    <3> QED BY <3>1, <3>2
  <2>3. F(g) \in [SUBSET S -> V]
    BY <1>1
  <2> HIDE DEF F
  <2> QED BY <2>2, <2>3
<1>5. \A n \in Nat : Good(n)
  <2> HIDE DEF Good
  <2> SUFFICES ASSUME Bad # {}
               PROVE  FALSE
    OBVIOUS
  <2>1. PICK n \in Bad : \A m \in Bad : n <= m
    BY SmallestNumber
  <2>2. CASE n = 0
    BY <2>2, <1>3, <2>1
  <2>3. CASE n # 0
    <3>1. n - 1 \in Nat /\ n - 1 \notin Bad
      BY <2>1, <2>3
    <3>2. Good(n - 1)
      BY <3>1
    <3>3. Good((n - 1) + 1)
      BY <3>1, <3>2, <1>4
    <3> QED BY <3>3
  <2> QED BY <2>2, <2>3
<1>6. PICK g \in [SUBSET S -> V] :
        \A s \in SUBSET S : Cardinality(s) <= Cardinality(S) => g[s] = F(g)[s]
  <2>1. Good(Cardinality(S))
    <3> HIDE DEF Good
    <3> QED BY <1>2, <1>5
  <2> QED BY <2>1
<1>7. \A s \in SUBSET S : g[s] = F(g)[s]
  BY <1>6, FS_Subset
<1>8. g[{}] = base
  BY <1>7
<1>9. ASSUME NEW s \in SUBSET S, s # {}
      PROVE  g[s] = step[c[s]][g[s \ {c[s]}]]
  BY <1>7, <1>9
<1> HIDE DEF F
<1> QED BY <1>8, <1>9 DEF Climbs

-----------------------------------------------------------------------------
(* Least elements of finite sets.                                          *)

\* A finite, non-empty set has an element of least value.
LEMMA LeastExists ==
  ASSUME NEW S, IsFiniteSet(S), S # {}, NEW f, \A x \in S : f[x] \in Int
  PROVE  \E x \in S : \A y \in S : f[x] <= f[y]
<1> DEFINE T == {W \in SUBSET S : W # {} /\ ~\E x \in W : \A y \in W : f[x] <= f[y]}
<1> SUFFICES ASSUME T # {}
             PROVE  FALSE
  OBVIOUS
<1>1. PICK W : Smallest(W, T)
  <2>1. T \subseteq SUBSET S
    OBVIOUS
  <2> HIDE DEF T
  <2> QED BY <2>1, SmallestSubset
<1>2. W \in SUBSET S /\ W # {} /\ ~\E x \in W : \A y \in W : f[x] <= f[y]
  BY <1>1 DEF Smallest
<1>3. PICK x \in W : TRUE
  BY <1>2
<1>4. W \ {x} \notin T
  BY <1>1, <1>3 DEF Smallest
<1>5. CASE W \ {x} = {}
  BY <1>2, <1>3, <1>5
<1>6. CASE W \ {x} # {}
  <2>1. PICK z \in W \ {x} : \A y \in W \ {x} : f[z] <= f[y]
    BY <1>2, <1>4, <1>6
  <2>2. f[z] <= f[x] \/ f[x] <= f[z]
    BY <1>2, <1>3, <2>1
  <2>3. \A y \in W : f[y] \in Int
    BY <1>2
  <2> QED BY <1>2, <1>3, <2>1, <2>2, <2>3
<1> QED BY <1>5, <1>6

-----------------------------------------------------------------------------
(* First elements of finite sets in an order.                              *)

Comparable(R, S) == \A x, y \in S : x # y => <<x, y>> \in R \/ <<y, x>> \in R
Chains(R, S) == \A x, y, z \in S : <<x, y>> \in R /\ <<y, z>> \in R => <<x, z>> \in R

\* A finite, non-empty set has a first element in a total and transitive order.
LEMMA FirstExists ==
  ASSUME NEW S, IsFiniteSet(S), S # {}, NEW R, Comparable(R, S), Chains(R, S)
  PROVE  \E x \in S : \A y \in S \ {x} : <<x, y>> \in R
<1> USE DEF Comparable, Chains
<1> DEFINE T == {W \in SUBSET S : W # {} /\ ~\E x \in W : \A y \in W \ {x} : <<x, y>> \in R}
<1> SUFFICES ASSUME T # {}
             PROVE  FALSE
  OBVIOUS
<1>1. PICK W : Smallest(W, T)
  <2>1. T \subseteq SUBSET S
    OBVIOUS
  <2> HIDE DEF T
  <2> QED BY <2>1, SmallestSubset
<1>2. W \in SUBSET S /\ W # {} /\ ~\E x \in W : \A y \in W \ {x} : <<x, y>> \in R
  BY <1>1 DEF Smallest
<1>3. PICK x \in W : TRUE
  BY <1>2
<1>4. W \ {x} \notin T
  <2>1. W \ {x} \subseteq W /\ W \ {x} # W
    BY <1>3
  <2> HIDE DEF T
  <2> QED BY <1>1, <2>1 DEF Smallest
<1>5. CASE W \ {x} = {}
  BY <1>2, <1>3, <1>5
<1>6. CASE W \ {x} # {}
  <2>1. PICK z \in W \ {x} : \A y \in (W \ {x}) \ {z} : <<z, y>> \in R
    BY <1>2, <1>4, <1>6
  <2>2. CASE <<z, x>> \in R
    BY <1>2, <1>3, <2>1, <2>2
  <2>3. CASE <<x, z>> \in R
    <3>1. \A y \in W \ {x} : <<x, y>> \in R
      BY <1>2, <1>3, <2>1, <2>3
    <3> QED BY <1>2, <1>3, <3>1
  <2> QED BY <1>2, <1>3, <2>1, <2>2, <2>3
<1> QED BY <1>5, <1>6

\* Of two different sequences of integers one is the smaller.
LEMMA LexTotal ==
  ASSUME NEW s \in Seq(Int), NEW t \in Seq(Int), s # t
  PROVE  LexLess(s, t) \/ LexLess(t, s)
<1> DEFINE Differ(k) == \/ k \in DOMAIN s /\ k \notin DOMAIN t
                        \/ k \in DOMAIN t /\ k \notin DOMAIN s
                        \/ k \in DOMAIN s /\ k \in DOMAIN t /\ s[k] # t[k]
           K == {k \in Nat : Differ(k)}
<1>1. /\ Len(s) \in Nat /\ DOMAIN s = 1..Len(s) /\ \A k \in DOMAIN s : s[k] \in Int
      /\ Len(t) \in Nat /\ DOMAIN t = 1..Len(t) /\ \A k \in DOMAIN t : t[k] \in Int
  OBVIOUS
<1>2. K # {}
  <2> SUFFICES ASSUME K = {}
               PROVE  FALSE
    OBVIOUS
  <2>1. \A k \in Nat : ~Differ(k)
    OBVIOUS
  <2>2. Len(s) = Len(t)
    <3>1. ~(Len(s) > Len(t))
      BY <1>1, <2>1
    <3>2. ~(Len(t) > Len(s))
      BY <1>1, <2>1
    <3>3. PICK a \in Nat, b \in Nat : a = Len(s) /\ b = Len(t)
      BY <1>1
    <3> QED BY <3>1, <3>2, <3>3
  <2>3. \A k \in 1..Len(s) : s[k] = t[k]
    BY <1>1, <2>1, <2>2
  <2> QED BY <2>2, <2>3
<1>3. PICK k \in K : \A j \in K : k <= j
  <2> HIDE DEF K
  <2>1. K \in SUBSET Nat
    BY DEF K
  <2> QED BY <1>2, <2>1, SmallestNumber
<1>4. k \in Nat /\ Differ(k) /\ \A j \in 1..k - 1 : ~Differ(j)
  BY <1>3
<1>5. k >= 1 /\ k <= Len(s) + 1 /\ k <= Len(t) + 1
  <2>1. k >= 1
    BY <1>1, <1>4
  <2>2. k <= Len(s) + 1
    <3> SUFFICES ASSUME k > Len(s) + 1
                 PROVE  FALSE
      BY <1>1, <1>4
    <3>1. Len(s) + 1 \in 1..k - 1 /\ k \in DOMAIN t
      BY <1>1, <1>4
    <3>2. Differ(Len(s) + 1)
      BY <1>1, <3>1
    <3> QED BY <1>4, <3>1, <3>2
  <2>3. k <= Len(t) + 1
    <3> SUFFICES ASSUME k > Len(t) + 1
                 PROVE  FALSE
      BY <1>1, <1>4
    <3>1. Len(t) + 1 \in 1..k - 1 /\ k \in DOMAIN s
      BY <1>1, <1>4
    <3>2. Differ(Len(t) + 1)
      BY <1>1, <3>1
    <3> QED BY <1>4, <3>1, <3>2
  <2> QED BY <2>1, <2>2, <2>3
<1>6. \A j \in 1..k - 1 : s[j] = t[j]
  BY <1>1, <1>4, <1>5
<1>7. LessAt(s, t, k) \/ LessAt(t, s, k)
  BY <1>1, <1>4, <1>5, <1>6 DEF LessAt
<1>8. (LessAt(s, t, k) => k \in DOMAIN t) /\ (LessAt(t, s, k) => k \in DOMAIN s)
  BY DEF LessAt
<1> QED BY <1>7, <1>8 DEF LexLess

\* Lexicographic order is transitive.
LEMMA LexTransitive ==
  ASSUME NEW s \in Seq(Int), NEW t \in Seq(Int), NEW u \in Seq(Int),
         LexLess(s, t), LexLess(t, u)
  PROVE  LexLess(s, u)
<1>1. PICK i : i \in DOMAIN t /\ LessAt(s, t, i)
  BY DEF LexLess
<1>2. PICK j : j \in DOMAIN u /\ LessAt(t, u, j)
  BY DEF LexLess
<1>3. /\ Len(s) \in Nat /\ DOMAIN s = 1..Len(s) /\ \A k \in DOMAIN s : s[k] \in Int
      /\ Len(t) \in Nat /\ DOMAIN t = 1..Len(t) /\ \A k \in DOMAIN t : t[k] \in Int
      /\ Len(u) \in Nat /\ DOMAIN u = 1..Len(u) /\ \A k \in DOMAIN u : u[k] \in Int
  OBVIOUS
<1>4. CASE i <= j
  <2>1. i \in DOMAIN u /\ i \in 1..Len(s) + 1
    BY <1>1, <1>2, <1>3, <1>4 DEF LessAt
  <2>2. \A k \in 1..i - 1 : s[k] = u[k]
    <3> SUFFICES ASSUME NEW k \in 1..i - 1
                 PROVE  s[k] = u[k]
      OBVIOUS
    <3>1. k \in 1..j - 1
      BY <1>2, <1>3, <1>4, <2>1
    <3> QED BY <1>1, <1>2, <3>1 DEF LessAt
  <2>3. i \in DOMAIN s => s[i] < u[i]
    <3>1. CASE i = j
      BY <1>1, <1>2, <1>3, <2>1, <3>1 DEF LessAt
    <3>2. CASE i # j
      <4>1. i \in 1..j - 1
        BY <1>2, <1>3, <1>4, <2>1, <3>2
      <4> QED BY <1>1, <1>2, <4>1 DEF LessAt
    <3> QED BY <3>1, <3>2
  <2>4. LessAt(s, u, i)
    BY <2>1, <2>2, <2>3 DEF LessAt
  <2> QED BY <2>1, <2>4 DEF LexLess
<1>5. CASE j < i
  <2>1. j \in DOMAIN s /\ j \in 1..Len(s) + 1 /\ j \in DOMAIN t /\ j \in 1..i - 1
    BY <1>1, <1>2, <1>3, <1>5 DEF LessAt
  <2>2. \A k \in 1..j - 1 : s[k] = u[k]
    <3> SUFFICES ASSUME NEW k \in 1..j - 1
                 PROVE  s[k] = u[k]
      OBVIOUS
    <3>1. k \in 1..i - 1
      BY <1>1, <1>3, <2>1
    <3> QED BY <1>1, <1>2, <3>1 DEF LessAt
  <2>3. s[j] < u[j]
    BY <1>1, <1>2, <2>1 DEF LessAt
  <2>4. LessAt(s, u, j)
    BY <1>2, <2>1, <2>2, <2>3 DEF LessAt
  <2> QED BY <1>2, <2>4 DEF LexLess
<1> QED BY <1>1, <1>2, <1>3, <1>4, <1>5

\* A common beginning does not matter to the order of sequences.
LEMMA LexOfAppend ==
  ASSUME NEW h \in Seq(Int), NEW s \in Seq(Int), NEW t \in Seq(Int)
  PROVE  LexLess(h \o s, h \o t) <=> LexLess(s, t)
<1>1. PICK n \in Nat : n = Len(h)
  OBVIOUS
<1>2. PICK a \in Nat : a = Len(s)
  OBVIOUS
<1>3. PICK b \in Nat : b = Len(t)
  OBVIOUS
<1>4. PICK u, v : u = h \o s /\ v = h \o t
  OBVIOUS
<1>5. /\ Len(u) = n + a /\ DOMAIN u = 1..n + a /\ DOMAIN s = 1..a
      /\ Len(v) = n + b /\ DOMAIN v = 1..n + b /\ DOMAIN t = 1..b
  <2>1. \A x, y \in Seq(Int) : x \o y \in Seq(Int) /\ Len(x \o y) = Len(x) + Len(y)
    OBVIOUS
  <2>2. u \in Seq(Int) /\ v \in Seq(Int) /\ Len(u) = n + a /\ Len(v) = n + b
    BY <1>1, <1>4, <1>2, <1>3, <2>1
  <2>3. DOMAIN u = 1..Len(u) /\ DOMAIN v = 1..Len(v)
    BY <2>2
  <2> QED BY <1>2, <1>3, <2>2, <2>3
<1>6. /\ \A i \in 1..n : u[i] = h[i] /\ v[i] = h[i] /\ h[i] \in Int
      /\ \A i \in 1..a : u[n + i] = s[i]
      /\ \A i \in 1..b : v[n + i] = t[i]
  <2>1. \A x, y \in Seq(Int) :
          /\ \A i \in 1..Len(x) : (x \o y)[i] = x[i]
          /\ \A i \in 1..Len(y) : (x \o y)[Len(x) + i] = y[i]
    OBVIOUS
  <2> QED BY <1>1, <1>4, <1>2, <1>3, <2>1
<1>7. ASSUME NEW k \in DOMAIN t, LessAt(s, t, k)
      PROVE  LexLess(u, v)
  <2>1. k \in 1..b /\ k \in 1..a + 1
    BY <1>5, <1>7, <1>2 DEF LessAt
  <2>2. n + k \in DOMAIN v /\ n + k \in 1..Len(u) + 1
    BY <1>5, <2>1
  <2>3. ASSUME NEW j \in 1..n + k - 1
        PROVE  u[j] = v[j]
    <3>1. CASE j <= n
      BY <1>6, <3>1
    <3>2. CASE j > n
      <4>1. PICK i \in 1..k - 1 : j = n + i
        BY <1>5, <3>2
      <4>2. i \in 1..a /\ i \in 1..b /\ s[i] = t[i]
        BY <1>5, <1>7, <4>1 DEF LessAt
      <4> QED BY <1>6, <4>1, <4>2
    <3> QED BY <1>5, <3>1, <3>2
  <2>4. n + k \in DOMAIN u => u[n + k] < v[n + k]
    <3> SUFFICES ASSUME n + k \in DOMAIN u
                 PROVE  u[n + k] < v[n + k]
      OBVIOUS
    <3>1. k \in 1..a /\ k \in 1..b
      BY <1>5
    <3> QED BY <1>5, <1>6, <1>7, <3>1 DEF LessAt
  <2> QED BY <2>2, <2>3, <2>4 DEF LexLess, LessAt
<1>8. ASSUME NEW m \in DOMAIN v, LessAt(u, v, m)
      PROVE  LexLess(s, t)
  <2>1. m \in Nat /\ m > n
    <3> SUFFICES ASSUME m <= n
                 PROVE  FALSE
      BY <1>5
    <3>1. m \in 1..n /\ m \in DOMAIN u
      BY <1>5
    <3>2. u[m] = v[m] /\ u[m] \in Int
      BY <1>6, <3>1
    <3> QED BY <1>8, <3>1, <3>2 DEF LessAt
  <2>2. PICK k \in Nat : m = n + k /\ k >= 1
    <3>1. m - n \in Nat /\ m = n + (m - n) /\ m - n >= 1
      BY <2>1, <1>5
    <3> QED BY <3>1
  <2>3. k \in DOMAIN t /\ k \in 1..a + 1
    BY <1>5, <1>8, <1>2, <2>2 DEF LessAt
  <2>4. ASSUME NEW j \in 1..k - 1
        PROVE  s[j] = t[j]
    <3>1. n + j \in 1..m - 1 /\ j \in 1..a /\ j \in 1..b
      BY <1>5, <2>2, <2>3
    <3>2. u[n + j] = v[n + j]
      BY <1>8, <3>1 DEF LessAt
    <3> QED BY <1>6, <3>1, <3>2
  <2>5. k \in DOMAIN s => s[k] < t[k]
    <3> SUFFICES ASSUME k \in DOMAIN s
                 PROVE  s[k] < t[k]
      OBVIOUS
    <3>1. k \in 1..a /\ k \in 1..b /\ m \in DOMAIN u
      BY <1>5, <2>2, <2>3
    <3>2. u[m] < v[m]
      BY <1>8, <3>1 DEF LessAt
    <3> QED BY <1>6, <2>2, <3>1, <3>2
  <2> QED BY <1>2, <2>3, <2>4, <2>5 DEF LexLess, LessAt
<1> QED BY <1>4, <1>7, <1>8 DEF LexLess

\* No sequence of integers is smaller than itself.
LEMMA LexIrreflexive ==
  ASSUME NEW s \in Seq(Int)
  PROVE  ~LexLess(s, s)
<1> SUFFICES ASSUME NEW k \in DOMAIN s, LessAt(s, s, k)
             PROVE  FALSE
  BY DEF LexLess
<1>1. s[k] \in Int
  OBVIOUS
<1> QED BY <1>1 DEF LessAt

TellsApart(key, S) ==
  /\ \A x \in S : key[x] \in Seq(Int)
  /\ \A x, y \in S : key[x] = key[y] => x = y

\* A finite, non-empty set has an element whose key is the smallest.
LEMMA LeastByKey ==
  ASSUME NEW S, IsFiniteSet(S), S # {}, NEW key, TellsApart(key, S)
  PROVE  \E x \in S : \A y \in S \ {x} : LexLess(key[x], key[y])
<1>1. PICK R : R = {p \in S \X S : LexLess(key[p[1]], key[p[2]])}
  OBVIOUS
<1>2. \A x, y \in S : <<x, y>> \in R <=> LexLess(key[x], key[y])
  BY <1>1
<1>3. Comparable(R, S)
  <2> SUFFICES ASSUME NEW x \in S, NEW y \in S, x # y
               PROVE  LexLess(key[x], key[y]) \/ LexLess(key[y], key[x])
    BY <1>2 DEF Comparable
  <2>1. key[x] \in Seq(Int) /\ key[y] \in Seq(Int) /\ key[x] # key[y]
    BY DEF TellsApart
  <2> QED BY <2>1, LexTotal
<1>4. Chains(R, S)
  <2> SUFFICES ASSUME NEW x \in S, NEW y \in S, NEW z \in S,
                      LexLess(key[x], key[y]), LexLess(key[y], key[z])
               PROVE  LexLess(key[x], key[z])
    BY <1>2 DEF Chains
  <2>1. key[x] \in Seq(Int) /\ key[y] \in Seq(Int) /\ key[z] \in Seq(Int)
    BY DEF TellsApart
  <2> QED BY <2>1, LexTransitive
<1>5. \E x \in S : \A y \in S \ {x} : <<x, y>> \in R
  BY <1>3, <1>4, FirstExists
<1> QED BY <1>2, <1>5

-----------------------------------------------------------------------------
(* Folds over sequences: FoldLeft takes the positions out from the last on. *)

\* What holds at 0 and is passed on up to n holds up to n.
LEMMA UpTo ==
  ASSUME NEW n \in Nat, NEW K, 0 \in K, \A k \in 1..n : k - 1 \in K => k \in K
  PROVE  \A k \in 0..n : k \in K
<1> SUFFICES ASSUME NEW k0 \in 0..n, k0 \notin K
             PROVE  FALSE
  OBVIOUS
<1> DEFINE T == {j \in 0..n : j \notin K}
<1>1. T \in SUBSET Nat /\ T # {}
  OBVIOUS
<1>2. PICK k \in T : \A m \in T : k <= m
  <2> HIDE DEF T
  <2> QED BY <1>1, SmallestNumber
<1>3. k # 0 /\ k \in 1..n /\ k - 1 \in 0..n
  BY <1>2
<1>4. k - 1 \in K
  BY <1>2, <1>3
<1> QED BY <1>2, <1>3, <1>4

\* Adding to a subset of a finite set comes to an end.
LEMMA Saturates ==
  ASSUME NEW U, IsFiniteSet(U), NEW N \in Nat, N = Cardinality(U),
         NEW D, \A W \in SUBSET U : D[W] \in SUBSET U /\ W \subseteq D[W],
         NEW p, p[0] \in SUBSET U, \A k \in 1..N : p[k] = D[p[k - 1]]
  PROVE  \E n \in 0..N : p[n] \in SUBSET U /\ D[p[n]] = p[n]
<1> SUFFICES ASSUME \A n \in 0..N : p[n] \in SUBSET U => D[p[n]] # p[n]
             PROVE  FALSE
  OBVIOUS
<1>1. PICK K : K = {k \in 0..N : p[k] \in SUBSET U /\ k <= Cardinality(p[k])}
  OBVIOUS
<1>2. \A W \in SUBSET U : IsFiniteSet(W) /\ Cardinality(W) \in Nat
  BY FS_Subset, FS_CardinalityType
<1>3. 0 \in K
  BY <1>1, <1>2
<1>4. ASSUME NEW W \in SUBSET U, D[W] # W
      PROVE  Cardinality(W) < Cardinality(D[W])
  <2>1. D[W] \in SUBSET U /\ W \in SUBSET D[W] /\ IsFiniteSet(D[W])
    BY <1>2
  <2>2. Cardinality(W) <= Cardinality(D[W]) /\ Cardinality(W) # Cardinality(D[W])
    BY <1>4, <2>1, FS_Subset
  <2> QED BY <1>2, <2>1, <2>2
<1>5. ASSUME NEW k \in 1..N, k - 1 \in K
      PROVE  k \in K
  <2>1. k - 1 \in 0..N /\ p[k - 1] \in SUBSET U /\ k - 1 <= Cardinality(p[k - 1])
    BY <1>1, <1>5
  <2>2. p[k] = D[p[k - 1]] /\ p[k] \in SUBSET U
    BY <2>1
  <2>3. Cardinality(p[k - 1]) < Cardinality(p[k])
    BY <1>4, <2>1, <2>2
  <2>4. Cardinality(p[k - 1]) \in Nat /\ Cardinality(p[k]) \in Nat
    BY <1>2, <2>1, <2>2
  <2> QED BY <1>1, <2>1, <2>2, <2>3, <2>4
<1>6. \A k \in 0..N : k \in K
  BY <1>3, <1>5, UpTo
<1>7. p[N] \in SUBSET U /\ N <= Cardinality(p[N]) /\ D[p[N]] # p[N]
  BY <1>1, <1>6
<1>8. Cardinality(p[N]) < Cardinality(D[p[N]]) /\ Cardinality(D[p[N]]) <= N
  BY <1>4, <1>7, FS_Subset
<1>9. Cardinality(p[N]) \in Nat /\ Cardinality(D[p[N]]) \in Nat
  BY <1>2, <1>7
<1> QED BY <1>7, <1>8, <1>9

\* The last position of a set of positions is one of them.
LEMMA LastPosition ==
  ASSUME NEW n \in Nat, NEW s \in SUBSET (1..n), s # {}
  PROVE  Max(s) \in s
<1>1. IsFiniteSet(1..n)
  BY FS_Interval
<1>2. IsFiniteSet(s)
  BY <1>1, FS_Subset
<1> DEFINE f == [x \in s |-> -x]
<1>3. \A x \in s : f[x] \in Int /\ f[x] = -x /\ x \in Int
  OBVIOUS
<1>4. \E x \in s : \A y \in s : f[x] <= f[y]
  <2> HIDE DEF f
  <2> QED BY <1>2, <1>3, LeastExists
<1>5. \E x \in s : \A y \in s : x >= y
  BY <1>3, <1>4
<1> QED BY <1>5 DEF Max

\* The last position of a prefix is its length, and what remains is the shorter prefix.
LEMMA LastOfPrefix ==
  ASSUME NEW k \in Nat \ {0}
  PROVE  /\ Max(1..k) = k
         /\ (1..k) \ {k} = 1..(k - 1)
         /\ 1..k # {}
<1>1. \A x \in 1..k : (\A y \in 1..k : x >= y) => x = k
  OBVIOUS
<1>2. k \in 1..k /\ \A y \in 1..k : k >= y
  OBVIOUS
<1> QED BY <1>1, <1>2 DEF Max

FoldsLeft(g, n, V, base, step) ==
  /\ g \in [SUBSET (1..n) -> V]
  /\ g[{}] = base
  /\ \A s \in SUBSET (1..n) : s # {} => g[s] = step[Max(s)][g[s \ {Max(s)}]]

\* The recursion of a fold over a sequence of length n has a solution.
LEMMA LeftFoldExists ==
  ASSUME NEW n \in Nat, NEW V, NEW base \in V, NEW step, StepsInto(step, 1..n, V)
  PROVE  \E g : FoldsLeft(g, n, V, base, step)
<1>1. PICK c : c = [s \in SUBSET (1..n) |-> Max(s)]
  OBVIOUS
<1>2. Chooses(c, 1..n)
  BY <1>1, LastPosition DEF Chooses
<1>3. PICK g : Climbs(g, 1..n, V, base, c, step)
  BY <1>2, FoldExists, FS_Interval
<1> QED BY <1>1, <1>3 DEF Climbs, FoldsLeft

\* The same for a g that is not known to stay in V.
FoldsAlong(g, n, V, base, step) ==
  /\ g[{}] = base
  /\ \A s \in SUBSET (1..n) :
       s # {} /\ g[s \ {Max(s)}] \in V => g[s] = step[Max(s)][g[s \ {Max(s)}]]

Running(p, n, V, base, step) ==
  /\ p[0] = base
  /\ \A k \in 0..n : p[k] \in V
  /\ \A k \in 1..n : p[k] = step[k][p[k - 1]]

\* What solves the recursion of a fold is computed from the first position on.
LEMMA LeftFoldPrefixes ==
  ASSUME NEW n \in Nat, NEW V, NEW base \in V, NEW step, StepsInto(step, 1..n, V),
         NEW g, FoldsAlong(g, n, V, base, step)
  PROVE  \E p : Running(p, n, V, base, step) /\ p[n] = g[1..n]
<1>1. PICK p : p = [k \in 0..n |-> g[1..k]]
  OBVIOUS
<1>2. p[0] = base /\ p[n] = g[1..n]
  <2>1. 1..0 = {}
    OBVIOUS
  <2> QED BY <1>1, <2>1 DEF FoldsAlong
<1>3. ASSUME NEW k \in 1..n, p[k - 1] \in V
      PROVE  p[k] = step[k][p[k - 1]] /\ p[k] \in V
  <2>1. PICK s : s = 1..k
    OBVIOUS
  <2>2. s # {} /\ Max(s) = k /\ s \ {k} = 1..(k - 1)
    BY <2>1, LastOfPrefix
  <2>3. s \in SUBSET (1..n)
    BY <2>1
  <2>4. p[k] = g[s] /\ p[k - 1] = g[s \ {k}]
    <3>1. k \in 0..n /\ k - 1 \in 0..n
      OBVIOUS
    <3>2. p[k] = g[1..k] /\ p[k - 1] = g[1..(k - 1)]
      BY <1>1, <3>1
    <3> QED BY <2>1, <2>2, <3>2
  <2>5. p[k] = step[k][p[k - 1]]
    BY <1>3, <2>2, <2>3, <2>4 DEF FoldsAlong
  <2> QED BY <1>3, <2>5 DEF StepsInto
<1>4. \A k \in 0..n : p[k] \in V
  <2>1. PICK K : K = {k \in 0..n : p[k] \in V}
    OBVIOUS
  <2>2. 0 \in K
    BY <1>2, <2>1
  <2>3. \A k \in 1..n : k - 1 \in K => k \in K
    BY <1>3, <2>1
  <2>4. \A k \in 0..n : k \in K
    BY <2>2, <2>3, UpTo
  <2> QED BY <2>1, <2>4
<1>5. \A k \in 1..n : p[k] = step[k][p[k - 1]]
  <2>1. \A k \in 1..n : k - 1 \in 0..n
    OBVIOUS
  <2> QED BY <1>3, <1>4, <2>1
<1> QED BY <1>2, <1>4, <1>5 DEF Running

\* A recursion along positions has a solution.
LEMMA RunExists ==
  ASSUME NEW n \in Nat, NEW V, NEW base \in V, NEW step, StepsInto(step, 1..n, V)
  PROVE  \E p \in [0..n -> V] : Running(p, n, V, base, step)
<1>1. PICK g : FoldsLeft(g, n, V, base, step)
  BY LeftFoldExists
<1>2. FoldsAlong(g, n, V, base, step)
  BY <1>1 DEF FoldsLeft, FoldsAlong
<1>3. PICK p : Running(p, n, V, base, step)
  BY <1>2, LeftFoldPrefixes
<1>4. PICK q : q = [k \in 0..n |-> p[k]]
  OBVIOUS
<1>5. \A k \in 1..n : k - 1 \in 0..n /\ k \in 0..n
  OBVIOUS
<1>6. q \in [0..n -> V] /\ Running(q, n, V, base, step)
  BY <1>3, <1>4, <1>5 DEF Running
<1> QED BY <1>6

-----------------------------------------------------------------------------
(* Sums over finite sets.                                                  *)

Total(f, S) == MapThenSumSet(LAMBDA i : f[i], S)

Pick(s) == CHOOSE x \in s : TRUE

Sums(g, f, S) ==
  g = [s \in SUBSET S |-> IF s = {} THEN 0
                          ELSE LET x == Pick(s) IN f[x] + g[s \ {x}]]

\* The sum is what the recursion gives for the whole set.
LEMMA TotalSums ==
  ASSUME NEW f, NEW S, IsFiniteSet(S), \A x \in S : f[x] \in Int
  PROVE  \E g \in [SUBSET S -> Int] : Total(f, S) = g[S] /\ Sums(g, f, S)
<1>1. PICK c : c = [s \in SUBSET S |-> Pick(s)]
  OBVIOUS
<1>2. PICK step : step = [x \in S |-> [v \in Int |-> f[x] + v]]
  OBVIOUS
<1>3. Chooses(c, S) /\ StepsInto(step, S, Int) /\ 0 \in Int
  BY <1>1, <1>2 DEF Chooses, StepsInto, Pick
<1>4. PICK g : Climbs(g, S, Int, 0, c, step)
  BY <1>3, FoldExists
<1>5. Sums(g, f, S)
  <2>1. \A s \in SUBSET S :
          g[s] = IF s = {} THEN 0 ELSE LET x == Pick(s) IN f[x] + g[s \ {x}]
    BY <1>1, <1>2, <1>3, <1>4 DEF Climbs, Chooses
  <2> QED BY <2>1, <1>4 DEF Sums, Climbs
<1> DEFINE it == CHOOSE h : Sums(h, f, S)
<1>6. Total(f, S) = it[S]
  BY DEF Total, MapThenSumSet, MapThenFoldSet, Sums, Pick
<1>7. Sums(it, f, S)
  BY <1>5
<1> HIDE DEF it
<1>8. \A s \in SUBSET S : it[s] \in Int
  <2> DEFINE T == {s \in SUBSET S : it[s] \notin Int}
  <2> SUFFICES ASSUME T # {}
               PROVE  FALSE
    OBVIOUS
  <2>1. PICK s : Smallest(s, T)
    <3>1. T \subseteq SUBSET S
      OBVIOUS
    <3> HIDE DEF T
    <3> QED BY <3>1, SmallestSubset
  <2>2. CASE s = {}
    BY <2>1, <2>2, <1>7 DEF Sums, Smallest
  <2>3. CASE s # {}
    <3>1. PICK x \in s : it[s] = f[x] + it[s \ {x}]
      <4>1. Pick(s) \in s /\ s \in SUBSET S
        BY <2>1, <2>3 DEF Pick, Smallest
      <4>2. it[s] = f[Pick(s)] + it[s \ {Pick(s)}]
        BY <4>1, <2>3, <1>7 DEF Sums
      <4> QED BY <4>1, <4>2
    <3>2. it[s \ {x}] \in Int /\ f[x] \in Int
      BY <2>1, <3>1 DEF Smallest
    <3> QED BY <2>1, <3>1, <3>2 DEF Smallest
  <2> QED BY <2>2, <2>3
<1>9. it \in [SUBSET S -> Int]
  BY <1>8, <1>7 DEF Sums
<1> QED BY <1>6, <1>7, <1>9

\* A sum of integers is an integer, and the empty sum is zero.
LEMMA TotalType ==
  ASSUME NEW f, NEW S, IsFiniteSet(S), \A x \in S : f[x] \in Int
  PROVE  Total(f, S) \in Int /\ (S = {} => Total(f, S) = 0)
<1>1. PICK g \in [SUBSET S -> Int] : Total(f, S) = g[S] /\ Sums(g, f, S)
  BY TotalSums
<1> QED BY <1>1 DEF Sums

\* Two sums of the same summands agree on the subsets of both sets.
LEMMA SumsAgree ==
  ASSUME NEW f, NEW S, IsFiniteSet(S), NEW U \in SUBSET S,
         NEW g, Sums(g, f, S), NEW h, Sums(h, f, U)
  PROVE  \A s \in SUBSET U : g[s] = h[s]
<1> DEFINE T == {s \in SUBSET U : g[s] # h[s]}
<1> SUFFICES ASSUME T # {}
             PROVE  FALSE
  OBVIOUS
<1>1. PICK s : Smallest(s, T)
  <2>1. T \subseteq SUBSET S
    OBVIOUS
  <2> HIDE DEF T
  <2> QED BY <2>1, SmallestSubset
<1>2. CASE s = {}
  BY <1>1, <1>2 DEF Sums, Smallest
<1>3. CASE s # {}
  <2> DEFINE x == Pick(s)
  <2>1. x \in s
    BY <1>3 DEF Pick
  <2>2. g[s] = f[x] + g[s \ {x}] /\ h[s] = f[x] + h[s \ {x}]
    BY <1>1, <1>3 DEF Sums, Smallest
  <2> HIDE DEF x
  <2>3. g[s \ {x}] = h[s \ {x}]
    BY <1>1, <2>1 DEF Smallest
  <2> QED BY <1>1, <2>2, <2>3 DEF Smallest
<1> QED BY <1>2, <1>3

\* Every element can be taken out of a sum, in any order.
LEMMA TotalRemove ==
  ASSUME NEW f, NEW S, IsFiniteSet(S), \A x \in S : f[x] \in Int
  PROVE  \A x \in S : Total(f, S) = f[x] + Total(f, S \ {x})
<1>1. ASSUME NEW U \in SUBSET S, U # {}
      PROVE  Pick(U) \in U /\ Total(f, U) = f[Pick(U)] + Total(f, U \ {Pick(U)})
  <2> DEFINE x == Pick(U)
             V == U \ {x}
  <2>1. x \in U
    BY <1>1 DEF Pick
  <2>2. IsFiniteSet(U) /\ IsFiniteSet(V)
    BY FS_Subset
  <2>3. PICK g \in [SUBSET U -> Int] : Total(f, U) = g[U] /\ Sums(g, f, U)
    BY <2>2, TotalSums
  <2>4. PICK h \in [SUBSET V -> Int] : Total(f, V) = h[V] /\ Sums(h, f, V)
    BY <2>2, TotalSums
  <2>5. g[V] = h[V]
    BY <2>2, <2>3, <2>4, SumsAgree
  <2>6. g[U] = f[x] + g[V]
    BY <2>3, <1>1 DEF Sums
  <2> QED BY <2>1, <2>3, <2>4, <2>5, <2>6
<1>2. \A U \in SUBSET S : Total(f, U) \in Int
  BY FS_Subset, TotalType
<1> DEFINE T == {U \in SUBSET S : \E x \in U : Total(f, U) # f[x] + Total(f, U \ {x})}
<1> SUFFICES ASSUME T # {}
             PROVE  FALSE
  OBVIOUS
<1>3. PICK U : Smallest(U, T)
  <2>1. T \subseteq SUBSET S
    OBVIOUS
  <2> HIDE DEF T
  <2> QED BY <2>1, SmallestSubset
<1>4. U \in SUBSET S /\ \E x \in U : Total(f, U) # f[x] + Total(f, U \ {x})
  BY <1>3 DEF Smallest
<1>4a. PICK x \in U : Total(f, U) # f[x] + Total(f, U \ {x})
  BY <1>4
<1>5. PICK y \in U : Total(f, U) = f[y] + Total(f, U \ {y})
  BY <1>1, <1>4
<1>6. x # y
  BY <1>4a, <1>5
<1>7. U \ {y} \notin T /\ U \ {x} \notin T
  BY <1>3 DEF Smallest
<1>8. /\ Total(f, U \ {y}) = f[x] + Total(f, (U \ {y}) \ {x})
      /\ Total(f, U \ {x}) = f[y] + Total(f, (U \ {x}) \ {y})
  BY <1>4, <1>6, <1>7
<1>9. (U \ {y}) \ {x} = (U \ {x}) \ {y}
  OBVIOUS
<1>10. Total(f, (U \ {x}) \ {y}) \in Int /\ f[x] \in Int /\ f[y] \in Int
  BY <1>2, <1>4
<1> HIDE DEF T
<1>11. PICK d \in Int : d = Total(f, (U \ {x}) \ {y})
  BY <1>10
<1>12. Total(f, U) = f[y] + (f[x] + d) /\ Total(f, U \ {x}) = f[y] + d
  BY <1>5, <1>8, <1>9, <1>11
<1>13. f[y] + (f[x] + d) = f[x] + (f[y] + d)
  BY <1>10
<1> QED BY <1>4a, <1>12, <1>13

\* A sum over a part plus the sum over the rest is the sum.
LEMMA TotalSplit ==
  ASSUME NEW f, NEW S, IsFiniteSet(S), \A x \in S : f[x] \in Int, NEW U \in SUBSET S
  PROVE  Total(f, S) = Total(f, U) + Total(f, S \ U)
<1> DEFINE T == {W \in SUBSET U : Total(f, W \cup (S \ U)) # Total(f, W) + Total(f, S \ U)}
<1>1. \A W \in SUBSET S : Total(f, W) \in Int /\ IsFiniteSet(W)
  BY FS_Subset, TotalType
<1>2. ASSUME T # {}
      PROVE  FALSE
  <2>1. PICK W : Smallest(W, T)
    <3>1. T \subseteq SUBSET S
      OBVIOUS
    <3> HIDE DEF T
    <3> QED BY <1>2, <3>1, SmallestSubset
  <2> W \in SUBSET U /\ Total(f, W \cup (S \ U)) # Total(f, W) + Total(f, S \ U)
    BY <2>1 DEF Smallest
  <2>2. CASE W = {}
    <3>1. Total(f, {}) = 0 /\ {} \cup (S \ U) = S \ U
      BY TotalType, FS_EmptySet
    <3> QED BY <2>2, <3>1, <1>1
  <2>3. CASE W # {}
    <3>1. PICK x \in W : TRUE
      BY <2>3
    <3>2. Total(f, W) = f[x] + Total(f, W \ {x})
      BY <1>1, <3>1, TotalRemove
    <3>3. Total(f, W \cup (S \ U)) = f[x] + Total(f, (W \cup (S \ U)) \ {x})
      BY <1>1, <3>1, TotalRemove
    <3>4. (W \cup (S \ U)) \ {x} = (W \ {x}) \cup (S \ U)
      BY <3>1
    <3>5. Total(f, (W \ {x}) \cup (S \ U)) = Total(f, W \ {x}) + Total(f, S \ U)
      <4>1. W \ {x} \notin T /\ W \ {x} \in SUBSET U
        BY <2>1, <3>1 DEF Smallest
      <4> QED BY <4>1
    <3>6. f[x] \in Int /\ Total(f, W \ {x}) \in Int /\ Total(f, S \ U) \in Int
      BY <1>1, <3>1
    <3> HIDE DEF T
    <3>7. PICK a \in Int, b \in Int, e \in Int :
            a = f[x] /\ b = Total(f, W \ {x}) /\ e = Total(f, S \ U)
      BY <3>6
    <3>8. Total(f, W) = a + b /\ Total(f, W \cup (S \ U)) = a + (b + e)
      BY <3>2, <3>3, <3>4, <3>5, <3>7
    <3> QED BY <3>7, <3>8
  <2> QED BY <2>2, <2>3
<1>3. U \cup (S \ U) = S
  OBVIOUS
<1> QED BY <1>2, <1>3

\* Whatever solves the recursion gives the sum.
LEMMA TotalUnique ==
  ASSUME NEW f, NEW S, IsFiniteSet(S), \A x \in S : f[x] \in Int,
         NEW g, Sums(g, f, S)
  PROVE  g[S] = Total(f, S)
<1>1. PICK h \in [SUBSET S -> Int] : Total(f, S) = h[S] /\ Sums(h, f, S)
  BY TotalSums
<1> QED BY <1>1, SumsAgree

\* Equal summands make equal sums.
LEMMA TotalSame ==
  ASSUME NEW f, NEW g, NEW S, IsFiniteSet(S), \A x \in S : f[x] \in Int /\ f[x] = g[x]
  PROVE  Total(f, S) = Total(g, S)
<1>1. PICK h \in [SUBSET S -> Int] : Total(f, S) = h[S] /\ Sums(h, f, S)
  BY TotalSums
<1>2. \A s \in SUBSET S : s # {} => Pick(s) \in S
  BY DEF Pick
<1>3. \A s \in SUBSET S : h[s] = IF s = {} THEN 0 ELSE g[Pick(s)] + h[s \ {Pick(s)}]
  BY <1>1, <1>2 DEF Sums
<1>4. Sums(h, g, S)
  BY <1>1, <1>3 DEF Sums
<1> QED BY <1>1, <1>4, TotalUnique

\* A sum over the images of distinct elements, each image at most d above the
\* element's own summand, is at most d an element above their sum.
LEMMA TotalOfImages ==
  ASSUME NEW S, IsFiniteSet(S), NEW d \in Int, NEW f, NEW g, NEW h,
         \A x \in S : /\ g[x] \in Int /\ f[h[x]] \in Int
                      /\ f[h[x]] <= g[x] + d,
         \A x, y \in S : h[x] = h[y] => x = y
  PROVE  Total(f, {h[x] : x \in S}) <= Total(g, S) + d * Cardinality(S)
<1> DEFINE Image(W) == {h[x] : x \in W}
           T == {W \in SUBSET S :
                   ~(Total(f, Image(W)) <= Total(g, W) + d * Cardinality(W))}
<1>1. \A W \in SUBSET S : /\ IsFiniteSet(W) /\ IsFiniteSet(Image(W))
                          /\ \A y \in Image(W) : f[y] \in Int
  <2> SUFFICES ASSUME NEW W \in SUBSET S
               PROVE  IsFiniteSet(W) /\ IsFiniteSet(Image(W))
    OBVIOUS
  <2>1. IsFiniteSet(W)
    BY FS_Subset
  <2> DEFINE k == [x \in W |-> h[x]]
  <2>2. k \in Surjection(W, Image(W))
    BY DEF Surjection
  <2> HIDE DEF k, Image
  <2> QED BY <2>1, <2>2, FS_Surjection
<1> SUFFICES ASSUME T # {}
             PROVE  FALSE
  OBVIOUS
<1>2. PICK W : Smallest(W, T)
  <2>1. T \subseteq SUBSET S
    OBVIOUS
  <2> HIDE DEF T
  <2> QED BY <2>1, SmallestSubset
<1>3. /\ W \in SUBSET S
      /\ ~(Total(f, Image(W)) <= Total(g, W) + d * Cardinality(W))
  BY <1>2 DEF Smallest
<1>4. CASE W = {}
  <2>1. Image(W) = {} /\ Cardinality(W) = 0
    BY <1>4, FS_EmptySet
  <2>2. Total(f, Image(W)) = 0 /\ Total(g, W) = 0
    BY <1>4, <2>1, TotalType, FS_EmptySet
  <2> QED BY <1>3, <2>1, <2>2
<1>5. ASSUME NEW x \in W
      PROVE  FALSE
  <2> DEFINE V == W \ {x}
  <2>1. V \in SUBSET S /\ V \notin T
    BY <1>2, <1>3, <1>5 DEF Smallest
  <2>2. Total(f, Image(V)) <= Total(g, V) + d * Cardinality(V)
    BY <2>1
  <2>3. Image(W) \ {h[x]} = Image(V) /\ h[x] \in Image(W)
    BY <1>3
  <2>4. Total(f, Image(W)) = f[h[x]] + Total(f, Image(V))
    <3> HIDE DEF Image, V
    <3> QED BY <1>1, <1>3, <2>3, TotalRemove
  <2>5. Total(g, W) = g[x] + Total(g, V)
    BY <1>1, <1>3, TotalRemove
  <2>6. Cardinality(W) = Cardinality(V) + 1 /\ Cardinality(V) \in Nat
    <3>1. IsFiniteSet(W)
      BY <1>1, <1>3
    <3>2. IsFiniteSet(V) /\ Cardinality(V) = Cardinality(W) - 1
      BY <3>1, FS_RemoveElement
    <3>3. Cardinality(W) \in Nat /\ Cardinality(V) \in Nat
      BY <3>1, <3>2, FS_CardinalityType
    <3> QED BY <3>2, <3>3
  <2>7. Total(f, Image(V)) \in Int /\ Total(g, V) \in Int
    <3> HIDE DEF Image, T
    <3>1. IsFiniteSet(V) /\ IsFiniteSet(Image(V)) /\ \A y \in Image(V) : f[y] \in Int
      BY <1>1, <2>1
    <3> QED BY <1>3, <3>1, TotalType
  <2>8. f[h[x]] \in Int /\ g[x] \in Int /\ f[h[x]] <= g[x] + d
    BY <1>3
  <2> HIDE DEF Image, V, T
  <2>9. d * (Cardinality(V) + 1) = d * Cardinality(V) + d /\ d * Cardinality(V) \in Int
    BY <2>6
  <2>10. PICK a \in Int, b \in Int, n \in Int :
           a = Total(f, Image(V)) /\ b = Total(g, V) /\ n = d * Cardinality(V)
    BY <2>7, <2>9
  <2>11. f[h[x]] + a <= (g[x] + b) + (n + d)
    BY <2>2, <2>8, <2>10
  <2>12. d * Cardinality(W) = n + d
    BY <2>6, <2>9, <2>10
  <2> QED BY <1>3, <2>4, <2>5, <2>10, <2>11, <2>12
<1> QED BY <1>4, <1>5

\* A sum of summands none of which is positive is not positive.
LEMMA TotalNotPositive ==
  ASSUME NEW f, NEW S, IsFiniteSet(S), \A x \in S : f[x] \in Int /\ f[x] <= 0
  PROVE  Total(f, S) <= 0
<1> DEFINE T == {W \in SUBSET S : ~(Total(f, W) <= 0)}
<1> SUFFICES ASSUME T # {}
             PROVE  FALSE
  OBVIOUS
<1>1. T \subseteq SUBSET S
  OBVIOUS
<1>2. PICK W : Smallest(W, T)
  <2> HIDE DEF T
  <2> QED BY <1>1, SmallestSubset
<1>3. W \in SUBSET S /\ IsFiniteSet(W) /\ W \in T
  BY <1>2, FS_Subset DEF Smallest
<1>4. W # {}
  BY <1>3, TotalType
<1>5. PICK x \in W : TRUE
  BY <1>4
<1>6. W \ {x} \notin T /\ W \ {x} \in SUBSET S
  BY <1>2, <1>3, <1>5 DEF Smallest
<1>7. Total(f, W) = f[x] + Total(f, W \ {x})
  BY <1>3, <1>5, TotalRemove
<1>8. Total(f, W \ {x}) \in Int /\ f[x] \in Int
  BY <1>3, <1>6, TotalType, FS_Subset
<1> QED BY <1>3, <1>6, <1>7, <1>8

\* A sum along positions grows by the next summand.
LEMMA TotalNext ==
  ASSUME NEW N \in Nat, NEW f, \A n \in 1..N : f[n] \in Int
  PROVE  /\ Total(f, 1..0) = 0
         /\ \A n \in 1..N : /\ Total(f, 1..(n - 1)) \in Int
                            /\ Total(f, 1..n) = Total(f, 1..(n - 1)) + f[n]
<1>1. Total(f, 1..0) = 0
  <2>1. 1..0 = {}
    OBVIOUS
  <2>2. IsFiniteSet({})
    BY FS_EmptySet
  <2>3. Total(f, {}) = 0
    BY <2>2, TotalType
  <2> QED BY <2>1, <2>3
<1>2. ASSUME NEW n \in 1..N
      PROVE  /\ Total(f, 1..(n - 1)) \in Int
             /\ Total(f, 1..n) = Total(f, 1..(n - 1)) + f[n]
  <2>1. PICK S : S = 1..n
    OBVIOUS
  <2>2. IsFiniteSet(S) /\ IsFiniteSet(S \ {n}) /\ n \in S
    BY <2>1, FS_Interval, FS_Subset
  <2>3. \A x \in S : f[x] \in Int
    BY <2>1
  <2>4. Total(f, S) = f[n] + Total(f, S \ {n})
    BY ZenonT(40), <2>2, <2>3, TotalRemove
  <2>5. Total(f, S \ {n}) \in Int
    BY <2>2, <2>3, TotalType
  <2>6. S \ {n} = 1..(n - 1)
    BY <2>1
  <2>7. Total(f, S) = Total(f, 1..n) /\ Total(f, S \ {n}) = Total(f, 1..(n - 1))
    BY <2>1, <2>6
  <2>8. f[n] \in Int
    OBVIOUS
  <2> QED BY <2>4, <2>5, <2>7, <2>8
<1> QED BY <1>1, <1>2

\* What adds up at every position adds up in all.
LEMMA TotalAdds ==
  ASSUME NEW N \in Nat, NEW f, NEW g, NEW h,
         \A n \in 1..N : g[n] \in Int /\ h[n] \in Int /\ f[n] = g[n] + h[n]
  PROVE  Total(f, 1..N) = Total(g, 1..N) + Total(h, 1..N)
<1>1. \A n \in 1..N : f[n] \in Int
  OBVIOUS
<1>2. \A n \in 1..N : g[n] \in Int
  OBVIOUS
<1>3. \A n \in 1..N : h[n] \in Int
  OBVIOUS
<1>4. /\ Total(f, 1..0) = 0
      /\ \A n \in 1..N : /\ Total(f, 1..(n - 1)) \in Int
                         /\ Total(f, 1..n) = Total(f, 1..(n - 1)) + f[n]
  BY <1>1, TotalNext
<1>5. /\ Total(g, 1..0) = 0
      /\ \A n \in 1..N : /\ Total(g, 1..(n - 1)) \in Int
                         /\ Total(g, 1..n) = Total(g, 1..(n - 1)) + g[n]
  BY <1>2, TotalNext
<1>6. /\ Total(h, 1..0) = 0
      /\ \A n \in 1..N : /\ Total(h, 1..(n - 1)) \in Int
                         /\ Total(h, 1..n) = Total(h, 1..(n - 1)) + h[n]
  BY <1>3, TotalNext
<1>7. PICK K : K = {n \in 0..N : Total(f, 1..n) = Total(g, 1..n) + Total(h, 1..n)}
  OBVIOUS
<1>8. 0 \in K
  <2>1. 0 \in 0..N
    OBVIOUS
  <2> QED BY <1>4, <1>5, <1>6, <1>7, <2>1
<1>9. ASSUME NEW n \in 1..N, n - 1 \in K
      PROVE  n \in K
  <2>1. Total(f, 1..(n - 1)) = Total(g, 1..(n - 1)) + Total(h, 1..(n - 1)) /\ n \in 0..N
    BY <1>7, <1>9
  <2>2. Total(f, 1..n) = Total(f, 1..(n - 1)) + f[n]
    BY <1>4
  <2>3. Total(g, 1..(n - 1)) \in Int /\ Total(g, 1..n) = Total(g, 1..(n - 1)) + g[n]
    BY <1>5
  <2>4. Total(h, 1..(n - 1)) \in Int /\ Total(h, 1..n) = Total(h, 1..(n - 1)) + h[n]
    BY <1>6
  <2>5. g[n] \in Int /\ h[n] \in Int /\ f[n] = g[n] + h[n]
    OBVIOUS
  <2>6. Total(f, 1..n) = Total(g, 1..n) + Total(h, 1..n)
    BY <2>1, <2>2, <2>3, <2>4, <2>5
  <2> QED BY <1>7, <2>1, <2>6
<1>10. \A n \in 0..N : n \in K
  BY <1>8, <1>9, UpTo
<1>11. N \in K
  BY <1>10
<1> QED BY <1>7, <1>11

-----------------------------------------------------------------------------
(* Running sums: a fold that adds, at every position whose item is in U,   *)
(* the item's weight, rounded to one side.                                 *)

Met(item, U, k) == {item[i] : i \in {h \in 1..k : item[h] \in U}}

Weighs(w, item, U, n) ==
  /\ \A i, k \in 1..n : item[i] = item[k] => i = k
  /\ \A i \in 1..n : item[i] \in U => w[item[i]] \in Int

AddsAtMost(step, w, item, U, n) ==
  \A k \in 1..n, v \in Int : step[k][v] <= v + (IF item[k] \in U THEN w[item[k]] ELSE 0)

AddsAtLeast(step, w, item, U, n) ==
  \A k \in 1..n, v \in Int : v + (IF item[k] \in U THEN w[item[k]] ELSE 0) <= step[k][v]

\* What has been met is a finite set of items with weights.
LEMMA MetFinite ==
  ASSUME NEW n \in Nat, NEW item, NEW U, NEW w, Weighs(w, item, U, n), NEW k \in 0..n
  PROVE  /\ IsFiniteSet(Met(item, U, k))
         /\ \A x \in Met(item, U, k) : w[x] \in Int
<1>1. PICK D : D = {h \in 1..k : item[h] \in U}
  OBVIOUS
<1>2. IsFiniteSet(D)
  <2>1. IsFiniteSet(1..k)
    BY FS_Interval
  <2> QED BY <1>1, <2>1, FS_Subset
<1>3. PICK f : f = [i \in D |-> item[i]]
  OBVIOUS
<1>4. f \in Surjection(D, Met(item, U, k))
  BY <1>1, <1>3 DEF Met, Surjection
<1>5. IsFiniteSet(Met(item, U, k))
  BY <1>2, <1>4, FS_Surjection
<1> QED BY <1>5 DEF Met, Weighs

\* Every position meets its item, and no other.
LEMMA MetNext ==
  ASSUME NEW n \in Nat, NEW item, NEW U, NEW w, Weighs(w, item, U, n), NEW k \in 1..n
  PROVE  IF item[k] \in U
           THEN item[k] \in Met(item, U, k) /\ Met(item, U, k) \ {item[k]} = Met(item, U, k - 1)
           ELSE Met(item, U, k) = Met(item, U, k - 1)
<1>1. {h \in 1..k : item[h] \in U} =
        {h \in 1..(k - 1) : item[h] \in U} \cup (IF item[k] \in U THEN {k} ELSE {})
  OBVIOUS
<1>2. \A h \in 1..(k - 1) : h \in 1..n /\ h # k
  OBVIOUS
<1>3. \A h \in 1..(k - 1) : item[h] # item[k]
  BY <1>2 DEF Weighs
<1> QED BY <1>1, <1>3 DEF Met

\* Rounded down, the running sum stays below the exact one.
LEMMA RunningBelow ==
  ASSUME NEW n \in Nat, NEW base \in Int, NEW step, NEW p, Running(p, n, Int, base, step),
         NEW item, NEW U, NEW w, Weighs(w, item, U, n), AddsAtMost(step, w, item, U, n)
  PROVE  /\ IsFiniteSet(Met(item, U, n))
         /\ \A x \in Met(item, U, n) : w[x] \in Int
         /\ p[n] <= base + Total(w, Met(item, U, n))
<1>1. PICK K : K = {k \in 0..n : p[k] <= base + Total(w, Met(item, U, k))}
  OBVIOUS
<1>2. ASSUME NEW k \in 0..n
      PROVE  /\ IsFiniteSet(Met(item, U, k)) /\ p[k] \in Int
             /\ \A x \in Met(item, U, k) : w[x] \in Int
             /\ Total(w, Met(item, U, k)) \in Int
  <2>1. IsFiniteSet(Met(item, U, k)) /\ \A x \in Met(item, U, k) : w[x] \in Int
    BY MetFinite
  <2>2. Total(w, Met(item, U, k)) \in Int
    BY <2>1, TotalType
  <2> QED BY <2>1, <2>2 DEF Running
<1>3. 0 \in K
  <2>1. Met(item, U, 0) = {} /\ 0 \in 0..n
    BY DEF Met
  <2>2. Total(w, Met(item, U, 0)) = 0
    BY <1>2, <2>1, TotalType
  <2> QED BY <1>1, <2>1, <2>2 DEF Running
<1>4. ASSUME NEW k \in 1..n, k - 1 \in K
      PROVE  k \in K
  <2>1. k \in 0..n /\ k - 1 \in 0..n
    OBVIOUS
  <2>2. PICK a \in Int : a = Total(w, Met(item, U, k - 1))
    BY <1>2, <2>1
  <2>3. PICK b \in Int : b = p[k - 1]
    BY <1>2, <2>1
  <2>4. PICK e \in Int : e = p[k]
    BY <1>2, <2>1
  <2>5. b <= base + a
    BY <1>1, <1>4, <2>2, <2>3
  <2>6. e = step[k][b]
    BY <2>3, <2>4 DEF Running
  <2>7. e <= b + (IF item[k] \in U THEN w[item[k]] ELSE 0)
    BY <2>6 DEF AddsAtMost
  <2>8. CASE item[k] \in U
    <3>1. item[k] \in Met(item, U, k) /\ Met(item, U, k) \ {item[k]} = Met(item, U, k - 1)
      BY <2>1, <2>8, MetNext
    <3>2. Total(w, Met(item, U, k)) = w[item[k]] + a
      BY <1>2, <2>1, <2>2, <3>1, TotalRemove
    <3>3. PICK c \in Int : c = w[item[k]]
      BY <1>2, <2>1, <3>1
    <3>4. e <= base + (c + a)
      BY <2>5, <2>7, <2>8, <3>3
    <3> QED BY <1>1, <2>1, <2>4, <3>2, <3>3, <3>4
  <2>9. CASE item[k] \notin U
    <3>1. Met(item, U, k) = Met(item, U, k - 1)
      BY <2>1, <2>9, MetNext
    <3>2. e <= base + a
      BY <2>5, <2>7, <2>9
    <3> QED BY <1>1, <2>1, <2>2, <2>4, <3>1, <3>2
  <2> QED BY <2>8, <2>9
<1>5. \A k \in 0..n : k \in K
  BY <1>3, <1>4, UpTo
<1>6. n \in 0..n
  OBVIOUS
<1> QED BY <1>1, <1>2, <1>5, <1>6

\* Rounded up, it stays above.
LEMMA RunningAbove ==
  ASSUME NEW n \in Nat, NEW base \in Int, NEW step, NEW p, Running(p, n, Int, base, step),
         NEW item, NEW U, NEW w, Weighs(w, item, U, n), AddsAtLeast(step, w, item, U, n)
  PROVE  /\ IsFiniteSet(Met(item, U, n))
         /\ \A x \in Met(item, U, n) : w[x] \in Int
         /\ base + Total(w, Met(item, U, n)) <= p[n]
<1>1. PICK K : K = {k \in 0..n : base + Total(w, Met(item, U, k)) <= p[k]}
  OBVIOUS
<1>2. ASSUME NEW k \in 0..n
      PROVE  /\ IsFiniteSet(Met(item, U, k)) /\ p[k] \in Int
             /\ \A x \in Met(item, U, k) : w[x] \in Int
             /\ Total(w, Met(item, U, k)) \in Int
  <2>1. IsFiniteSet(Met(item, U, k)) /\ \A x \in Met(item, U, k) : w[x] \in Int
    BY MetFinite
  <2>2. Total(w, Met(item, U, k)) \in Int
    BY <2>1, TotalType
  <2> QED BY <2>1, <2>2 DEF Running
<1>3. 0 \in K
  <2>1. Met(item, U, 0) = {} /\ 0 \in 0..n
    BY DEF Met
  <2>2. Total(w, Met(item, U, 0)) = 0
    BY <1>2, <2>1, TotalType
  <2> QED BY <1>1, <2>1, <2>2 DEF Running
<1>4. ASSUME NEW k \in 1..n, k - 1 \in K
      PROVE  k \in K
  <2>1. k \in 0..n /\ k - 1 \in 0..n
    OBVIOUS
  <2>2. PICK a \in Int : a = Total(w, Met(item, U, k - 1))
    BY <1>2, <2>1
  <2>3. PICK b \in Int : b = p[k - 1]
    BY <1>2, <2>1
  <2>4. PICK e \in Int : e = p[k]
    BY <1>2, <2>1
  <2>5. base + a <= b
    BY <1>1, <1>4, <2>2, <2>3
  <2>6. e = step[k][b]
    BY <2>3, <2>4 DEF Running
  <2>7. b + (IF item[k] \in U THEN w[item[k]] ELSE 0) <= e
    BY <2>6 DEF AddsAtLeast
  <2>8. CASE item[k] \in U
    <3>1. item[k] \in Met(item, U, k) /\ Met(item, U, k) \ {item[k]} = Met(item, U, k - 1)
      BY <2>1, <2>8, MetNext
    <3>2. Total(w, Met(item, U, k)) = w[item[k]] + a
      BY <1>2, <2>1, <2>2, <3>1, TotalRemove
    <3>3. PICK c \in Int : c = w[item[k]]
      BY <1>2, <2>1, <3>1
    <3>4. base + (c + a) <= e
      BY <2>5, <2>7, <2>8, <3>3
    <3> QED BY <1>1, <2>1, <2>4, <3>2, <3>3, <3>4
  <2>9. CASE item[k] \notin U
    <3>1. Met(item, U, k) = Met(item, U, k - 1)
      BY <2>1, <2>9, MetNext
    <3>2. base + a <= e
      BY <2>5, <2>7, <2>9
    <3> QED BY <1>1, <2>1, <2>2, <2>4, <3>1, <3>2
  <2> QED BY <2>8, <2>9
<1>5. \A k \in 0..n : k \in K
  BY <1>3, <1>4, UpTo
<1>6. n \in 0..n
  OBVIOUS
<1> QED BY <1>1, <1>2, <1>5, <1>6

-----------------------------------------------------------------------------
(* Sequences of sequences joined into one.                                 *)

FlattenRun(h, seqs) ==
  h = [i \in 1..Len(seqs) |-> IF i = 1 THEN seqs[i] ELSE h[i - 1] \o seqs[i]]

Joins(h, A, seqs) ==
  /\ h[0] = << >> /\ h[Len(seqs)] = FlattenSeq(seqs)
  /\ \A n \in 0..Len(seqs) : h[n] \in Seq(A)
  /\ \A n \in 1..Len(seqs) : h[n] = h[n - 1] \o seqs[n]

\* FlattenSeq joins from the first sequence to the last.
LEMMA FlattenJoins ==
  ASSUME NEW A, NEW seqs \in Seq(Seq(A))
  PROVE  \E h : Joins(h, A, seqs)
<1>1. PICK N \in Nat : N = Len(seqs)
  OBVIOUS
<1>1a. \A n \in 1..N : seqs[n] \in Seq(A)
  BY <1>1
<1>2. PICK step : step = [n \in 1..N |-> [v \in Seq(A) |-> v \o seqs[n]]]
  OBVIOUS
<1>3. \A n \in 1..N, v \in Seq(A) : step[n][v] = v \o seqs[n]
  BY <1>2
<1>4. StepsInto(step, 1..N, Seq(A))
  <2> SUFFICES ASSUME NEW n \in 1..N, NEW v \in Seq(A)
               PROVE  step[n][v] \in Seq(A)
    BY DEF StepsInto
  <2>1. PICK x \in Seq(A) : x = seqs[n]
    BY <1>1a
  <2>2. v \o x \in Seq(A)
    OBVIOUS
  <2> QED BY <1>3, <2>1, <2>2
<1>5. PICK p \in [0..N -> Seq(A)] : Running(p, N, Seq(A), << >>, step)
  <2>1. << >> \in Seq(A)
    OBVIOUS
  <2> QED BY <1>4, <2>1, RunExists
<1>6. /\ p[0] = << >>
      /\ \A n \in 1..N : p[n] = p[n - 1] \o seqs[n] /\ p[n] \in Seq(A)
  <2> SUFFICES ASSUME NEW n \in 1..N
               PROVE  p[n] = p[n - 1] \o seqs[n] /\ p[n] \in Seq(A)
    BY <1>5 DEF Running
  <2>1. n \in 0..N /\ n - 1 \in 0..N
    OBVIOUS
  <2>2. p[n - 1] \in Seq(A) /\ p[n] \in Seq(A) /\ p[n] = step[n][p[n - 1]]
    BY <1>5, <2>1 DEF Running
  <2> QED BY <1>3, <2>2
<1>7. CASE N = 0
  <2>1. FlattenSeq(seqs) = seqs /\ seqs = << >>
    <3>1. Len(seqs) = 0
      BY <1>1, <1>7
    <3>2. seqs = << >>
      BY <3>1
    <3> QED BY <3>1, <3>2 DEF FlattenSeq
  <2>2. Joins(p, A, seqs)
    BY <1>1, <1>6, <1>7, <2>1 DEF Joins
  <2> QED BY <2>2
<1>8. CASE N # 0
  <2>1. PICK q : q = [n \in 1..N |-> p[n]]
    OBVIOUS
  <2>2. ASSUME NEW n \in 1..N
        PROVE  q[n] = IF n = 1 THEN seqs[n] ELSE q[n - 1] \o seqs[n]
    <3>1. q[n] = p[n - 1] \o seqs[n]
      BY <1>6, <2>1
    <3>2. CASE n = 1
      <4>1. PICK x \in Seq(A) : x = seqs[n]
        BY <1>1a
      <4>2. << >> \o x = x
        OBVIOUS
      <4>3. n - 1 = 0
        BY <3>2
      <4>4. q[n] = << >> \o seqs[n]
        BY <1>6, <3>1, <4>3
      <4> QED BY <3>2, <4>1, <4>2, <4>4
    <3>3. CASE n # 1
      <4>1. n - 1 \in 1..N
        BY <3>3
      <4>2. q[n - 1] = p[n - 1]
        BY <2>1, <4>1
      <4> QED BY <3>1, <3>3, <4>2
    <3> QED BY <3>2, <3>3
  <2>3. FlattenRun(q, seqs)
    BY <1>1, <2>1, <2>2 DEF FlattenRun
  <2>4. PICK h : h = CHOOSE g : FlattenRun(g, seqs)
    OBVIOUS
  <2>5. FlattenRun(h, seqs)
    BY <2>3, <2>4
  <2>6. h[N] = FlattenSeq(seqs)
    BY <1>1, <1>8, <2>4 DEF FlattenSeq, FlattenRun
  <2>7. PICK K : K = {n \in 0..N : n = 0 \/ h[n] = p[n]}
    OBVIOUS
  <2>8. \A n \in 0..N : n \in K
    <3>1. 0 \in K
      BY <2>7
    <3>2. ASSUME NEW n \in 1..N, n - 1 \in K
          PROVE  n \in K
      <4>1. h[n] = IF n = 1 THEN seqs[n] ELSE h[n - 1] \o seqs[n]
        BY <1>1, <2>5 DEF FlattenRun
      <4>2. q[n] = IF n = 1 THEN seqs[n] ELSE q[n - 1] \o seqs[n]
        BY <2>2
      <4>3. q[n] = p[n] /\ (n # 1 => q[n - 1] = p[n - 1] /\ h[n - 1] = p[n - 1])
        <5>1. n # 1 => n - 1 \in 1..N /\ n - 1 # 0
          OBVIOUS
        <5> QED BY <2>1, <2>7, <3>2, <5>1
      <4>4. n \in 0..N
        OBVIOUS
      <4> QED BY <2>7, <4>1, <4>2, <4>3, <4>4
    <3> QED BY <3>1, <3>2, UpTo
  <2>9. p[N] = FlattenSeq(seqs)
    <3>1. N \in 0..N
      OBVIOUS
    <3> QED BY <1>8, <2>6, <2>7, <2>8, <3>1
  <2>10. \A n \in 0..N : p[n] \in Seq(A)
    BY <1>5
  <2>11. Joins(p, A, seqs)
    BY <1>1, <1>6, <2>9, <2>10 DEF Joins
  <2> QED BY <2>11
<1> QED BY <1>7, <1>8
=============================================================================
