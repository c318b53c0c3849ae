---------------------------- MODULE NumberLemmas ----------------------------
(***************************************************************************)
(* Least and greatest elements of sets of numbers: the newest and oldest   *)
(* rows of the audit log, the first unfinished sprint of a project.  And   *)
(* sums over finite sets: what a Space keeps in storage.                   *)
(***************************************************************************)
EXTENDS Integers, FiniteSetTheorems, WellFoundedInduction, TLAPS

\* A minimal number, for a relation that contains <, is a least one.
LEMMA MinimalIsLeast ==
  ASSUME NEW S, S \subseteq Nat, NEW R, \A x, y \in Nat : y < x => <<y, x>> \in R,
         \E x \in S : \A y \in S : ~(<<y, x>> \in R)
  PROVE  \E m \in S : \A n \in S : m <= n
<1>1. PICK x \in S : \A y \in S : ~(<<y, x>> \in R)
  OBVIOUS
<1>2. ASSUME NEW n \in S PROVE x <= n
  <2>1. x \in Nat /\ n \in Nat
    BY <1>1
  <2>2. ~(n < x)
    BY <1>1, <2>1, Zenon
  <2> QED BY <2>1, <2>2
<1> QED BY <1>1, <1>2

\* A non-empty set of numbers has a least one.
LEMMA LeastOf ==
  ASSUME NEW S, S \subseteq Nat, S # {}
  PROVE  \E m \in S : \A n \in S : m <= n
<1>1. \E x \in S : \A y \in S : ~(<<y, x>> \in OpToRel(<, Nat))
  BY NatLessThanWellFounded, WFMin
<1>2. \A x, y \in Nat : y < x => <<y, x>> \in OpToRel(<, Nat)
  <2> SUFFICES ASSUME NEW x \in Nat, NEW y \in Nat, y < x
               PROVE  <<y, x>> \in OpToRel(<, Nat)
    OBVIOUS
  <2> QED BY Zenon DEF OpToRel
<1> QED BY <1>1, <1>2, MinimalIsLeast

\* A non-empty bounded set of numbers has a greatest one.
LEMMA GreatestOf ==
  ASSUME NEW S, S \subseteq Nat, S # {}, NEW b \in Nat, \A n \in S : n <= b
  PROVE  \E m \in S : \A n \in S : n <= m
<1> DEFINE D == {d \in Nat : b - d \in S}
<1>1. D \subseteq Nat
  OBVIOUS
<1>2. D # {}
  <2>1. PICK n \in S : TRUE
    OBVIOUS
  <2>2. b - n \in Nat /\ b - (b - n) = n
    BY <2>1
  <2>3. b - n \in D
    BY <2>2
  <2> QED BY <2>3
<1>3. PICK d \in D : \A c \in D : d <= c
  <2> HIDE DEF D
  <2> QED BY <1>1, <1>2, LeastOf
<1>4. ASSUME NEW n \in S PROVE n <= b - d
  <2>1. b - n \in Nat /\ b - (b - n) = n
    OBVIOUS
  <2> QED BY <2>1, <1>3
<1> QED BY <1>3, <1>4

(***************************************************************************)
(* Sums over finite sets, as the folds of the community modules take them: *)
(* one element after the other, in an order that the set fixes.            *)
(***************************************************************************)
AnyOf(s) == CHOOSE x \in s : TRUE
SumOver(h, D, g) == g = [s \in D |-> IF s = {} THEN 0 ELSE h[AnyOf(s)] + g[s \ {AnyOf(s)}]]
\* What is g on the subsets of S adds up h.
Adds(h, S, g) == SumOver(h, SUBSET S, g)

\* A set of sets that shrinks without end is empty.
LEMMA SmallestSet ==
  ASSUME NEW S, IsFiniteSet(S), NEW B, B \subseteq SUBSET S, B # {}
  PROVE  \E s \in B : \A x \in s : s \ {x} \notin B
<1>1. \A s \in SUBSET S : IsFiniteSet(s) /\ Cardinality(s) \in Nat
  BY FS_Subset, FS_CardinalityType
<1>2. PICK N : N = {Cardinality(s) : s \in B}
  OBVIOUS
<1>3. N \subseteq Nat /\ N # {}
  BY <1>1, <1>2
<1>4. PICK n \in N : \A m \in N : n <= m
  BY <1>3, LeastOf
<1>5. PICK s \in B : Cardinality(s) = n
  BY <1>2
<1>6. ASSUME NEW x \in s PROVE s \ {x} \notin B
  <2>1. Cardinality(s \ {x}) = n - 1 /\ n \in Nat
    BY <1>1, <1>5, FS_RemoveElement
  <2>2. s \ {x} \in B => n <= n - 1
    BY <1>2, <1>4, <2>1
  <2> QED BY <2>1, <2>2
<1> QED BY <1>5, <1>6

\* There is such a sum.
LEMMA SumExists == ASSUME NEW S, IsFiniteSet(S), NEW h PROVE \E g : Adds(h, S, g)
<1> DEFINE D(n) == {s \in SUBSET S : Cardinality(s) <= n}
           Bad == {n \in Nat : ~\E g : SumOver(h, D(n), g)}
<1>1. \A s \in SUBSET S : IsFiniteSet(s) /\ Cardinality(s) \in Nat /\ (Cardinality(s) = 0 <=> s = {})
  BY FS_Subset, FS_CardinalityType, FS_EmptySet
<1>2. Bad = {}
  <2> SUFFICES ASSUME Bad # {} PROVE FALSE
    OBVIOUS
  <2>1. PICK n \in Bad : \A m \in Bad : n <= m
    <3>1. Bad \subseteq Nat
      OBVIOUS
    <3> HIDE DEF Bad
    <3> QED BY <3>1, LeastOf
  <2>2. CASE n = 0
    <3>1. PICK g : g = [s \in D(0) |-> 0]
      OBVIOUS
    <3>2. \A s \in D(0) : s = {}
      BY <1>1
    <3>3. SumOver(h, D(0), g)
      BY <3>1, <3>2 DEF SumOver
    <3> QED BY <2>1, <2>2, <3>3
  <2>3. CASE n # 0
    <3>1. n - 1 \in Nat /\ n - 1 \notin Bad
      <4>1. n \in Nat
        BY <2>1
      <4> HIDE DEF Bad
      <4>2. n - 1 \in Bad => n <= n - 1
        BY <2>1
      <4> QED BY <2>3, <4>1, <4>2
    <3>2. PICK f : SumOver(h, D(n - 1), f)
      BY <3>1
    <3>3. PICK g : g = [s \in D(n) |-> IF s = {} THEN 0 ELSE h[AnyOf(s)] + f[s \ {AnyOf(s)}]]
      OBVIOUS
    <3>4. \A s \in D(n) : s # {} => AnyOf(s) \in s /\ s \ {AnyOf(s)} \in D(n - 1)
      <4> SUFFICES ASSUME NEW s \in D(n), s # {} PROVE AnyOf(s) \in s /\ s \ {AnyOf(s)} \in D(n - 1)
        OBVIOUS
      <4>1. AnyOf(s) \in s
        BY DEF AnyOf
      <4>2. Cardinality(s \ {AnyOf(s)}) = Cardinality(s) - 1
        BY <1>1, <4>1, FS_RemoveElement
      <4> QED BY <1>1, <2>1, <4>1, <4>2
    <3>5. D(n - 1) \subseteq D(n)
      BY <1>1, <2>1
    <3>6. \A s \in D(n - 1) : g[s] = f[s]
      BY <3>2, <3>3, <3>5 DEF SumOver
    <3>7. SumOver(h, D(n), g)
      <4> HIDE DEF D
      <4>1. \A s \in D(n) : s # {} => f[s \ {AnyOf(s)}] = g[s \ {AnyOf(s)}]
        BY <3>4, <3>6
      <4> QED BY <3>3, <4>1 DEF SumOver
    <3> QED BY <2>1, <3>7
  <2> QED BY <2>2, <2>3
<1>3. Cardinality(S) \in Nat /\ D(Cardinality(S)) = SUBSET S
  BY FS_Subset, FS_CardinalityType
<1>4. Cardinality(S) \notin Bad
  BY <1>2
<1> QED BY <1>3, <1>4 DEF Adds

LEMMA SumRule ==
  ASSUME NEW S, NEW h, NEW g, Adds(h, S, g)
  PROVE  /\ g[{}] = 0
         /\ \A s \in SUBSET S : s # {} => /\ AnyOf(s) \in s /\ s \ {AnyOf(s)} \in SUBSET S
                                          /\ g[s] = h[AnyOf(s)] + g[s \ {AnyOf(s)}]
BY DEF Adds, SumOver, AnyOf

LEMMA SumTyped ==
  ASSUME NEW S, IsFiniteSet(S), NEW h, \A x \in S : h[x] \in Nat, NEW g, Adds(h, S, g)
  PROVE  \A s \in SUBSET S : g[s] \in Nat
<1> DEFINE Bad == {s \in SUBSET S : g[s] \notin Nat}
<1> SUFFICES ASSUME Bad # {} PROVE FALSE
  OBVIOUS
<1>1. PICK s \in Bad : \A x \in s : s \ {x} \notin Bad
  <2>1. Bad \subseteq SUBSET S
    OBVIOUS
  <2> HIDE DEF Bad
  <2> QED BY <2>1, SmallestSet
<1>2. s \in SUBSET S /\ s # {}
  BY <1>1, SumRule
<1>3. AnyOf(s) \in S /\ g[s] = h[AnyOf(s)] + g[s \ {AnyOf(s)}] /\ g[s \ {AnyOf(s)}] \in Nat
  BY <1>1, <1>2, SumRule
<1> QED BY <1>1, <1>3

\* Any element may be taken out first.
LEMMA SumWithout ==
  ASSUME NEW S, IsFiniteSet(S), NEW h, \A x \in S : h[x] \in Nat, NEW g, Adds(h, S, g),
         NEW t \in SUBSET S, NEW z \in t
  PROVE  g[t] = h[z] + g[t \ {z}]
<1> DEFINE Bad == {s \in SUBSET S : \E x \in s : g[s] # h[x] + g[s \ {x}]}
<1> SUFFICES ASSUME Bad # {} PROVE FALSE
  <2>1. t \in Bad \/ g[t] = h[z] + g[t \ {z}]
    OBVIOUS
  <2> QED BY <2>1
<1>1. PICK s \in Bad : \A x \in s : s \ {x} \notin Bad
  <2>1. Bad \subseteq SUBSET S
    OBVIOUS
  <2> HIDE DEF Bad
  <2> QED BY <2>1, SmallestSet
<1>2. PICK x \in s : g[s] # h[x] + g[s \ {x}]
  BY <1>1
<1>3. PICK y : y = AnyOf(s)
  OBVIOUS
<1>4. y \in s /\ g[s] = h[y] + g[s \ {y}] /\ x # y
  <2>1. s \in SUBSET S /\ s # {}
    BY <1>1
  <2>2. y \in s /\ g[s] = h[y] + g[s \ {y}]
    BY <1>3, <2>1, SumRule
  <2> QED BY <1>2, <2>2
<1>5. g[s \ {y}] = h[x] + g[(s \ {y}) \ {x}]
  <2>1. s \ {y} \notin Bad /\ x \in s \ {y}
    BY <1>1, <1>4
  <2> QED BY <2>1
<1>6. g[s \ {x}] = h[y] + g[(s \ {x}) \ {y}]
  <2>1. s \ {x} \notin Bad /\ y \in s \ {x}
    BY <1>1, <1>4
  <2> QED BY <2>1
<1>7. (s \ {x}) \ {y} = (s \ {y}) \ {x}
  OBVIOUS
<1>8. g[(s \ {x}) \ {y}] \in Nat /\ h[x] \in Nat /\ h[y] \in Nat
  BY <1>4, SumTyped
<1>9. PICK a, b, c, d, m, n :
        /\ a = h[x] /\ b = h[y] /\ c = g[(s \ {x}) \ {y}] /\ d = g[s] /\ m = g[s \ {x}] /\ n = g[s \ {y}]
  OBVIOUS
<1>10. a \in Nat /\ b \in Nat /\ c \in Nat /\ d = b + n /\ n = a + c /\ m = b + c
  BY <1>4, <1>5, <1>6, <1>7, <1>8, <1>9
<1>11. d # a + m
  BY <1>2, <1>9
<1> HIDE DEF Bad
<1> QED BY <1>10, <1>11

\* A smaller set does not add up to more.
LEMMA SumGrows ==
  ASSUME NEW S, IsFiniteSet(S), NEW h, \A x \in S : h[x] \in Nat, NEW g, Adds(h, S, g),
         NEW r \in SUBSET S, NEW t \in SUBSET r
  PROVE  g[t] <= g[r]
<1> DEFINE Bad == {s \in SUBSET S : t \subseteq s /\ ~(g[t] <= g[s])}
<1> SUFFICES ASSUME Bad # {} PROVE FALSE
  OBVIOUS
<1>1. PICK s \in Bad : \A x \in s : s \ {x} \notin Bad
  <2>1. Bad \subseteq SUBSET S
    OBVIOUS
  <2> HIDE DEF Bad
  <2> QED BY <2>1, SmallestSet
<1>2. g[t] \in Nat /\ \A u \in SUBSET S : g[u] \in Nat
  BY SumTyped
<1>3. PICK x \in s : x \notin t
  <2>1. s # t
    BY <1>1, <1>2
  <2> QED BY <1>1, <2>1
<1>4. g[s] = h[x] + g[s \ {x}] /\ h[x] \in Nat
  BY <1>1, <1>3, SumWithout
<1>5. s \ {x} \in SUBSET S /\ t \subseteq s \ {x} /\ s \ {x} \notin Bad
  BY <1>1, <1>3
<1>6. g[t] <= g[s \ {x}]
  BY <1>5
<1> QED BY <1>1, <1>2, <1>4, <1>5, <1>6

\* Only the elements of a set count.
LEMMA SumSame ==
  ASSUME NEW S, IsFiniteSet(S), NEW T, NEW h, NEW k, NEW f, NEW g, Adds(h, S, f), Adds(k, T, g),
         S \subseteq T, \A x \in S : h[x] = k[x]
  PROVE  f[S] = g[S]
<1> DEFINE Bad == {s \in SUBSET S : f[s] # g[s]}
<1> SUFFICES ASSUME Bad # {} PROVE FALSE
  <2>1. S \in Bad \/ f[S] = g[S]
    OBVIOUS
  <2> QED BY <2>1
<1>1. PICK s \in Bad : \A x \in s : s \ {x} \notin Bad
  <2>1. Bad \subseteq SUBSET S
    OBVIOUS
  <2> HIDE DEF Bad
  <2> QED BY <2>1, SmallestSet
<1>2. s \in SUBSET S /\ s \in SUBSET T /\ s # {}
  <2>1. f[{}] = 0 /\ g[{}] = 0
    BY SumRule
  <2>2. s \in SUBSET S /\ f[s] # g[s]
    BY <1>1
  <2> QED BY <2>1, <2>2
<1>3. /\ AnyOf(s) \in s /\ f[s] = h[AnyOf(s)] + f[s \ {AnyOf(s)}]
      /\ g[s] = k[AnyOf(s)] + g[s \ {AnyOf(s)}]
  <2> HIDE DEF Bad
  <2>1. AnyOf(s) \in s /\ f[s] = h[AnyOf(s)] + f[s \ {AnyOf(s)}]
    BY <1>2, SumRule
  <2>2. \A u \in SUBSET T : u # {} => g[u] = k[AnyOf(u)] + g[u \ {AnyOf(u)}]
    BY DEF Adds, SumOver
  <2> QED BY <1>2, <2>1, <2>2
<1>4. f[s \ {AnyOf(s)}] = g[s \ {AnyOf(s)}]
  BY <1>1, <1>2, <1>3
<1> QED BY <1>1, <1>2, <1>3, <1>4

\* Two sets add up to no more together than each on its own.
LEMMA SumUnion ==
  ASSUME NEW S, IsFiniteSet(S), NEW h, \A x \in S : h[x] \in Nat, NEW g, Adds(h, S, g),
         NEW r \in SUBSET S, NEW t \in SUBSET S
  PROVE  g[r \cup t] <= g[r] + g[t]
<1> DEFINE Bad == {s \in SUBSET S : ~(g[r \cup s] <= g[r] + g[s])}
<1> SUFFICES ASSUME Bad # {} PROVE FALSE
  OBVIOUS
<1>1. PICK s \in Bad : \A x \in s : s \ {x} \notin Bad
  <2>1. Bad \subseteq SUBSET S
    OBVIOUS
  <2> HIDE DEF Bad
  <2> QED BY <2>1, SmallestSet
<1>2. \A u \in SUBSET S : g[u] \in Nat
  BY SumTyped
<1>3. s # {}
  <2>1. g[r \cup {}] <= g[r] + g[{}]
    <3>1. r \cup {} = r /\ g[{}] = 0
      BY SumRule
    <3> QED BY <1>2, <3>1
  <2> QED BY <1>1, <2>1
<1>4. PICK x \in s : TRUE
  BY <1>3
<1>5. PICK u, v : u = r \cup s /\ v = r \cup (s \ {x})
  OBVIOUS
<1>6. u \in SUBSET S /\ v \in SUBSET S /\ s \in SUBSET S /\ s \ {x} \in SUBSET S /\ x \in u
  BY <1>1, <1>4, <1>5
<1>7. g[v] <= g[r] + g[s \ {x}]
  BY <1>1, <1>4, <1>5
<1>8. g[s] = h[x] + g[s \ {x}] /\ h[x] \in Nat
  BY <1>4, <1>6, SumWithout
<1>9. g[u] <= h[x] + g[v]
  <2>1. CASE x \in v
    <3>1. u = v
      BY <1>4, <1>5, <2>1
    <3>2. g[v] \in Nat /\ h[x] \in Nat
      BY <1>2, <1>6, <1>8
    <3> QED BY <3>1, <3>2
  <2>2. CASE x \notin v
    <3>1. u \ {x} = v
      BY <1>4, <1>5, <2>2
    <3>2. g[u] = h[x] + g[u \ {x}]
      BY <1>6, SumWithout
    <3>3. PICK a, b, c : a = g[u] /\ b = h[x] /\ c = g[v]
      OBVIOUS
    <3>4. b \in Nat /\ c \in Nat /\ a = b + c
      BY <1>2, <1>6, <1>8, <3>1, <3>2, <3>3
    <3>5. a <= b + c
      BY <3>4
    <3> QED BY <3>3, <3>5
  <2> QED BY <2>1, <2>2
<1>10. g[u] <= g[r] + g[s]
  BY <1>2, <1>6, <1>7, <1>8, <1>9
<1> QED BY <1>1, <1>5, <1>10

\* What each element leads to adds up to no more than what it is worth.
LEMMA SumImage ==
  ASSUME NEW S, IsFiniteSet(S), NEW T, IsFiniteSet(T), NEW h, NEW k, NEW f, NEW g, Adds(h, S, f), Adds(k, T, g),
         NEW e \in [S -> T], \A x \in S : h[x] = k[e[x]], \A y \in T : k[y] \in Nat
  PROVE  g[{e[x] : x \in S}] <= f[S]
<1> DEFINE Bad == {s \in SUBSET S : ~(g[{e[x] : x \in s}] <= f[s])}
<1> SUFFICES ASSUME Bad # {} PROVE FALSE
  <2>1. S \in Bad \/ g[{e[x] : x \in S}] <= f[S]
    OBVIOUS
  <2> QED BY <2>1
<1>1. PICK s \in Bad : \A x \in s : s \ {x} \notin Bad
  <2>1. Bad \subseteq SUBSET S
    OBVIOUS
  <2> HIDE DEF Bad
  <2> QED BY <2>1, SmallestSet
<1>2. (\A u \in SUBSET T : g[u] \in Nat) /\ \A u \in SUBSET S : f[u] \in Nat
  <2>1. \A x \in S : h[x] \in Nat
    OBVIOUS
  <2> QED BY <2>1, SumTyped
<1>3. PICK x : x = AnyOf(s)
  OBVIOUS
<1>4. s # {}
  <2>1. g[{e[y] : y \in {}}] <= f[{}]
    <3>1. g[{}] = 0 /\ f[{}] = 0
      BY SumRule
    <3>2. {e[y] : y \in {}} = {}
      OBVIOUS
    <3> HIDE DEF Bad
    <3> QED BY <3>1, <3>2
  <2> QED BY <1>1, <2>1
<1>5. x \in s /\ x \in S /\ s \ {x} \in SUBSET S /\ f[s] = h[x] + f[s \ {x}]
  <2>1. s \in SUBSET S
    BY <1>1
  <2> HIDE DEF Bad
  <2>2. x \in s /\ f[s] = h[x] + f[s \ {x}]
    BY <1>3, <1>4, <2>1, SumRule
  <2> QED BY <2>1, <2>2
<1>6. PICK u, v : u = {e[y] : y \in s} /\ v = {e[y] : y \in s \ {x}}
  OBVIOUS
<1>7. u \in SUBSET T /\ v \in SUBSET T /\ e[x] \in u /\ u = v \cup {e[x]}
  BY <1>1, <1>5, <1>6
<1>8. g[v] <= f[s \ {x}]
  BY <1>1, <1>5, <1>6
<1>9. g[u] <= k[e[x]] + g[v]
  <2>1. k[e[x]] \in Nat
    BY <1>5
  <2>2. CASE e[x] \in v
    <3>1. u = v
      BY <1>7, <2>2
    <3>2. g[v] \in Nat
      BY <1>2, <1>7
    <3> QED BY <2>1, <3>1, <3>2
  <2>3. CASE e[x] \notin v
    <3>1. u \ {e[x]} = v
      BY <1>7, <2>3
    <3>2. g[u] = k[e[x]] + g[u \ {e[x]}]
      BY <1>7, SumWithout
    <3>3. g[v] \in Nat
      BY <1>2, <1>7
    <3>4. PICK a, b, c : a = g[u] /\ b = k[e[x]] /\ c = g[v]
      OBVIOUS
    <3>5. b \in Nat /\ c \in Nat /\ a = b + c
      BY <2>1, <3>1, <3>2, <3>3, <3>4
    <3>6. a <= b + c
      BY <3>5
    <3> QED BY <3>4, <3>6
  <2> QED BY <2>2, <2>3
<1>10. h[x] = k[e[x]] /\ k[e[x]] \in Nat
  BY <1>5
<1>11. g[u] <= f[s]
  BY <1>2, <1>5, <1>7, <1>8, <1>9, <1>10
<1> QED BY <1>1, <1>6, <1>11
=============================================================================
