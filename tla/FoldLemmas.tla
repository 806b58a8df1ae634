------------------------------ MODULE FoldLemmas -------------------------------
(***************************************************************************)
(* Folds over finite sets, as the community modules define them by          *)
(* MapThenFoldSet: the recursive function behind a fold exists, and what is *)
(* kept from a set to the set with one element more holds of the fold.      *)
(* The rest is about the two folds of the specifications: the sum of a      *)
(* function's values (telemetry.py adds up calls) and sums of fractions     *)
(* (evals/metrics.py averages scores).                                      *)
(*                                                                         *)
(* Induction is stated of a set, never of a predicate, which the provers    *)
(* could not instantiate.                                                   *)
(***************************************************************************)
EXTENDS Integers, Functions, FiniteSets, FiniteSetTheorems, WellFoundedInduction, TLAPS

-----------------------------------------------------------------------------
(* Induction.                                                              *)

\* A set of numbers that is not empty has a least one.
LEMMA LeastNumber ==
    ASSUME NEW S, S \subseteq Nat, S # {}
    PROVE  \E m \in S : \A k \in S : m <= k
<1> DEFINE Lower == OpToRel(<, Nat)
<1>1. ASSUME NEW x \in Nat, NEW y \in Nat, x < y
      PROVE  <<x, y>> \in Lower
  BY <1>1 DEF OpToRel
<1>2. IsWellFoundedOn(Lower, Nat)
  BY NatLessThanWellFounded
<1>3. PICK m \in S : \A y \in S : ~(<<y, m>> \in Lower)
  BY <1>2, WFMin
<1> HIDE DEF Lower
<1>4. ASSUME NEW k \in S PROVE m <= k
  <2>1. m \in Nat /\ k \in Nat
    OBVIOUS
  <2>2. ~(k < m)
    BY <1>1, <1>3, <2>1
  <2> QED BY <2>1, <2>2
<1> QED BY <1>4

\* Induction, for a set of numbers.
LEMMA AllNumbers ==
    ASSUME NEW S, 0 \in S, \A n \in Nat : n \in S => n + 1 \in S
    PROVE  \A n \in Nat : n \in S
<1> DEFINE Others == Nat \ S
<1> SUFFICES ASSUME Others # {} PROVE FALSE
  OBVIOUS
<1>1. PICK m \in Others : \A k \in Others : m <= k
  <2>1. Others \subseteq Nat
    OBVIOUS
  <2> HIDE DEF Others
  <2> QED BY <2>1, LeastNumber
<1>2. m \in Nat /\ m # 0 /\ m - 1 \in Nat /\ m - 1 \notin Others
  <2>1. m \in Nat /\ m # 0 /\ m - 1 \in Nat /\ ~(m <= m - 1)
    BY <1>1
  <2> HIDE DEF Others
  <2> QED BY <1>1, <2>1
<1>3. m \in S
  <2>1. m - 1 \in S /\ (m - 1) + 1 = m
    BY <1>2
  <2> QED BY <1>2, <2>1
<1> QED BY <1>1, <1>3

\* One element less.
LEMMA Smaller ==
    ASSUME NEW s, IsFiniteSet(s), NEW x \in s
    PROVE  /\ IsFiniteSet(s \ {x}) /\ Cardinality(s) \in Nat \ {0}
           /\ Cardinality(s \ {x}) = Cardinality(s) - 1
<1>1. /\ IsFiniteSet(s \ {x}) /\ Cardinality(s \ {x}) = Cardinality(s) - 1
      /\ Cardinality(s) \in Nat /\ Cardinality(s \ {x}) \in Nat
  BY FS_RemoveElement, FS_CardinalityType
<1> QED BY <1>1

\* Induction, for the subsets of a finite set.
LEMMA AllSubsets ==
    ASSUME NEW S, IsFiniteSet(S), NEW T, {} \in T,
           \A s \in SUBSET S : s # {} /\ (\A x \in s : s \ {x} \in T) => s \in T
    PROVE  \A s \in SUBSET S : s \in T
<1> DEFINE Others == {s \in SUBSET S : s \notin T}
           Sizes == {Cardinality(s) : s \in Others}
<1> SUFFICES ASSUME Others # {} PROVE FALSE
  OBVIOUS
<1>1. \A s \in SUBSET S : IsFiniteSet(s) /\ Cardinality(s) \in Nat
  BY FS_Subset, FS_CardinalityType
<1>2. PICK m \in Sizes : \A k \in Sizes : m <= k
  <2>1. Sizes \subseteq Nat /\ Sizes # {}
    BY <1>1
  <2> HIDE DEF Sizes
  <2> QED BY <2>1, LeastNumber
<1>3. PICK s \in Others : m = Cardinality(s)
  OBVIOUS
<1>4. s \in SUBSET S /\ s \notin T /\ s # {}
  BY <1>3
<1>5. ASSUME NEW x \in s PROVE s \ {x} \in T
  <2>1. /\ Cardinality(s) \in Nat \ {0} /\ Cardinality(s \ {x}) = Cardinality(s) - 1
        /\ s \ {x} \in SUBSET S
    BY <1>1, <1>4, Smaller
  <2>2. ~(m <= Cardinality(s \ {x}))
    BY <1>3, <2>1
  <2>3. s \ {x} \notin Others
    BY <1>2, <2>2
  <2> QED BY <2>1, <2>3
<1> QED BY <1>4, <1>5

-----------------------------------------------------------------------------
(* The recursion of a fold over S that takes c[s] from s first.            *)

\* c takes an element from every subset of S that has one.
Takes(c, S) == \A s \in SUBSET S : s # {} => c[s] \in s

\* step[<<x, v>>] folds x into the value v of the others.
FoldsBy(g, S, c, base, step) ==
    g = [s \in SUBSET S |-> IF s = {} THEN base ELSE step[<<c[s], g[s \ {c[s]}]>>]]

LEMMA FoldExists ==
    ASSUME NEW S, IsFiniteSet(S), NEW c, Takes(c, S), NEW base, NEW step
    PROVE  \E g : FoldsBy(g, S, c, base, step)
<1> DEFINE Upto(n) == {s \in SUBSET S : Cardinality(s) <= n}
           Part(g, n) == g = [s \in Upto(n) |->
                                IF s = {} THEN base ELSE step[<<c[s], g[s \ {c[s]}]>>]]
           N == {n \in Nat : \E g : Part(g, n)}
<1>1. \A s \in SUBSET S : IsFiniteSet(s) /\ Cardinality(s) \in Nat
  BY FS_Subset, FS_CardinalityType
<1>2. ASSUME NEW n \in Nat, NEW s \in Upto(n + 1), s # {}
      PROVE  s \ {c[s]} \in Upto(n)
  <2>1. s \in SUBSET S /\ Cardinality(s) <= n + 1 /\ c[s] \in s
    BY <1>2 DEF Takes
  <2>2. IsFiniteSet(s)
    BY <1>1, <2>1
  <2>3. /\ Cardinality(s) \in Nat \ {0} /\ Cardinality(s \ {c[s]}) = Cardinality(s) - 1
        /\ s \ {c[s]} \in SUBSET S
    BY <2>1, <2>2, Smaller
  <2> QED BY <2>1, <2>3
<1>3. 0 \in N
  <2> DEFINE g == [s \in Upto(0) |-> base]
  <2>1. \A s \in Upto(0) : s = {}
    <3> SUFFICES ASSUME NEW s \in Upto(0), NEW x \in s PROVE FALSE
      OBVIOUS
    <3>1. IsFiniteSet(s) /\ Cardinality(s) <= 0
      BY <1>1
    <3>2. Cardinality(s) \in Nat \ {0}
      BY <3>1, Smaller
    <3> QED BY <3>1, <3>2
  <2>2. g = [s \in Upto(0) |-> IF s = {} THEN base ELSE step[<<c[s], g[s \ {c[s]}]>>]]
    BY <2>1
  <2>3. Part(g, 0)
    BY Zenon, <2>2
  <2> QED BY <2>3
<1>4. ASSUME NEW n \in Nat, n \in N PROVE n + 1 \in N
  <2>1. PICK g : Part(g, n)
    BY <1>4
  <2> DEFINE h == [s \in Upto(n + 1) |-> IF s = {} THEN base ELSE step[<<c[s], g[s \ {c[s]}]>>]]
  <2>2. \A s \in Upto(n) : s \in Upto(n + 1)
    BY <1>1
  <2>3. \A s \in Upto(n) : h[s] = g[s]
    BY <2>1, <2>2
  <2>4. \A s \in Upto(n + 1) : s # {} => h[s \ {c[s]}] = g[s \ {c[s]}]
    <3> HIDE DEF h, Upto
    <3> QED BY <1>2, <2>3
  <2>5. h = [s \in Upto(n + 1) |-> IF s = {} THEN base ELSE step[<<c[s], h[s \ {c[s]}]>>]]
    <3> HIDE DEF Upto
    <3> QED BY <2>4
  <2> HIDE DEF h, Upto
  <2>6. Part(h, n + 1)
    BY <2>5
  <2>7. n + 1 \in Nat
    OBVIOUS
  <2> HIDE DEF Part
  <2> QED BY Zenon, <2>6, <2>7
<1>5. Cardinality(S) \in N
  <2>1. Cardinality(S) \in Nat
    BY FS_CardinalityType
  <2> HIDE DEF N
  <2> QED BY <1>3, <1>4, <2>1, AllNumbers
<1>6. Upto(Cardinality(S)) = SUBSET S
  <2>1. \A s \in SUBSET S : Cardinality(s) <= Cardinality(S)
    BY FS_Subset
  <2> QED BY <2>1
<1>7. PICK g : Part(g, Cardinality(S))
  BY <1>5
<1>8. g = [s \in SUBSET S |-> IF s = {} THEN base ELSE step[<<c[s], g[s \ {c[s]}]>>]]
  BY Zenon, <1>6, <1>7
<1> QED BY Zenon, <1>8 DEF FoldsBy

\* A fold stays in a set that holds the base and is closed under the steps.
LEMMA FoldStays ==
    ASSUME NEW S, IsFiniteSet(S), NEW c, Takes(c, S), NEW base, NEW step,
           NEW V, base \in V, \A x \in S, v \in V : step[<<x, v>>] \in V,
           NEW g, FoldsBy(g, S, c, base, step)
    PROVE  \A s \in SUBSET S : g[s] \in V
<1> DEFINE T == {s \in SUBSET S : g[s] \in V}
<1>1. \A s \in SUBSET S : g[s] = IF s = {} THEN base ELSE step[<<c[s], g[s \ {c[s]}]>>]
  BY DEF FoldsBy
<1>2. {} \in T
  BY <1>1
<1>3. ASSUME NEW s \in SUBSET S, s # {}, \A x \in s : s \ {x} \in T PROVE s \in T
  <2>1. c[s] \in s /\ c[s] \in S /\ g[s] = step[<<c[s], g[s \ {c[s]}]>>]
    BY <1>1, <1>3 DEF Takes
  <2>2. g[s \ {c[s]}] \in V
    BY <1>3, <2>1
  <2> QED BY <2>1, <2>2
<1> HIDE DEF T
<1>4. \A s \in SUBSET S : s \in T
  BY <1>2, <1>3, AllSubsets
<1> QED BY <1>4 DEF T

-----------------------------------------------------------------------------
(* The sum of the values of f, as FoldFunction computes it.                *)

One(s) == CHOOSE x \in s : TRUE

\* g is the recursive sum of f over the subsets of S.
Sums(g, f, S) == g = [s \in SUBSET S |-> IF s = {} THEN 0 ELSE f[One(s)] + g[s \ {One(s)}]]

LEMMA SumAt ==
    ASSUME NEW S, NEW f, NEW g, Sums(g, f, S), NEW s \in SUBSET S
    PROVE  /\ s = {} => g[s] = 0
           /\ s # {} => /\ One(s) \in s /\ s \ {One(s)} \in SUBSET S
                        /\ g[s] = f[One(s)] + g[s \ {One(s)}]
<1>1. g[s] = IF s = {} THEN 0 ELSE f[One(s)] + g[s \ {One(s)}]
  BY DEF Sums
<1>2. s # {} => One(s) \in s
  BY DEF One
<1> QED BY <1>1, <1>2

LEMMA SumEmpty ==
    ASSUME NEW S, NEW f, NEW g, Sums(g, f, S)
    PROVE  g[{}] = 0
<1>1. {} \in SUBSET S
  OBVIOUS
<1> QED BY Zenon, <1>1, SumAt

\* The sum of the values of f.
Total(f) == FoldFunction(+, 0, f)

LEMMA TotalIsSum ==
    ASSUME NEW f, IsFiniteSet(DOMAIN f), \A x \in DOMAIN f : f[x] \in Nat
    PROVE  \E g : Sums(g, f, DOMAIN f) /\ Total(f) = g[DOMAIN f]
<1>1. PICK S : S = DOMAIN f
  OBVIOUS
<1> DEFINE c == [s \in SUBSET S |-> One(s)]
           step == [p \in S \X Nat |-> f[p[1]] + p[2]]
<1>2. Takes(c, S)
  BY DEF Takes, One
<1>3. \A x \in S, v \in Nat : step[<<x, v>>] = f[x] + v /\ step[<<x, v>>] \in Nat
  BY <1>1
<1>4. \A s \in SUBSET S : c[s] = One(s)
  OBVIOUS
<1> HIDE DEF c, step
<1>5. PICK h : FoldsBy(h, S, c, 0, step)
  BY <1>1, <1>2, FoldExists
<1>6. \A s \in SUBSET S : h[s] \in Nat
  <2>1. IsFiniteSet(S) /\ 0 \in Nat /\ \A x \in S, v \in Nat : step[<<x, v>>] \in Nat
    BY <1>1, <1>3
  <2> QED BY <1>2, <1>5, <2>1, FoldStays
<1>7. h = [s \in SUBSET S |-> IF s = {} THEN 0 ELSE f[One(s)] + h[s \ {One(s)}]]
  <2>1. h = [s \in SUBSET S |-> IF s = {} THEN 0 ELSE step[<<c[s], h[s \ {c[s]}]>>]]
    BY <1>5 DEF FoldsBy
  <2>2. \A s \in SUBSET S : s # {} => step[<<c[s], h[s \ {c[s]}]>>] = f[One(s)] + h[s \ {One(s)}]
    <3> SUFFICES ASSUME NEW s \in SUBSET S, s # {}
                 PROVE  step[<<c[s], h[s \ {c[s]}]>>] = f[One(s)] + h[s \ {One(s)}]
      OBVIOUS
    <3>1. c[s] \in S /\ c[s] = One(s) /\ s \ {c[s]} \in SUBSET S
      BY <1>2, <1>4 DEF Takes
    <3> QED BY <1>3, <1>6, <3>1
  <2> QED BY <2>1, <2>2
<1>8. Sums(h, f, DOMAIN f)
  BY <1>1, <1>7 DEF Sums
<1> DEFINE g == CHOOSE k : Sums(k, f, DOMAIN f)
<1>9. Sums(g, f, DOMAIN f)
  BY <1>8
<1>10. g = CHOOSE k : k = [s \in SUBSET DOMAIN f |->
                             IF s = {} THEN 0
                             ELSE f[CHOOSE x \in s : TRUE] + k[s \ {CHOOSE x \in s : TRUE}]]
  BY Zenon DEF Sums, One
<1> HIDE DEF g
<1>11. Total(f) = g[DOMAIN f]
  BY Zenon, <1>10 DEF Total, FoldFunction, FoldFunctionOnSet, MapThenFoldSet
<1> QED BY <1>9, <1>11

LEMMA SumNothing ==
    ASSUME NEW f, DOMAIN f = {}
    PROVE  Total(f) = 0
<1>1. IsFiniteSet(DOMAIN f)
  BY FS_EmptySet
<1>2. PICK g : Sums(g, f, DOMAIN f) /\ Total(f) = g[DOMAIN f]
  BY <1>1, TotalIsSum
<1>3. g[DOMAIN f] = 0
  <2>1. DOMAIN f \in SUBSET DOMAIN f
    OBVIOUS
  <2> QED BY <1>2, <2>1, SumAt
<1> QED BY <1>2, <1>3

\* The same, of natural numbers.
NatSums(g, f, S) == IsFiniteSet(S) /\ (\A x \in S : f[x] \in Nat) /\ Sums(g, f, S)

\* A sum does not depend on the order in which its elements are chosen.
LEMMA SumRemove ==
    ASSUME NEW S, NEW f, NEW g, NatSums(g, f, S)
    PROVE  \A s \in SUBSET S :
              g[s] \in Nat /\ \A x \in s : g[s] = f[x] + g[s \ {x}]
<1>0. IsFiniteSet(S) /\ (\A x \in S : f[x] \in Nat) /\ Sums(g, f, S)
  BY DEF NatSums
<1>1. \A s \in SUBSET S : g[s] \in Nat
  <2> DEFINE T == {s \in SUBSET S : g[s] \in Nat}
  <2>1. {} \in T
    BY <1>0, SumEmpty
  <2>2. ASSUME NEW s \in SUBSET S, s # {}, \A x \in s : s \ {x} \in T PROVE s \in T
    <3>1. One(s) \in s /\ g[s] = f[One(s)] + g[s \ {One(s)}]
      BY <1>0, <2>2, SumAt
    <3>2. f[One(s)] \in Nat /\ g[s \ {One(s)}] \in Nat
      BY <1>0, <2>2, <3>1
    <3> QED BY <3>1, <3>2
  <2> HIDE DEF T
  <2>3. \A s \in SUBSET S : s \in T
    BY <1>0, <2>1, <2>2, AllSubsets
  <2> QED BY <2>3 DEF T
<1>2. \A s \in SUBSET S : \A x \in s : g[s] = f[x] + g[s \ {x}]
  <2> DEFINE T == {s \in SUBSET S : \A x \in s : g[s] = f[x] + g[s \ {x}]}
  <2>1. {} \in T
    OBVIOUS
  <2>2. ASSUME NEW s \in SUBSET S, s # {}, \A x \in s : s \ {x} \in T PROVE s \in T
    <3> DEFINE y == One(s)
    <3>1. y \in s /\ g[s] = f[y] + g[s \ {y}]
      BY <1>0, <2>2, SumAt
    <3> HIDE DEF y
    <3>2. ASSUME NEW x \in s, x # y PROVE g[s] = f[x] + g[s \ {x}]
      <4> DEFINE r == s \ {x, y}
      <4>1. r \in SUBSET S /\ (s \ {x}) \ {y} = r /\ (s \ {y}) \ {x} = r
        OBVIOUS
      <4>2. g[s \ {y}] = f[x] + g[r] /\ g[s \ {x}] = f[y] + g[r]
        <5>1. y \in s \ {x} /\ x \in s \ {y}
          BY <3>1, <3>2
        <5>2. s \ {x} \in T /\ s \ {y} \in T
          BY <2>2, <3>1
        <5> QED BY <4>1, <5>1, <5>2
      <4> HIDE DEF r
      <4>3. f[x] \in Nat /\ f[y] \in Nat /\ g[r] \in Nat
        BY <1>0, <1>1, <3>1, <4>1
      <4> QED BY <3>1, <4>2, <4>3
    <3> QED BY <3>1, <3>2
  <2> HIDE DEF T
  <2>3. \A s \in SUBSET S : s \in T
    BY <1>0, <2>1, <2>2, AllSubsets
  <2> QED BY <2>3 DEF T
<1> QED BY <1>1, <1>2

\* A sum depends on the values it adds up only.
LEMMA SumSame ==
    ASSUME NEW S, NEW f, NEW g, Sums(g, f, S),
           NEW D, NEW e, NEW h, Sums(h, e, D),
           NEW R, IsFiniteSet(R), R \subseteq S, R \subseteq D,
           \A x \in R : e[x] = f[x]
    PROVE  g[R] = h[R]
<1> DEFINE T == {s \in SUBSET R : g[s] = h[s]}
<1>1. {} \in T
  <2>1. g[{}] = 0 /\ h[{}] = 0
    BY Zenon, SumEmpty
  <2> QED BY <2>1
<1>2. ASSUME NEW s \in SUBSET R, s # {}, \A x \in s : s \ {x} \in T PROVE s \in T
  <2>1. s \in SUBSET S /\ s \in SUBSET D
    OBVIOUS
  <2>2. /\ One(s) \in s /\ g[s] = f[One(s)] + g[s \ {One(s)}]
        /\ h[s] = e[One(s)] + h[s \ {One(s)}]
    BY <1>2, <2>1, SumAt
  <2>3. e[One(s)] = f[One(s)] /\ g[s \ {One(s)}] = h[s \ {One(s)}]
    BY <1>2, <2>2
  <2> QED BY <2>2, <2>3
<1> HIDE DEF T
<1>3. \A s \in SUBSET R : s \in T
  BY <1>1, <1>2, AllSubsets
<1>4. R \in T
  BY <1>3
<1> QED BY <1>4 DEF T

\* One more at m, which may be new: the two sums.
LEMMA SumStep ==
    ASSUME NEW S, NEW f, NEW g, NatSums(g, f, S),
           NEW m, NEW D, D = S \cup {m},
           NEW e, \A x \in S \ {m} : e[x] = f[x],
           e[m] = (IF m \in S THEN f[m] ELSE 0) + 1,
           NEW h, Sums(h, e, D)
    PROVE  g[S] \in Nat /\ h[D] = g[S] + 1
<1>0. IsFiniteSet(S) /\ (\A x \in S : f[x] \in Nat) /\ Sums(g, f, S)
  BY DEF NatSums
<1>1. IsFiniteSet(D) /\ IsFiniteSet(S \ {m})
  BY <1>0, FS_AddElement, FS_Subset
<1>2. NatSums(h, e, D)
  BY <1>0, <1>1 DEF NatSums
<1>3. PICK R : R = S \ {m}
  OBVIOUS
<1>4. /\ R \in SUBSET S /\ R \in SUBSET D /\ S \in SUBSET S /\ D \in SUBSET D
      /\ D \ {m} = R /\ m \in D /\ (m \notin S => R = S)
  BY <1>3
<1>5. h[D] = e[m] + h[R] /\ h[R] \in Nat
  <2>1. \A s \in SUBSET D : h[s] \in Nat /\ \A x \in s : h[s] = e[x] + h[s \ {x}]
    BY <1>2, SumRemove
  <2>2. h[R] \in Nat /\ h[D] = e[m] + h[D \ {m}]
    BY <1>4, <2>1
  <2> QED BY <1>4, <2>2
<1>6. /\ g[S] \in Nat /\ g[R] \in Nat
      /\ m \in S => g[S] = f[m] + g[R]
  <2>1. \A s \in SUBSET S : g[s] \in Nat /\ \A x \in s : g[s] = f[x] + g[s \ {x}]
    BY SumRemove
  <2>2. g[S] \in Nat /\ g[R] \in Nat /\ (m \in S => g[S] = f[m] + g[S \ {m}])
    BY <1>4, <2>1
  <2> QED BY <1>3, <2>2
<1>7. g[R] = h[R]
  <2>1. /\ IsFiniteSet(R) /\ R \subseteq S /\ R \subseteq D
        /\ \A x \in R : e[x] = f[x]
    BY <1>1, <1>3, <1>4
  <2> QED BY <1>0, <2>1, SumSame
<1>8. CASE m \in S
  <2>1. e[m] = f[m] + 1 /\ f[m] \in Nat
    BY <1>0, <1>8
  <2> QED BY <1>5, <1>6, <1>7, <1>8, <2>1
<1>9. CASE m \notin S
  <2>1. e[m] = 1 /\ R = S
    BY <1>4, <1>9
  <2> QED BY <1>5, <1>6, <1>7, <2>1
<1> QED BY <1>8, <1>9

\* One more at m, which may be new.
LEMMA SumOneMore ==
    ASSUME NEW f, IsFiniteSet(DOMAIN f), \A x \in DOMAIN f : f[x] \in Nat,
           NEW m, NEW e, DOMAIN e = DOMAIN f \cup {m},
           \A x \in DOMAIN f \ {m} : e[x] = f[x],
           e[m] = (IF m \in DOMAIN f THEN f[m] ELSE 0) + 1
    PROVE  /\ IsFiniteSet(DOMAIN e)
           /\ Total(e) = Total(f) + 1
<1>1. IsFiniteSet(DOMAIN e)
  BY FS_AddElement
<1>2. PICK g : Sums(g, f, DOMAIN f) /\ Total(f) = g[DOMAIN f]
  BY TotalIsSum
<1>3. PICK h : Sums(h, e, DOMAIN e) /\ Total(e) = h[DOMAIN e]
  BY <1>1, TotalIsSum
<1>4. NatSums(g, f, DOMAIN f)
  BY <1>2 DEF NatSums
<1>5. PICK S : S = DOMAIN f
  OBVIOUS
<1>6. PICK D : D = DOMAIN e
  OBVIOUS
<1>7. /\ NatSums(g, f, S) /\ Sums(h, e, D) /\ D = S \cup {m}
      /\ \A x \in S \ {m} : e[x] = f[x]
      /\ e[m] = (IF m \in S THEN f[m] ELSE 0) + 1
  BY <1>3, <1>4, <1>5, <1>6
<1>8. h[D] = g[S] + 1
  BY <1>7, SumStep
<1> QED BY <1>1, <1>2, <1>3, <1>5, <1>6, <1>8

-----------------------------------------------------------------------------
(* Sums of fractions <<n, d>>.                                             *)

Ratio == Nat \X Nat

\* The sum of two fractions, not reduced.
FractionPlus(x, y) == <<x[1] * y[2] + y[1] * x[2], x[2] * y[2]>>

\* g is the recursive sum of f over the subsets of S, which c takes apart.
FractionSums(g, f, S, c) ==
    g = [s \in SUBSET S |-> IF s = {} THEN <<0, 1>>
                            ELSE FractionPlus(f[c[s]], g[s \ {c[s]}])]

LEMMA FractionPlusType ==
    ASSUME NEW x \in Ratio, NEW y \in Ratio
    PROVE  /\ FractionPlus(x, y) \in Ratio
           /\ FractionPlus(x, y)[1] = y[1] * x[2] + x[1] * y[2]
           /\ FractionPlus(x, y)[2] = y[2] * x[2]
<1>1. x[1] \in Nat /\ x[2] \in Nat /\ y[1] \in Nat /\ y[2] \in Nat
  BY DEF Ratio
<1>2. /\ x[1] * y[2] + y[1] * x[2] \in Nat /\ x[2] * y[2] \in Nat
      /\ x[1] * y[2] + y[1] * x[2] = y[1] * x[2] + x[1] * y[2] /\ x[2] * y[2] = y[2] * x[2]
  BY <1>1
<1> QED BY <1>2 DEF FractionPlus, Ratio

LEMMA FractionSumsExist ==
    ASSUME NEW S, IsFiniteSet(S), NEW c, Takes(c, S), NEW f, \A x \in S : f[x] \in Ratio
    PROVE  \E g : FractionSums(g, f, S, c)
<1> DEFINE step == [p \in S \X Ratio |-> FractionPlus(f[p[1]], p[2])]
<1>1. \A x \in S, v \in Ratio : step[<<x, v>>] = FractionPlus(f[x], v)
  OBVIOUS
<1>2. <<0, 1>> \in Ratio /\ \A x \in S, v \in Ratio : step[<<x, v>>] \in Ratio
  BY <1>1, FractionPlusType DEF Ratio
<1> HIDE DEF step
<1>3. PICK g : FoldsBy(g, S, c, <<0, 1>>, step)
  BY FoldExists
<1>4. \A s \in SUBSET S : g[s] \in Ratio
  BY <1>2, <1>3, FoldStays
<1>5. g = [s \in SUBSET S |-> IF s = {} THEN <<0, 1>> ELSE step[<<c[s], g[s \ {c[s]}]>>]]
  BY <1>3 DEF FoldsBy
<1>6. ASSUME NEW s \in SUBSET S, s # {}
      PROVE  step[<<c[s], g[s \ {c[s]}]>>] = FractionPlus(f[c[s]], g[s \ {c[s]}])
  <2>1. c[s] \in S /\ s \ {c[s]} \in SUBSET S
    BY <1>6 DEF Takes
  <2> QED BY <1>1, <1>4, <2>1
<1>7. g = [s \in SUBSET S |-> IF s = {} THEN <<0, 1>>
                              ELSE FractionPlus(f[c[s]], g[s \ {c[s]}])]
  BY <1>5, <1>6
<1> QED BY <1>7 DEF FractionSums

\* The same, with all that it takes for it to be one.
SumsUp(g, f, S, c) ==
    /\ IsFiniteSet(S) /\ Takes(c, S) /\ \A x \in S : f[x] \in Ratio
    /\ FractionSums(g, f, S, c)

\* FoldFunction takes any element first; and its sum.
AnyFirst(S) == [s \in SUBSET S |-> One(s)]

LEMMA FractionTotalIsSum ==
    ASSUME NEW f, IsFiniteSet(DOMAIN f), \A x \in DOMAIN f : f[x] \in Ratio
    PROVE  \E g :
              /\ SumsUp(g, f, DOMAIN f, AnyFirst(DOMAIN f))
              /\ g = CHOOSE k : k = [s \in SUBSET DOMAIN f |->
                                      IF s = {} THEN <<0, 1>>
                                      ELSE FractionPlus(f[CHOOSE x \in s : TRUE],
                                                        k[s \ {CHOOSE x \in s : TRUE}])]
<1>1. PICK S : S = DOMAIN f
  OBVIOUS
<1> DEFINE c == AnyFirst(S)
<1>2. Takes(c, S)
  BY DEF Takes, One, AnyFirst
<1>3. \A s \in SUBSET S : c[s] = CHOOSE x \in s : TRUE
  BY DEF One, AnyFirst
<1> HIDE DEF c
<1>4. PICK h : FractionSums(h, f, S, c)
  BY <1>1, <1>2, FractionSumsExist
<1>5. ASSUME NEW k
      PROVE  FractionSums(k, f, S, c) <=>
                k = [s \in SUBSET S |-> IF s = {} THEN <<0, 1>>
                                        ELSE FractionPlus(f[CHOOSE x \in s : TRUE],
                                                          k[s \ {CHOOSE x \in s : TRUE}])]
  BY <1>3 DEF FractionSums
<1> DEFINE g == CHOOSE k : k = [s \in SUBSET S |->
                                  IF s = {} THEN <<0, 1>>
                                  ELSE FractionPlus(f[CHOOSE x \in s : TRUE],
                                                    k[s \ {CHOOSE x \in s : TRUE}])]
<1>6. FractionSums(g, f, S, c)
  <2>1. g = [s \in SUBSET S |-> IF s = {} THEN <<0, 1>>
                                ELSE FractionPlus(f[CHOOSE x \in s : TRUE],
                                                  g[s \ {CHOOSE x \in s : TRUE}])]
    <3>1. h = [s \in SUBSET S |-> IF s = {} THEN <<0, 1>>
                                  ELSE FractionPlus(f[CHOOSE x \in s : TRUE],
                                                    h[s \ {CHOOSE x \in s : TRUE}])]
      BY <1>4, <1>5
    <3> QED BY Zenon, <3>1
  <2> HIDE DEF g
  <2> QED BY Zenon, <1>5, <2>1
<1>7. g = CHOOSE k : k = [s \in SUBSET DOMAIN f |->
                            IF s = {} THEN <<0, 1>>
                            ELSE FractionPlus(f[CHOOSE x \in s : TRUE],
                                              k[s \ {CHOOSE x \in s : TRUE}])]
  BY Zenon, <1>1
<1> HIDE DEF g
<1>8. SumsUp(g, f, DOMAIN f, AnyFirst(DOMAIN f))
  BY <1>1, <1>2, <1>6 DEF SumsUp, c
<1> QED BY Zenon, <1>7, <1>8

\* The recursion, in numbers.
AddsUp(g, f, S, c) ==
    /\ g[{}] = <<0, 1>>
    /\ \A s \in SUBSET S :
          /\ g[s] \in Ratio
          /\ s # {} => /\ c[s] \in s
                       /\ g[s][1] = g[s \ {c[s]}][1] * f[c[s]][2]
                                       + f[c[s]][1] * g[s \ {c[s]}][2]
                       /\ g[s][2] = g[s \ {c[s]}][2] * f[c[s]][2]

LEMMA FractionSumAt ==
    ASSUME NEW S, NEW c, NEW f, NEW g, SumsUp(g, f, S, c)
    PROVE  AddsUp(g, f, S, c)
<1>0. /\ IsFiniteSet(S) /\ Takes(c, S) /\ \A x \in S : f[x] \in Ratio
      /\ FractionSums(g, f, S, c)
  BY DEF SumsUp
<1> DEFINE T == {s \in SUBSET S : g[s] \in Ratio}
<1>1. \A s \in SUBSET S : g[s] = IF s = {} THEN <<0, 1>>
                                 ELSE FractionPlus(f[c[s]], g[s \ {c[s]}])
  BY <1>0 DEF FractionSums
<1>2. g[{}] = <<0, 1>> /\ {} \in T
  <2>1. <<0, 1>> \in Ratio
    BY DEF Ratio
  <2>2. g[{}] = <<0, 1>>
    BY <1>1
  <2> QED BY <2>1, <2>2
<1>3. ASSUME NEW s \in SUBSET S, s # {}, \A x \in s : s \ {x} \in T PROVE s \in T
  <2>1. c[s] \in s /\ c[s] \in S /\ g[s] = FractionPlus(f[c[s]], g[s \ {c[s]}])
    BY <1>0, <1>1, <1>3 DEF Takes
  <2>2. g[s \ {c[s]}] \in Ratio
    BY <1>3, <2>1
  <2>3. f[c[s]] \in Ratio
    BY <1>0, <2>1
  <2>4. g[s] \in Ratio
    BY <2>1, <2>2, <2>3, FractionPlusType
  <2> QED BY <2>4
<1> HIDE DEF T
<1>4. \A s \in SUBSET S : s \in T
  BY <1>0, <1>2, <1>3, AllSubsets
<1>5. ASSUME NEW s \in SUBSET S, s # {}
      PROVE  /\ c[s] \in s
             /\ g[s][1] = g[s \ {c[s]}][1] * f[c[s]][2] + f[c[s]][1] * g[s \ {c[s]}][2]
             /\ g[s][2] = g[s \ {c[s]}][2] * f[c[s]][2]
  <2>1. c[s] \in s /\ c[s] \in S /\ s \ {c[s]} \in SUBSET S
    BY <1>0, <1>5 DEF Takes
  <2>2. g[s \ {c[s]}] \in Ratio /\ f[c[s]] \in Ratio
    BY <1>0, <1>4, <2>1 DEF T
  <2>3. g[s] = FractionPlus(f[c[s]], g[s \ {c[s]}])
    BY <1>1, <1>5
  <2> QED BY <2>1, <2>2, <2>3, FractionPlusType
<1> QED BY <1>2, <1>4, <1>5 DEF T, AddsUp

LEMMA Monotone ==
    ASSUME NEW a \in Nat, NEW b \in Nat, NEW c \in Nat
    PROVE  /\ c * a \in Nat
           /\ a <= b => c * a <= c * b
           /\ a < b => c * a + c <= c * b
<1>1. a < b => c * (a + 1) <= c * b
  OBVIOUS
<1> QED BY <1>1

\* One fraction more that is at most 1.
LEMMA OneMoreShare ==
    ASSUME NEW a \in Nat, NEW b \in Nat, NEW A \in Nat, NEW B \in Nat, NEW k \in Nat,
           a <= b, A <= k * B
    PROVE  /\ A * b + a * B <= (k + 1) * (B * b)
           /\ a = 0 => A * b + a * B <= k * (B * b)
           /\ b > 0 /\ B > 0 =>
                 (A * b + a * B = (k + 1) * (B * b) <=> a = b /\ A = k * B)
<1>1. PICK kB \in Nat : kB = k * B
  OBVIOUS
<1>2. /\ b * A \in Nat /\ b * kB \in Nat /\ B * a \in Nat /\ B * b \in Nat
      /\ b * A <= b * kB /\ (A < kB => b * A + b <= b * kB)
      /\ B * a <= B * b /\ (a < b => B * a + B <= B * b)
  BY <1>1, Monotone
<1>3. b * kB = k * (B * b) /\ (k + 1) * (B * b) = b * kB + B * b
  BY <1>1
<1>4. A * b = b * A /\ a * B = B * a /\ (a = 0 => B * a = 0)
  OBVIOUS
<1>5. PICK u \in Nat : u = b * A
  BY <1>2
<1>6. PICK v \in Nat : v = b * kB
  BY <1>2
<1>7. PICK w \in Nat : w = B * a
  BY <1>2
<1>8. PICK z \in Nat : z = B * b
  BY <1>2
<1>9. /\ A * b + a * B = u + w /\ (k + 1) * (B * b) = v + z /\ k * (B * b) = v
      /\ u <= v /\ (A < kB => u + b <= v) /\ w <= z /\ (a < b => w + B <= z)
      /\ (A = kB => u = v) /\ (a = b => w = z) /\ (a = 0 => w = 0)
  BY <1>2, <1>3, <1>4, <1>5, <1>6, <1>7, <1>8
<1>10. /\ u + w <= v + z
       /\ a = 0 => u + w <= v
       /\ b > 0 /\ B > 0 => (u + w = v + z <=> a = b /\ A = kB)
  <2>1. A <= kB
    BY <1>1
  <2> HIDE <1>1, <1>5, <1>6, <1>7, <1>8
  <2> QED BY <1>9, <2>1
<1> QED BY <1>1, <1>9, <1>10

\* One fraction more on both sides of a comparison.
LEMMA OneMoreCompared ==
    ASSUME NEW a \in Nat, NEW b \in Nat, NEW p \in Nat, NEW q \in Nat,
           NEW A \in Nat, NEW B \in Nat, NEW C \in Nat, NEW D \in Nat, NEW L \in Nat,
           a * q <= L * (p * b), A * D <= L * (C * B)
    PROVE  (A * b + a * B) * (D * q) <= L * ((C * q + p * D) * (B * b))
<1>1. PICK x \in Nat : x = A * D
  OBVIOUS
<1>2. PICK y \in Nat : y = L * (C * B)
  OBVIOUS
<1>3. PICK u \in Nat : u = a * q
  OBVIOUS
<1>4. PICK v \in Nat : v = L * (p * b)
  OBVIOUS
<1>5. PICK m \in Nat : m = b * q
  OBVIOUS
<1>6. PICK n \in Nat : n = B * D
  OBVIOUS
<1>7. m * x <= m * y /\ n * u <= n * v
  BY <1>1, <1>2, <1>3, <1>4, Monotone
<1>8. (A * b + a * B) * (D * q) = m * x + n * u
  BY <1>1, <1>3, <1>5, <1>6
<1>9. L * ((C * q + p * D) * (B * b)) = m * y + n * v
  BY <1>2, <1>4, <1>5, <1>6
<1>10. m * x \in Nat /\ m * y \in Nat /\ n * u \in Nat /\ n * v \in Nat
  OBVIOUS
<1> QED BY <1>7, <1>8, <1>9, <1>10

\* A sum of fractions of at most 1 is at most the number of those that are not 0;
\* and it is the number of all of them exactly when all are 1.
LEMMA SharesBound ==
    ASSUME NEW S, NEW c, NEW f, NEW g, SumsUp(g, f, S, c),
           \A x \in S : f[x][1] <= f[x][2],
           NEW M, \A x \in S : x \in M => f[x][1] = 0
    PROVE  /\ g[S] \in Ratio
           /\ g[S][1] <= Cardinality(S \ M) * g[S][2]
<1>0. AddsUp(g, f, S, c)
  BY FractionSumAt
<1>S. IsFiniteSet(S) /\ \A x \in S : f[x] \in Ratio
  BY DEF SumsUp
<1> USE DEF AddsUp
<1> DEFINE T == {s \in SUBSET S : g[s][1] <= Cardinality(s \ M) * g[s][2]}
<1>1. {} \in T
  <2>1. {} \ M = {} /\ Cardinality({}) = 0 /\ g[{}][1] = 0
    BY <1>0, FS_EmptySet
  <2> QED BY <1>0, <2>1
<1>2. ASSUME NEW s \in SUBSET S, s # {}, \A x \in s : s \ {x} \in T PROVE s \in T
  <2>1. PICK y \in s : y = c[s]
    BY <1>0, <1>2
  <2>2. PICK r \in SUBSET S : r = s \ {y}
    OBVIOUS
  <2>3. r \in T
    BY <1>2, <2>2
  <2>4. /\ g[s][1] = g[r][1] * f[y][2] + f[y][1] * g[r][2] /\ g[s][2] = g[r][2] * f[y][2]
        /\ g[r] \in Ratio /\ f[y] \in Ratio /\ f[y][1] <= f[y][2]
    BY <1>S, <1>0, <1>2, <2>1, <2>2
  <2>5. g[r][1] \in Nat /\ g[r][2] \in Nat /\ f[y][1] \in Nat /\ f[y][2] \in Nat
    BY <2>4 DEF Ratio
  <2>6. /\ IsFiniteSet(s \ M) /\ IsFiniteSet(r \ M)
        /\ Cardinality(r \ M) \in Nat
    BY <1>S, FS_Subset, FS_CardinalityType
  <2>7. g[r][1] <= Cardinality(r \ M) * g[r][2]
    BY <2>3
  <2>8. CASE y \in M
    <3>1. s \ M = r \ M /\ f[y][1] = 0
      BY <2>2, <2>8
    <3>2. g[r][1] * f[y][2] + f[y][1] * g[r][2] <= Cardinality(r \ M) * (g[r][2] * f[y][2])
      BY Zenon, <2>4, <2>5, <2>6, <2>7, <3>1, OneMoreShare
    <3> QED BY Zenon, <2>4, <3>1, <3>2
  <2>9. CASE y \notin M
    <3>1. y \in s \ M /\ r \ M = (s \ M) \ {y}
      BY <2>2, <2>9
    <3>2. Cardinality(s \ M) = Cardinality(r \ M) + 1
      <4>1. PICK R : R = s \ M
        OBVIOUS
      <4>2. IsFiniteSet(R) /\ y \in R /\ R \ {y} = r \ M
        BY <2>6, <3>1, <4>1
      <4>3. Cardinality(R) \in Nat \ {0} /\ Cardinality(R \ {y}) = Cardinality(R) - 1
        BY <4>2, Smaller
      <4>4. Cardinality(R) = Cardinality(R \ {y}) + 1
        BY <4>3
      <4> QED BY Zenon, <4>1, <4>2, <4>4
    <3>3. g[r][1] * f[y][2] + f[y][1] * g[r][2]
             <= (Cardinality(r \ M) + 1) * (g[r][2] * f[y][2])
      BY Zenon, <2>4, <2>5, <2>6, <2>7, OneMoreShare
    <3> QED BY Zenon, <2>4, <3>2, <3>3
  <2> QED BY <2>8, <2>9
<1> HIDE DEF T
<1>3. \A s \in SUBSET S : s \in T
  BY <1>S, <1>1, <1>2, AllSubsets
<1>4. S \in T /\ g[S] \in Ratio
  BY <1>0, <1>3
<1> QED BY <1>4 DEF T

LEMMA AllSharesFull ==
    ASSUME NEW S, NEW c, NEW f, NEW g, SumsUp(g, f, S, c),
           \A x \in S : f[x][1] <= f[x][2] /\ f[x][2] > 0
    PROVE  /\ g[S] \in Ratio /\ g[S][2] > 0
           /\ g[S][1] <= Cardinality(S) * g[S][2]
           /\ g[S][1] = Cardinality(S) * g[S][2] <=> \A x \in S : f[x][1] = f[x][2]
<1>0. AddsUp(g, f, S, c)
  BY FractionSumAt
<1>S. IsFiniteSet(S) /\ \A x \in S : f[x] \in Ratio
  BY DEF SumsUp
<1> USE DEF AddsUp
<1> DEFINE T == {s \in SUBSET S :
                   /\ g[s][2] > 0 /\ g[s][1] <= Cardinality(s) * g[s][2]
                   /\ g[s][1] = Cardinality(s) * g[s][2] <=> \A x \in s : f[x][1] = f[x][2]}
<1>1. {} \in T
  BY <1>0, FS_EmptySet
<1>2. ASSUME NEW s \in SUBSET S, s # {}, \A x \in s : s \ {x} \in T PROVE s \in T
  <2>1. PICK y \in s : y = c[s]
    BY <1>0, <1>2
  <2>2. PICK r \in SUBSET S : r = s \ {y}
    OBVIOUS
  <2>3. /\ g[r][2] > 0 /\ g[r][1] <= Cardinality(r) * g[r][2]
        /\ g[r][1] = Cardinality(r) * g[r][2] <=> \A x \in r : f[x][1] = f[x][2]
    BY <1>2, <2>2
  <2>4. /\ g[s][1] = g[r][1] * f[y][2] + f[y][1] * g[r][2] /\ g[s][2] = g[r][2] * f[y][2]
        /\ g[r] \in Ratio /\ f[y] \in Ratio /\ f[y][1] <= f[y][2] /\ f[y][2] > 0
    BY <1>S, <1>0, <1>2, <2>1, <2>2
  <2>5. g[r][1] \in Nat /\ g[r][2] \in Nat /\ f[y][1] \in Nat /\ f[y][2] \in Nat
    BY <2>4 DEF Ratio
  <2>6. Cardinality(r) \in Nat /\ Cardinality(s) = Cardinality(r) + 1
    <3>1. IsFiniteSet(s)
      BY <1>S, FS_Subset
    <3>2. Cardinality(s) \in Nat \ {0} /\ Cardinality(r) = Cardinality(s) - 1
      BY <2>2, <3>1, Smaller
    <3> QED BY <3>2
  <2>7. /\ g[r][1] * f[y][2] + f[y][1] * g[r][2]
             <= (Cardinality(r) + 1) * (g[r][2] * f[y][2])
        /\ g[r][1] * f[y][2] + f[y][1] * g[r][2]
             = (Cardinality(r) + 1) * (g[r][2] * f[y][2]) <=>
              f[y][1] = f[y][2] /\ g[r][1] = Cardinality(r) * g[r][2]
    <3>1. PICK k \in Nat : k = Cardinality(r)
      BY <2>6
    <3>2. PICK A \in Nat : A = g[r][1]
      BY <2>5
    <3>3. PICK B \in Nat : B = g[r][2]
      BY <2>5
    <3>4. PICK a \in Nat : a = f[y][1]
      BY <2>5
    <3>5. PICK b \in Nat : b = f[y][2]
      BY <2>5
    <3>6. a <= b /\ A <= k * B /\ b > 0 /\ B > 0
      BY Zenon, <2>3, <2>4, <3>1, <3>2, <3>3, <3>4, <3>5
    <3>7. /\ A * b + a * B <= (k + 1) * (B * b)
          /\ A * b + a * B = (k + 1) * (B * b) <=> a = b /\ A = k * B
      BY <3>6, OneMoreShare
    <3> QED BY Zenon, <3>1, <3>2, <3>3, <3>4, <3>5, <3>7
  <2>8. g[s][2] > 0
    <3>1. PICK u \in Nat : u = g[r][2]
      BY <2>5
    <3>2. PICK v \in Nat : v = f[y][2]
      BY <2>5
    <3>3. u > 0 /\ v > 0 /\ g[s][2] = u * v
      BY <2>3, <2>4, <3>1, <3>2
    <3>4. u * v > 0
      BY <3>3
    <3> QED BY <3>3, <3>4
  <2>9. (\A x \in s : f[x][1] = f[x][2]) <=>
            (f[y][1] = f[y][2] /\ \A x \in r : f[x][1] = f[x][2])
    BY <2>2
  <2>10. /\ g[s][1] <= Cardinality(s) * g[s][2]
         /\ g[s][1] = Cardinality(s) * g[s][2] <=> \A x \in s : f[x][1] = f[x][2]
    BY Zenon, <2>3, <2>4, <2>6, <2>7, <2>9
  <2> QED BY <2>8, <2>10
<1> HIDE DEF T
<1>3. \A s \in SUBSET S : s \in T
  BY <1>S, <1>1, <1>2, AllSubsets
<1>4. S \in T /\ g[S] \in Ratio
  BY <1>0, <1>3
<1> QED BY <1>4 DEF T

\* Sums compare as their fractions do, one by one, L times the second ones.
LEMMA SumsCompared ==
    ASSUME NEW S, NEW c, NEW f, NEW g, SumsUp(g, f, S, c), NEW e, NEW h, SumsUp(h, e, S, c),
           NEW L \in Nat, \A x \in S : f[x][1] * e[x][2] <= L * (e[x][1] * f[x][2])
    PROVE  /\ g[S] \in Ratio /\ h[S] \in Ratio
           /\ g[S][1] * h[S][2] <= L * (h[S][1] * g[S][2])
<1>0. AddsUp(g, f, S, c)
  BY FractionSumAt
<1>S. IsFiniteSet(S) /\ \A x \in S : f[x] \in Ratio
  BY DEF SumsUp
<1> USE DEF AddsUp
<1>1. AddsUp(h, e, S, c)
  BY FractionSumAt
<1> DEFINE T == {s \in SUBSET S : g[s][1] * h[s][2] <= L * (h[s][1] * g[s][2])}
<1>2. {} \in T
  <2>1. g[{}][1] = 0 /\ h[{}][2] = 1 /\ h[{}][1] = 0 /\ g[{}][2] = 1
    BY <1>0, <1>1
  <2> QED BY <2>1
<1>3. ASSUME NEW s \in SUBSET S, s # {}, \A x \in s : s \ {x} \in T PROVE s \in T
  <2>1. PICK y \in s : y = c[s]
    BY <1>0, <1>3
  <2>2. PICK r \in SUBSET S : r = s \ {y}
    OBVIOUS
  <2>3. g[r][1] * h[r][2] <= L * (h[r][1] * g[r][2])
    BY <1>3, <2>2
  <2>4. /\ g[s][1] = g[r][1] * f[y][2] + f[y][1] * g[r][2] /\ g[s][2] = g[r][2] * f[y][2]
        /\ h[s][1] = h[r][1] * e[y][2] + e[y][1] * h[r][2] /\ h[s][2] = h[r][2] * e[y][2]
        /\ g[r] \in Ratio /\ h[r] \in Ratio
    BY <1>0, <1>1, <1>3, <2>1, <2>2
  <2>5. /\ f[y] \in Ratio /\ e[y] \in Ratio
        /\ f[y][1] * e[y][2] <= L * (e[y][1] * f[y][2])
    BY <1>S DEF SumsUp
  <2>6. /\ g[r][1] \in Nat /\ g[r][2] \in Nat /\ f[y][1] \in Nat /\ f[y][2] \in Nat
        /\ h[r][1] \in Nat /\ h[r][2] \in Nat /\ e[y][1] \in Nat /\ e[y][2] \in Nat
    BY <2>4, <2>5 DEF Ratio
  <2>7. (g[r][1] * f[y][2] + f[y][1] * g[r][2]) * (h[r][2] * e[y][2])
           <= L * ((h[r][1] * e[y][2] + e[y][1] * h[r][2]) * (g[r][2] * f[y][2]))
    BY Zenon, <2>3, <2>5, <2>6, OneMoreCompared
  <2>8. g[s][1] * h[s][2] <= L * (h[s][1] * g[s][2])
    BY Zenon, <2>4, <2>7
  <2> QED BY <2>8
<1> HIDE DEF T
<1>4. \A s \in SUBSET S : s \in T
  BY <1>S, <1>2, <1>3, AllSubsets
<1>5. S \in T /\ g[S] \in Ratio /\ h[S] \in Ratio
  BY <1>0, <1>1, <1>4
<1> QED BY <1>5 DEF T
================================================================================
