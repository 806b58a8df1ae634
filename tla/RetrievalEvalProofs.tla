-------------------------- MODULE RetrievalEvalProofs --------------------------
(***************************************************************************)
(* Reciprocal Rank Fusion (RankFusion) inside the retrieval suite          *)
(* (RetrievalEval): what the fused ranking owes to the two it is made of,   *)
(* proved for every set of chunks and every constant.                      *)
(***************************************************************************)
EXTENDS RetrievalEval, FoldLemmas

-----------------------------------------------------------------------------
(* Fractions.                                                              *)

Fraction == Nat \X (Nat \ {0})

LEMMA Products ==
    ASSUME NEW a \in Nat, NEW b \in Nat, NEW c \in Nat \ {0}
    PROVE  /\ c * a \in Nat /\ c * b \in Nat
           /\ a <= b <=> c * a <= c * b
           /\ a < b <=> c * a < c * b
<1>1. c * a \in Nat /\ c * b \in Nat
  OBVIOUS
<1>2. (a <= b => c * a <= c * b) /\ (a < b => c * a + c <= c * b)
  OBVIOUS
<1>3. (b <= a => c * b <= c * a) /\ (b < a => c * b + c <= c * a)
  OBVIOUS
<1> QED BY <1>1, <1>2, <1>3

\* Less and its converse compose, by way of the common denominator.
LEMMA LessComposes ==
    ASSUME NEW x \in Fraction, NEW y \in Fraction, NEW z \in Fraction
    PROVE  /\ ~Less(x, x)
           /\ ~(Less(x, y) /\ Less(y, x))
           /\ Less(x, y) /\ ~Less(z, y) => Less(x, z)
           /\ ~Less(y, x) /\ Less(y, z) => Less(x, z)
           /\ ~Less(y, x) /\ ~Less(z, y) => ~Less(z, x)
<1> DEFINE a == x[1] * y[2]
           b == y[1] * x[2]
           c == y[1] * z[2]
           d == z[1] * y[2]
           e == x[1] * z[2]
           f == z[1] * x[2]
<1>1. /\ x[1] \in Nat /\ y[1] \in Nat /\ z[1] \in Nat
      /\ x[2] \in Nat \ {0} /\ y[2] \in Nat \ {0} /\ z[2] \in Nat \ {0}
  BY DEF Fraction
<1>2. /\ a \in Nat /\ b \in Nat /\ c \in Nat /\ d \in Nat /\ e \in Nat /\ f \in Nat
  BY <1>1, Products
<1>3. z[2] * a = y[2] * e /\ z[2] * b = x[2] * c /\ x[2] * d = y[2] * f
  BY <1>1
<1>4. /\ Less(x, y) <=> a < b
      /\ Less(y, x) <=> b < a
      /\ Less(y, z) <=> c < d
      /\ Less(z, y) <=> d < c
      /\ Less(x, z) <=> e < f
      /\ Less(z, x) <=> f < e
  BY DEF Less
<1>5. ~Less(x, x)
  BY <1>1 DEF Less
<1> HIDE DEF a, b, c, d, e, f
<1>6. /\ a < b <=> z[2] * a < z[2] * b
      /\ b < a <=> z[2] * b < z[2] * a
      /\ c < d <=> x[2] * c < x[2] * d
      /\ d < c <=> x[2] * d < x[2] * c
      /\ e < f <=> y[2] * e < y[2] * f
      /\ f < e <=> y[2] * f < y[2] * e
  BY <1>1, <1>2, Products
<1> DEFINE p == z[2] * a
           q == x[2] * c
           r == x[2] * d
<1>7. p \in Nat /\ q \in Nat /\ r \in Nat
  BY <1>1, <1>2, Products
<1>8. /\ a < b <=> p < q
      /\ b < a <=> q < p
      /\ c < d <=> q < r
      /\ d < c <=> r < q
      /\ e < f <=> p < r
      /\ f < e <=> r < p
  BY Zenon, <1>3, <1>6
<1> HIDE DEF p, q, r
<1> QED BY <1>4, <1>5, <1>7, <1>8

-----------------------------------------------------------------------------
(* Sorting: the rank of a member of a finite set in a strict total order.  *)

Below(S, R, c) == {d \in S \ {c} : <<d, c>> \in R}

StrictTotal(S, R) ==
    /\ \A c \in S, d \in S : c # d => (<<c, d>> \in R <=> <<d, c>> \notin R)
    /\ \A c \in S, d \in S, e \in S :
          c # d /\ d # e /\ <<c, d>> \in R /\ <<d, e>> \in R => <<c, e>> \in R

LEMMA RankFacts ==
    ASSUME NEW S, IsFiniteSet(S), NEW R, StrictTotal(S, R)
    PROVE  /\ \A c \in S : Cardinality(Below(S, R, c)) \in 0..(Cardinality(S) - 1)
           /\ \A c \in S, d \in S :
                 c # d /\ <<c, d>> \in R =>
                    Cardinality(Below(S, R, c)) < Cardinality(Below(S, R, d))
<1>1. ASSUME NEW c \in S
      PROVE  /\ IsFiniteSet(Below(S, R, c))
             /\ Cardinality(Below(S, R, c)) \in 0..(Cardinality(S) - 1)
  <2>1. /\ IsFiniteSet(S \ {c}) /\ Cardinality(S \ {c}) = Cardinality(S) - 1
        /\ Cardinality(S) \in Nat
    BY FS_RemoveElement, FS_CardinalityType
  <2>2. Below(S, R, c) \in SUBSET (S \ {c})
    BY DEF Below
  <2>3. IsFiniteSet(Below(S, R, c)) /\ Cardinality(Below(S, R, c)) <= Cardinality(S \ {c})
    BY <2>1, <2>2, FS_Subset
  <2>4. Cardinality(Below(S, R, c)) \in Nat
    BY <2>3, FS_CardinalityType
  <2> QED BY <2>1, <2>3, <2>4
<1>2. ASSUME NEW c \in S, NEW d \in S, c # d, <<c, d>> \in R
      PROVE  Cardinality(Below(S, R, c)) < Cardinality(Below(S, R, d))
  <2> DEFINE B == Below(S, R, c)
             D == Below(S, R, d)
  <2>1. c \notin B /\ B \cup {c} \in SUBSET D
    BY <1>2 DEF Below, StrictTotal
  <2>2. IsFiniteSet(B) /\ IsFiniteSet(D) /\ Cardinality(B) \in Nat
    BY <1>1
  <2> HIDE DEF B, D
  <2>3. Cardinality(B \cup {c}) = Cardinality(B) + 1
    BY <2>1, <2>2, FS_AddElement
  <2>4. Cardinality(B \cup {c}) <= Cardinality(D) /\ Cardinality(D) \in Nat
    BY <2>1, <2>2, FS_Subset, FS_CardinalityType
  <2>5. Cardinality(B) < Cardinality(D)
    BY <2>2, <2>3, <2>4
  <2> QED BY <2>5 DEF B, D
<1> QED BY <1>1, <1>2

\* Every rank is taken, and by one member only.
LEMMA RankOnto ==
    ASSUME NEW S, IsFiniteSet(S), NEW R, StrictTotal(S, R)
    PROVE  /\ \A c \in S, d \in S :
                 Cardinality(Below(S, R, c)) = Cardinality(Below(S, R, d)) => c = d
           /\ \A i \in 1..Cardinality(S) : \E c \in S : Cardinality(Below(S, R, c)) = i - 1
<1> DEFINE n == Cardinality(S)
           T == 0..(n - 1)
           f == [c \in S |-> Cardinality(Below(S, R, c))]
<1>1. n \in Nat
  BY FS_CardinalityType
<1>2. f \in [S -> T]
  BY RankFacts
<1>3. ASSUME NEW c \in S, NEW d \in S, f[c] = f[d] PROVE c = d
  <2>1. ASSUME c # d PROVE FALSE
    <3>1. <<c, d>> \in R \/ <<d, c>> \in R
      BY <2>1 DEF StrictTotal
    <3>2. f[c] < f[d] \/ f[d] < f[c]
      BY <2>1, <3>1, RankFacts
    <3>3. f[c] \in Nat /\ f[d] \in Nat
      BY <1>1, <1>2
    <3> QED BY <1>3, <3>2, <3>3
  <2> QED BY <2>1
<1>4. IsFiniteSet(T) /\ Cardinality(T) = n
  BY SMTT(30), <1>1, FS_Interval
<1>5. f \in Injection(S, T)
  BY <1>2, <1>3 DEF Injection, IsInjective
<1>6. f \in Surjection(S, T)
  <2> HIDE DEF f, T
  <2> QED BY <1>4, <1>5, FS_Injection
<1>7. \A i \in 1..n : \E c \in S : f[c] = i - 1
  <2>1. \A t \in T : \E c \in S : f[c] = t
    BY <1>6 DEF Surjection
  <2>2. \A i \in 1..n : i - 1 \in T
    BY <1>1
  <2> QED BY <2>1, <2>2
<1> QED BY <1>3, <1>7

-----------------------------------------------------------------------------
(* The invariant: the tables of the fusion are those of the hits seen.     *)

\* How many hits of list l the loops have seen, and which chunks.
Seen(l) == IF at[1] > l THEN Len(lists[l]) ELSE IF at[1] = l THEN at[2] - 1 ELSE 0
SeenIn(l) == {lists[l][i] : i \in 1..Seen(l)}
Merged == SeenIn(1) \cup SeenIn(2)

Share(l, c) == <<1, K + Rank(l, c)>>

ScoreOf(c) ==
    IF c \notin SeenIn(2) THEN Share(1, c)
    ELSE IF c \notin SeenIn(1) THEN Share(2, c)
    ELSE Plus(Share(1, c), Share(2, c))

AtOK ==
    \/ at[1] \in {1, 2} /\ at[2] \in 1..(Len(lists[at[1]]) + 1) /\ at = <<at[1], at[2]>>
    \/ at = <<3, 1>>
    \/ at = SearchOver

FusionInv ==
    /\ lists \in Ranking \X Ranking
    /\ AtOK
    /\ scores = [c \in Merged |-> ScoreOf(c)]
    /\ origin = [c \in Merged |-> IF c \in SeenIn(1) THEN 1 ELSE 2]
    /\ order \in Seq(Chunk) /\ IsInjective(order) /\ Range(order) = Merged
    /\ at = SearchOver => result = SubSeq(Sorted, 1, Least(Limit, Len(order)))

\* Between two searches there is nothing.
NoSearch ==
    /\ lists = <<<<>>, <<>>>> /\ at = SearchOver
    /\ scores = <<>> /\ order = <<>> /\ origin = <<>> /\ result = <<>>

SuiteInv == IF stage = "search" THEN FusionInv ELSE NoSearch

LEMMA ListFacts ==
    ASSUME lists \in Ranking \X Ranking, NEW l \in {1, 2}
    PROVE  /\ lists[l] \in Seq(Chunk) /\ Len(lists[l]) \in Nat /\ Len(lists[l]) <= Candidates
           /\ DOMAIN lists[l] = 1..Len(lists[l])
           /\ \A i \in 1..Len(lists[l]) :
                 /\ lists[l][i] \in Chunk
                 /\ \A j \in 1..Len(lists[l]) : lists[l][i] = lists[l][j] => i = j
                 /\ Rank(l, lists[l][i]) = i
<1>1. lists[l] \in Ranking
  OBVIOUS
<1>2. PICK n \in 0..Candidates : lists[l] \in [1..n -> Chunk] /\ IsInjective(lists[l])
  BY <1>1 DEF Ranking
<1>3. n \in Nat /\ n <= Candidates
  BY RankFusionAssumption
<1>4. lists[l] \in Seq(Chunk) /\ Len(lists[l]) = n /\ DOMAIN lists[l] = 1..n
  BY <1>2, <1>3
<1>5. ASSUME NEW i \in 1..n, NEW j \in 1..n, lists[l][i] = lists[l][j]
      PROVE  i = j
  BY <1>2, <1>4, <1>5 DEF IsInjective
<1>6. ASSUME NEW i \in 1..n
      PROVE  Rank(l, lists[l][i]) = i
  BY <1>4, <1>5 DEF Rank
<1> QED BY <1>2, <1>3, <1>4, <1>5, <1>6

LEMMA SeenFacts ==
    ASSUME lists \in Ranking \X Ranking, AtOK, NEW l \in {1, 2}
    PROVE  /\ Seen(l) \in 0..Len(lists[l])
           /\ SeenIn(l) \subseteq Chunk
           /\ \A c \in SeenIn(l) : /\ Rank(l, c) \in 1..Seen(l)
                                   /\ lists[l][Rank(l, c)] = c
           /\ at[1] >= 3 => SeenIn(l) = Range(lists[l])
<1>1. /\ Len(lists[l]) \in Nat /\ DOMAIN lists[l] = 1..Len(lists[l])
      /\ \A i \in 1..Len(lists[l]) : lists[l][i] \in Chunk /\ Rank(l, lists[l][i]) = i
  BY ListFacts
<1>2. Seen(l) \in 0..Len(lists[l])
  BY <1>1 DEF AtOK, SearchOver, Seen
<1>3. at[1] >= 3 => Seen(l) = Len(lists[l])
  BY DEF AtOK, SearchOver, Seen
<1>4. at[1] >= 3 => SeenIn(l) = Range(lists[l])
  BY <1>1, <1>3 DEF SeenIn, Range
<1> QED BY <1>1, <1>2, <1>4 DEF SeenIn

\* A new hit is a chunk its list has not shown yet.
LEMMA HitFacts ==
    ASSUME FusionInv, AddHit, NEW l, l = at[1], NEW c, c = lists[l][at[2]]
    PROVE  /\ l \in {1, 2} /\ c \in Chunk /\ c \notin SeenIn(l) /\ Rank(l, c) = at[2]
           /\ l = 1 => SeenIn(2) = {}
           /\ lists' = lists /\ AtOK' /\ at' # SearchOver
           /\ \A m \in {1, 2} : SeenIn(m)' = IF m = l THEN SeenIn(m) \cup {c} ELSE SeenIn(m)
           /\ \A m, d : Rank(m, d)' = Rank(m, d)
<1>1. /\ l \in {1, 2} /\ at[2] \in 1..Len(lists[l]) /\ at' = <<l, at[2] + 1>> /\ lists' = lists
  BY DEF FusionInv, AddHit, AtOK, SearchOver
<1>2. /\ Len(lists[l]) \in Nat
      /\ \A i \in 1..Len(lists[l]) :
            /\ lists[l][i] \in Chunk /\ Rank(l, lists[l][i]) = i
            /\ \A j \in 1..Len(lists[l]) : lists[l][i] = lists[l][j] => i = j
  BY SMTT(30), <1>1, ListFacts DEF FusionInv
<1>3. c \in Chunk /\ Rank(l, c) = at[2]
  BY <1>1, <1>2
<1>4. Seen(l) = at[2] - 1 /\ Seen(l)' = at[2]
  BY <1>1 DEF Seen
<1>5. c \notin SeenIn(l)
  BY SMTT(30), <1>1, <1>2, <1>4 DEF SeenIn
<1>6. l = 1 => SeenIn(2) = {}
  BY <1>1 DEF SeenIn, Seen
<1>7. AtOK' /\ at' # SearchOver
  BY <1>1, <1>2 DEF AtOK, SearchOver
<1>8. SeenIn(l)' = SeenIn(l) \cup {c}
  <2>1. 1..at[2] = (1..(at[2] - 1)) \cup {at[2]}
    BY <1>1
  <2> QED BY <1>1, <1>4, <2>1 DEF SeenIn
<1>9. ASSUME NEW m \in {1, 2}, m # l PROVE SeenIn(m)' = SeenIn(m)
  <2>1. Seen(m)' = Seen(m)
    BY <1>1, <1>9 DEF Seen
  <2> QED BY <1>1, <2>1 DEF SeenIn
<1>10. \A m, d : Rank(m, d)' = Rank(m, d)
  BY <1>1 DEF Rank
<1> QED BY <1>1, <1>3, <1>5, <1>6, <1>7, <1>8, <1>9, <1>10

LEMMA AppendNew ==
    ASSUME NEW S, NEW s \in Seq(S), IsInjective(s), NEW c \in S, c \notin Range(s)
    PROVE  /\ Append(s, c) \in Seq(S) /\ IsInjective(Append(s, c))
           /\ Range(Append(s, c)) = Range(s) \cup {c}
<1> DEFINE t == Append(s, c)
<1>1. /\ Len(s) \in Nat /\ DOMAIN s = 1..Len(s)
      /\ t \in Seq(S) /\ Len(t) = Len(s) + 1 /\ DOMAIN t = 1..(Len(s) + 1)
      /\ \A i \in 1..Len(s) : t[i] = s[i]
      /\ t[Len(s) + 1] = c
  OBVIOUS
<1> HIDE DEF t
<1>2. \A i \in 1..Len(s) : s[i] # c
  BY <1>1 DEF Range
<1>3. ASSUME NEW i \in 1..(Len(s) + 1), NEW j \in 1..(Len(s) + 1), t[i] = t[j]
      PROVE  i = j
  <2>1. CASE i \in 1..Len(s) /\ j \in 1..Len(s)
    BY <1>1, <1>3, <2>1 DEF IsInjective
  <2>2. CASE i = Len(s) + 1 /\ j = Len(s) + 1
    BY <2>2
  <2>3. CASE i \in 1..Len(s) /\ j = Len(s) + 1
    BY <1>1, <1>2, <1>3, <2>3
  <2>4. CASE i = Len(s) + 1 /\ j \in 1..Len(s)
    BY <1>1, <1>2, <1>3, <2>4
  <2> QED BY <1>1, <2>1, <2>2, <2>3, <2>4
<1>4. Range(t) = Range(s) \cup {c}
  <2>1. 1..(Len(s) + 1) = (1..Len(s)) \cup {Len(s) + 1}
    BY <1>1
  <2> QED BY <1>1, <2>1 DEF Range
<1>5. IsInjective(t)
  BY <1>1, <1>3 DEF IsInjective
<1> QED BY <1>1, <1>4, <1>5 DEF t

\* The score of a chunk after a hit.
LEMMA HitScore ==
    ASSUME FusionInv, AddHit, NEW l, l = at[1], NEW c, c = lists[l][at[2]]
    PROVE  /\ \A d \in Merged : d # c => ScoreOf(d)' = ScoreOf(d)
           /\ ScoreOf(c)' = Plus(IF c \in Merged THEN ScoreOf(c) ELSE <<0, 1>>, <<1, K + at[2]>>)
<1>1. /\ l \in {1, 2} /\ c \notin SeenIn(l) /\ Rank(l, c) = at[2]
      /\ l = 1 => SeenIn(2) = {}
      /\ \A m \in {1, 2} : SeenIn(m)' = IF m = l THEN SeenIn(m) \cup {c} ELSE SeenIn(m)
      /\ \A m, d : Rank(m, d)' = Rank(m, d)
  BY HitFacts
<1>2. \A m, d : Share(m, d)' = Share(m, d)
  BY <1>1 DEF Share
<1>3. \A d \in Merged : d # c => ScoreOf(d)' = ScoreOf(d)
  BY <1>1, <1>2 DEF ScoreOf, Plus
<1>4. Share(l, c) = <<1, K + at[2]>>
  BY <1>1 DEF Share
<1>5. Plus(<<0, 1>>, <<1, K + at[2]>>) = <<1, K + at[2]>>
  <2>1. at[2] \in Nat
    BY DEF FusionInv, AddHit, AtOK, SearchOver
  <2> QED BY <2>1, RankFusionAssumption DEF Plus
<1>6. CASE c \notin Merged
  <2>1. ScoreOf(c)' = Share(l, c)
    BY <1>1, <1>2, <1>6 DEF ScoreOf, Merged
  <2> QED BY <1>3, <1>4, <1>5, <1>6, <2>1
<1>7. CASE c \in Merged
  <2>1. l = 2 /\ c \in SeenIn(1)
    BY <1>1, <1>7 DEF Merged
  <2>2. c \in SeenIn(1)' /\ c \in SeenIn(2)' /\ c \notin SeenIn(2)
    BY SMTT(30), <1>1, <2>1
  <2>3. ScoreOf(c)' = Plus(Share(1, c)', Share(2, c)')
    BY <2>2 DEF ScoreOf, Plus
  <2>4. ScoreOf(c) = Share(1, c)
    BY <2>2 DEF ScoreOf
  <2>5. ScoreOf(c)' = Plus(ScoreOf(c), <<1, K + at[2]>>)
    BY <1>2, <1>4, <2>1, <2>3, <2>4
  <2> QED BY <1>3, <1>7, <2>5
<1> QED BY <1>6, <1>7

LEMMA AddHitKeeps ==
    ASSUME FusionInv, AddHit
    PROVE  FusionInv'
<1>l. PICK l : l = at[1]
  OBVIOUS
<1>c. PICK c : c = lists[l][at[2]]
  OBVIOUS
<1>1. /\ l \in {1, 2} /\ c \in Chunk /\ c \notin SeenIn(l)
      /\ l = 1 => SeenIn(2) = {}
      /\ lists' = lists /\ AtOK' /\ at' # SearchOver
      /\ \A m \in {1, 2} : SeenIn(m)' = IF m = l THEN SeenIn(m) \cup {c} ELSE SeenIn(m)
  BY <1>l, <1>c, HitFacts
<1>2. /\ \A d \in Merged : d # c => ScoreOf(d)' = ScoreOf(d)
      /\ ScoreOf(c)' = Plus(IF c \in Merged THEN ScoreOf(c) ELSE <<0, 1>>, <<1, K + at[2]>>)
  BY <1>l, <1>c, HitScore
<1>3. /\ scores' = [d \in DOMAIN scores \cup {c} |->
                      IF d = c THEN Plus(IF c \in DOMAIN scores THEN scores[c] ELSE <<0, 1>>,
                                         <<1, K + at[2]>>)
                      ELSE scores[d]]
      /\ order' = IF c \in DOMAIN scores THEN order ELSE Append(order, c)
      /\ origin' = [d \in DOMAIN origin \cup {c} |-> IF d \in DOMAIN origin THEN origin[d] ELSE l]
  BY <1>l, <1>c DEF AddHit
<1>4. /\ lists \in Ranking \X Ranking
      /\ DOMAIN scores = Merged /\ \A d \in Merged : scores[d] = ScoreOf(d)
      /\ DOMAIN origin = Merged
      /\ \A d \in Merged : origin[d] = IF d \in SeenIn(1) THEN 1 ELSE 2
      /\ order \in Seq(Chunk) /\ IsInjective(order) /\ Range(order) = Merged
  BY DEF FusionInv
<1>5. Merged' = Merged \cup {c}
  BY <1>1 DEF Merged
<1>6. scores' = [d \in Merged' |-> ScoreOf(d)']
  <2>1. scores' = [d \in Merged \cup {c} |-> IF d = c THEN ScoreOf(c)' ELSE scores[d]]
    BY <1>2, <1>3, <1>4
  <2> QED BY <1>2, <1>4, <1>5, <2>1
<1>7. origin' = [d \in Merged' |-> IF d \in SeenIn(1)' THEN 1 ELSE 2]
  <2>1. \A d \in Merged : d \in SeenIn(1)' <=> d \in SeenIn(1)
    <3>1. CASE l = 1
      <4>1. c \notin Merged
        BY <1>1, <3>1 DEF Merged
      <4> QED BY <1>1, <4>1
    <3>2. CASE l = 2
      BY <1>1, <3>2
    <3> QED BY <1>1, <3>1, <3>2
  <2>2. c \notin Merged => (l = IF c \in SeenIn(1)' THEN 1 ELSE 2)
    BY <1>1 DEF Merged
  <2> QED BY <1>3, <1>4, <1>5, <2>1, <2>2
<1>8. order' \in Seq(Chunk) /\ IsInjective(order') /\ Range(order') = Merged'
  <2>1. CASE c \in Merged
    <3>1. Merged' = Merged /\ order' = order
      BY <1>3, <1>4, <1>5, <2>1
    <3> QED BY <1>4, <3>1
  <2>2. CASE c \notin Merged
    <3>1. order' = Append(order, c)
      BY <1>3, <1>4, <2>2
    <3> QED BY <1>1, <1>4, <1>5, <2>2, <3>1, AppendNew
  <2> QED BY <2>1, <2>2
<1> QED BY <1>1, <1>4, <1>6, <1>7, <1>8 DEF FusionInv, SearchOver

\* The other steps see no further hit.
LEMMA SameSeen ==
    ASSUME UNCHANGED lists, \A l \in {1, 2} : Seen(l)' = Seen(l)
    PROVE  /\ \A l \in {1, 2} : SeenIn(l)' = SeenIn(l)
           /\ Merged' = Merged
           /\ \A c : ScoreOf(c)' = ScoreOf(c)
<1>1. \A l \in {1, 2} : SeenIn(l)' = SeenIn(l)
  BY DEF SeenIn
<1>2. \A l, c : Share(l, c)' = Share(l, c)
  BY DEF Share, Rank
<1> QED BY <1>1, <1>2 DEF Merged, ScoreOf, Plus

LEMMA NextListKeeps ==
    ASSUME FusionInv, NextList
    PROVE  FusionInv'
<1>1. /\ at[1] \in {1, 2} /\ at[2] = Len(lists[at[1]]) + 1 /\ at' = <<at[1] + 1, 1>>
      /\ UNCHANGED <<lists, scores, order, origin, result>>
  <2>1. /\ at[1] \in {1, 2} /\ at[2] > Len(lists[at[1]]) /\ at' = <<at[1] + 1, 1>>
        /\ UNCHANGED <<lists, scores, order, origin, result>>
    BY DEF NextList
  <2>2. Len(lists[at[1]]) \in Nat
    BY <2>1, ListFacts DEF FusionInv
  <2>3. at[2] \in 1..(Len(lists[at[1]]) + 1)
    BY <2>1 DEF FusionInv, AtOK, SearchOver
  <2> QED BY <2>1, <2>2, <2>3
<1>2. \A l \in {1, 2} : Len(lists[l]) \in Nat
  BY ListFacts DEF FusionInv
<1>3. \A l \in {1, 2} : Seen(l)' = Seen(l)
  BY <1>1, <1>2 DEF Seen
<1>4. AtOK' /\ at' # SearchOver
  BY <1>1, <1>2 DEF AtOK, SearchOver
<1>5. /\ \A l \in {1, 2} : SeenIn(l)' = SeenIn(l)
      /\ Merged' = Merged /\ \A c : ScoreOf(c)' = ScoreOf(c)
  BY <1>1, <1>3, SameSeen
<1>6. scores' = [c \in Merged' |-> ScoreOf(c)']
  BY <1>1, <1>5 DEF FusionInv
<1> QED BY <1>1, <1>4, <1>5, <1>6 DEF FusionInv, SearchOver

LEMMA ReturnKeeps ==
    ASSUME FusionInv, Return
    PROVE  FusionInv'
<1>1. /\ at = <<3, 1>> /\ at' = SearchOver
      /\ result' = SubSeq(Sorted, 1, Least(Limit, Len(order)))
      /\ UNCHANGED <<lists, scores, order, origin>>
  BY DEF Return, SearchOver
<1>2. \A l \in {1, 2} : Seen(l)' = Seen(l)
  BY <1>1 DEF Seen, SearchOver
<1>3. /\ \A l \in {1, 2} : SeenIn(l)' = SeenIn(l)
      /\ Merged' = Merged /\ \A c : ScoreOf(c)' = ScoreOf(c)
  BY <1>1, <1>2, SameSeen
<1>4. Sorted' = Sorted
  BY <1>1 DEF Sorted, Before, Place, Less
<1>5. AtOK' /\ result' = SubSeq(Sorted, 1, Least(Limit, Len(order)))'
  BY <1>1, <1>4 DEF AtOK
<1>6. scores' = [c \in Merged' |-> ScoreOf(c)']
  BY <1>1, <1>3 DEF FusionInv
<1> QED BY <1>1, <1>3, <1>5, <1>6 DEF FusionInv

LEMMA SearchKeeps ==
    ASSUME NoSearch, Search
    PROVE  FusionInv'
<1>1. /\ lists' \in Ranking \X Ranking /\ at' = <<1, 1>>
      /\ scores' = <<>> /\ order' = <<>> /\ origin' = <<>>
  BY DEF NoSearch, Search, VectorHits, KeywordChunks
<1>2. \A l \in {1, 2} : Len(lists'[l]) \in Nat
  <2>1. \A l \in {1, 2} : lists'[l] \in Ranking
    BY <1>1
  <2>2. \A s \in Ranking : Len(s) \in Nat
    BY RankFusionAssumption DEF Ranking
  <2> QED BY <2>1, <2>2
<1>3. \A l \in {1, 2} : Seen(l)' = 0
  BY <1>1, <1>2 DEF Seen
<1>4. SeenIn(1)' = {} /\ SeenIn(2)' = {} /\ Merged' = {}
  BY <1>3 DEF SeenIn, Merged
<1>5. AtOK' /\ at' # SearchOver
  BY <1>1, <1>2 DEF AtOK, SearchOver
<1>6. scores' = [c \in Merged' |-> ScoreOf(c)']
  BY <1>1, <1>4
<1>7. origin' = [c \in Merged' |-> IF c \in SeenIn(1)' THEN 1 ELSE 2]
  BY <1>1, <1>4
<1>8. order' \in Seq(Chunk) /\ IsInjective(order') /\ Range(order') = Merged'
  BY <1>1, <1>4 DEF IsInjective, Range
<1> QED BY <1>1, <1>5, <1>6, <1>7, <1>8 DEF FusionInv, SearchOver

LEMMA InitSuite == EvalInit => SuiteInv
BY DEF EvalInit, SuiteInv, NoSearch

LEMMA SuiteStep == SuiteInv /\ [EvalNext]_allVars => SuiteInv'
<1> SUFFICES ASSUME SuiteInv, [EvalNext]_allVars PROVE SuiteInv'
  OBVIOUS
<1>1. CASE ValidateDataset
  <2>1. stage = "validate" /\ stage' \in {"ingest", "error"} /\ UNCHANGED vars
    BY <1>1 DEF ValidateDataset
  <2> QED BY <2>1 DEF SuiteInv, NoSearch, vars, SearchOver
<1>2. CASE IngestCorpus
  <2>1. stage = "ingest" /\ stage' \in {"idle", "error"} /\ UNCHANGED vars
    BY <1>2 DEF IngestCorpus
  <2> QED BY <2>1 DEF SuiteInv, NoSearch, vars, SearchOver
<1>3. CASE Search
  <2>1. stage = "idle" /\ stage' = "search"
    BY <1>3 DEF Search
  <2> QED BY <1>3, <2>1, SearchKeeps DEF SuiteInv
<1>4. CASE Next /\ UNCHANGED evalVars
  <2>1. stage' = stage /\ Next
    BY <1>4 DEF evalVars
  <2>2. CASE stage = "search"
    BY <2>1, <2>2, AddHitKeeps, NextListKeeps, ReturnKeeps DEF SuiteInv, Next
  <2>3. CASE stage # "search"
    BY <2>1, <2>3 DEF SuiteInv, NoSearch, SearchOver, Next, AddHit, NextList, Return
  <2> QED BY <2>2, <2>3
<1>5. CASE RecordCase
  <2>1. /\ at = SearchOver /\ UNCHANGED at /\ stage' = "idle" /\ lists' = <<<<>>, <<>>>>
        /\ scores' = <<>> /\ order' = <<>> /\ origin' = <<>> /\ result' = <<>>
    BY <1>5 DEF RecordCase
  <2> QED BY <2>1 DEF SuiteInv, NoSearch, SearchOver
<1>6. CASE UNCHANGED allVars
  <2>1. UNCHANGED <<lists, at, scores, order, origin, result, stage>>
    BY <1>6 DEF allVars, vars, evalVars
  <2>2. \A l \in {1, 2} : Seen(l)' = Seen(l)
    BY <2>1 DEF Seen
  <2>3. /\ \A l \in {1, 2} : SeenIn(l)' = SeenIn(l)
        /\ Merged' = Merged /\ \A c : ScoreOf(c)' = ScoreOf(c)
    BY <2>1, <2>2, SameSeen
  <2>4. Sorted' = Sorted
    BY <2>1 DEF Sorted, Before, Place, Less
  <2>5. FusionInv => FusionInv'
    BY <2>1, <2>3, <2>4 DEF FusionInv, AtOK, SearchOver
  <2> QED BY <2>1, <2>5 DEF SuiteInv, NoSearch, SearchOver
<1> QED BY <1>1, <1>2, <1>3, <1>4, <1>5, <1>6 DEF EvalNext

\* The tables of a search are those of the hits it has seen.
LEMMA SuiteHolds == EvalSpec => []SuiteInv
BY InitSuite, SuiteStep, PTL DEF EvalSpec

-----------------------------------------------------------------------------
(* The fused ranking.                                                      *)

Order == {p \in Merged \X Merged : Before(p[1], p[2])}
Behind(c) == Cardinality(Below(Merged, Order, c))

LEMMA ScoreTypes ==
    ASSUME FusionInv
    PROVE  /\ DOMAIN scores = Merged
           /\ \A c \in Merged : scores[c] \in Fraction
<1>1. /\ DOMAIN scores = Merged
      /\ \A c \in Merged : scores[c] = ScoreOf(c)
  BY DEF FusionInv
<1>2. ASSUME NEW l \in {1, 2}, NEW c \in SeenIn(l)
      PROVE  Share(l, c) \in Fraction /\ Share(l, c)[1] = 1 /\ Share(l, c)[2] \in Nat \ {0}
  <2>1. Rank(l, c) \in 1..Seen(l) /\ Seen(l) \in 0..Len(lists[l]) /\ Len(lists[l]) \in Nat
    BY SeenFacts, ListFacts DEF FusionInv
  <2>2. K + Rank(l, c) \in Nat \ {0}
    BY <2>1, RankFusionAssumption
  <2> QED BY <2>2 DEF Share, Fraction
<1>3. ASSUME NEW c \in Merged PROVE ScoreOf(c) \in Fraction
  <2>1. CASE c \notin SeenIn(1) \/ c \notin SeenIn(2)
    BY <1>2, <2>1 DEF Merged, ScoreOf
  <2>2. CASE c \in SeenIn(1) /\ c \in SeenIn(2)
    <3> DEFINE x == Share(1, c)[2]
               y == Share(2, c)[2]
    <3>1. x \in Nat \ {0} /\ y \in Nat \ {0}
      BY <1>2, <2>2
    <3>2. ScoreOf(c) = <<1 * y + 1 * x, x * y>>
      BY <1>2, <2>2 DEF ScoreOf, Plus
    <3> HIDE DEF x, y
    <3>3. x * y \in Nat \ {0}
      BY <3>1
    <3>4. 1 * y + 1 * x \in Nat
      BY <3>1
    <3> QED BY <3>2, <3>3, <3>4 DEF Fraction
  <2> QED BY <2>1, <2>2
<1> QED BY <1>1, <1>3

LEMMA OrderFacts ==
    ASSUME FusionInv
    PROVE  /\ IsFiniteSet(Merged) /\ Cardinality(Merged) = Len(order)
           /\ StrictTotal(Merged, Order)
<1>1. /\ order \in Seq(Chunk) /\ IsInjective(order) /\ Range(order) = Merged
      /\ Len(order) \in Nat /\ DOMAIN order = 1..Len(order)
  BY DEF FusionInv
<1>2. IsFiniteSet(Merged) /\ Cardinality(Merged) = Len(order)
  <2>1. order \in [1..Len(order) -> Merged]
    BY <1>1 DEF Range
  <2>2. order \in Surjection(1..Len(order), Merged)
    BY <1>1, <2>1 DEF Surjection, Range
  <2>3. order \in Injection(1..Len(order), Merged)
    BY <1>1, <2>1 DEF Injection, IsInjective
  <2>4. IsFiniteSet(1..Len(order)) /\ Cardinality(1..Len(order)) = Len(order)
    BY <1>1, FS_Interval
  <2> QED BY <2>2, <2>3, <2>4, FS_Surjection
<1>3. ASSUME NEW c \in Merged PROVE Place(c) \in 1..Len(order) /\ order[Place(c)] = c
  <2>1. \E i \in DOMAIN order : order[i] = c
    BY <1>1, <1>3 DEF Range
  <2> QED BY <1>1, <2>1 DEF Place
<1>4. \A c \in Merged, d \in Merged : Place(c) = Place(d) => c = d
  BY <1>3
<1>5. \A c \in Merged : scores[c] \in Fraction
  BY ScoreTypes
<1>6. ASSUME NEW c \in Merged, NEW d \in Merged, c # d
      PROVE  Before(c, d) <=> ~Before(d, c)
  <2>1. ~(Less(scores[c], scores[d]) /\ Less(scores[d], scores[c]))
    BY <1>5, LessComposes
  <2>2. Place(c) \in Nat /\ Place(d) \in Nat /\ Place(c) # Place(d)
    BY <1>1, <1>3, <1>4, <1>6
  <2> QED BY <2>1, <2>2 DEF Before
<1>7. ASSUME NEW c \in Merged, NEW d \in Merged, NEW e \in Merged, Before(c, d), Before(d, e)
      PROVE  Before(c, e)
  <2> DEFINE x == scores[c]
             y == scores[d]
             z == scores[e]
  <2>1. /\ x \in Fraction /\ y \in Fraction /\ z \in Fraction
        /\ Place(c) \in Nat /\ Place(d) \in Nat /\ Place(e) \in Nat
    BY <1>1, <1>3, <1>5
  <2>2. /\ Less(y, x) \/ (~Less(x, y) /\ Place(c) < Place(d))
        /\ Less(z, y) \/ (~Less(y, z) /\ Place(d) < Place(e))
    BY <1>7 DEF Before
  <2> HIDE DEF x, y, z
  <2>3. Less(y, x) => ~Less(x, y)
    BY <2>1, LessComposes
  <2>4. Less(z, x) \/ (~Less(x, z) /\ Place(c) < Place(e))
    <3>1. CASE Less(z, y)
      <4>1. ~Less(x, y)
        BY <2>2, <2>3
      <4> QED BY <2>1, <3>1, <4>1, LessComposes
    <3>2. CASE ~Less(y, z) /\ Place(d) < Place(e)
      <4>1. CASE Less(y, x)
        BY <2>1, <3>2, <4>1, LessComposes
      <4>2. CASE ~Less(x, y) /\ Place(c) < Place(d)
        <5>1. ~Less(x, z)
          BY <2>1, <3>2, <4>2, LessComposes
        <5> QED BY <2>1, <3>2, <4>2, <5>1
      <4> QED BY <2>2, <4>1, <4>2
    <3> QED BY <2>2, <3>1, <3>2
  <2> QED BY <2>4 DEF Before, x, z
<1>8. \A c \in Merged, d \in Merged : <<c, d>> \in Order <=> Before(c, d)
  BY DEF Order
<1>9. StrictTotal(Merged, Order)
  BY <1>6, <1>7, <1>8 DEF StrictTotal
<1> QED BY <1>2, <1>9

\* What is returned: the first of the chunks found, by rank in Order.
LEMMA ResultFacts ==
    ASSUME FusionInv, at = SearchOver
    PROVE  /\ Merged = Found /\ \A l \in {1, 2} : SeenIn(l) = Range(lists[l])
           /\ Len(result) = Least(Limit, Cardinality(Found))
           /\ DOMAIN result = 1..Len(result) /\ Len(result) \in Nat
           /\ \A i \in 1..Len(result) : result[i] \in Merged /\ Behind(result[i]) = i - 1
           /\ Len(result) <= Cardinality(Merged) /\ result \in Seq(Merged)
<1> DEFINE n == Len(order)
           m == Least(Limit, n)
<1>1. /\ IsFiniteSet(Merged) /\ Cardinality(Merged) = n /\ n \in Nat
      /\ StrictTotal(Merged, Order) /\ Range(order) = Merged
  BY OrderFacts DEF FusionInv
<1>2. \A l \in {1, 2} : SeenIn(l) = Range(lists[l])
  BY SeenFacts DEF FusionInv, SearchOver
<1>3. Merged = Found
  BY <1>2 DEF Merged, Found
<1>4. m \in 0..n
  BY <1>1, RankFusionAssumption DEF Least
<1>5. ASSUME NEW c \in Merged
      PROVE  {d \in Range(order) \ {c} : Before(d, c)} = Below(Merged, Order, c)
  BY <1>1 DEF Below, Order
<1>6. ASSUME NEW i \in 1..n
      PROVE  Sorted[i] \in Merged /\ Behind(Sorted[i]) = i - 1
  <2>1. Sorted[i] = CHOOSE c \in Merged : Cardinality({d \in Merged \ {c} : Before(d, c)}) = i - 1
    BY <1>1 DEF Sorted
  <2>2. \E c \in Merged : Behind(c) = i - 1
    BY <1>1, RankOnto DEF Behind
  <2>3. \E c \in Merged : Cardinality({d \in Merged \ {c} : Before(d, c)}) = i - 1
    BY <1>1, <1>5, <2>2 DEF Behind
  <2>4. /\ Sorted[i] \in Merged
        /\ Cardinality({d \in Merged \ {Sorted[i]} : Before(d, Sorted[i])}) = i - 1
    BY <2>1, <2>3
  <2> QED BY <1>1, <1>5, <2>4 DEF Behind
<1>7. /\ Sorted \in [1..n -> Merged] /\ Sorted \in Seq(Merged) /\ Len(Sorted) = n
  <2> DEFINE g(i) == CHOOSE c \in Range(order) :
                        Cardinality({d \in Range(order) \ {c} : Before(d, c)}) = i - 1
  <2>1. Sorted = [i \in 1..n |-> g(i)]
    BY DEF Sorted
  <2> HIDE DEF g
  <2>2. Sorted \in [1..n -> Merged]
    BY <1>6, <2>1
  <2> QED BY <1>1, <2>2
<1>8. result = SubSeq(Sorted, 1, m)
  BY DEF FusionInv
<1> HIDE DEF n, m
<1>9. /\ Len(result) = m /\ DOMAIN result = 1..m
      /\ \A i \in 1..m : result[i] = Sorted[i]
      /\ result \in Seq(Merged)
  BY <1>1, <1>4, <1>7, <1>8
<1>10. m = Least(Limit, Cardinality(Found)) /\ m \in Nat /\ m <= n
  BY <1>1, <1>3, <1>4 DEF m
<1> QED BY <1>1, <1>2, <1>3, <1>6, <1>9, <1>10

\* A chunk that scores more comes ahead, also across the cut at the limit.
LEMMA HigherFirst ==
    ASSUME FusionInv, at = SearchOver, NEW c \in Merged, NEW d \in Merged,
           Less(scores[d], scores[c]), d \in Range(result)
    PROVE  Ahead(c, d)
<1>1. /\ IsFiniteSet(Merged) /\ StrictTotal(Merged, Order) /\ Cardinality(Merged) \in Nat
  BY OrderFacts, FS_CardinalityType
<1>2. /\ DOMAIN result = 1..Len(result) /\ Len(result) \in Nat
      /\ Len(result) <= Cardinality(Merged)
      /\ \A i \in 1..Len(result) : result[i] \in Merged /\ Behind(result[i]) = i - 1
  BY ResultFacts
<1>3. c # d
  BY ScoreTypes, LessComposes
<1>4. <<c, d>> \in Order
  BY DEF Order, Before
<1>5. Behind(c) < Behind(d) /\ Behind(c) \in 0..(Cardinality(Merged) - 1)
  BY <1>1, <1>3, <1>4, RankFacts DEF Behind
<1>6. PICK j \in 1..Len(result) : result[j] = d
  BY <1>2 DEF Range
<1> DEFINE k == Behind(c) + 1
<1>7. k \in 1..Len(result) /\ Behind(d) = j - 1 /\ k - 1 = Behind(c)
  BY <1>1, <1>2, <1>5, <1>6
<1>8. Behind(result[k]) = Behind(c) /\ result[k] \in Merged
  BY <1>2, <1>7
<1>9. result[k] = c
  BY <1>1, <1>8, RankOnto DEF Behind
<1> HIDE DEF k
<1>10. ASSUME NEW i \in DOMAIN result, result[i] = d PROVE k < i
  <2>1. i \in 1..Len(result) /\ Behind(d) = i - 1
    BY <1>2, <1>10
  <2> QED BY <1>1, <1>2, <1>5, <1>7, <2>1
<1> QED BY <1>2, <1>7, <1>9, <1>10 DEF Ahead

\* Sums of two shares against one share and against each other.
LEMMA OneShare ==
    ASSUME NEW a \in Nat \ {0}, NEW d \in Nat \ {0}, a < d
    PROVE  Less(<<1, d>>, <<1, a>>)
BY DEF Less

LEMMA TwoShares ==
    ASSUME NEW a \in Nat \ {0}, NEW b \in Nat \ {0}, NEW d \in Nat \ {0},
           a < d \/ b < d \/ (a < 2 * d /\ b < 2 * d)
    PROVE  Less(<<1, d>>, Plus(<<1, a>>, <<1, b>>))
<1> DEFINE p == a * b
           q == a * d
           r == b * d
<1>1. p \in Nat \ {0} /\ q \in Nat \ {0} /\ r \in Nat \ {0}
  OBVIOUS
<1>2. a < d => p < r
  <2>1. a < d => b * a < b * d
    BY Products
  <2>2. b * a = a * b
    OBVIOUS
  <2> QED BY <2>1, <2>2
<1>3. b < d => p < q
  BY Products
<1>4. b < 2 * d => p < 2 * q
  <2>1. b < 2 * d => a * b < a * (2 * d)
    BY Products
  <2>2. a * (2 * d) = 2 * (a * d)
    OBVIOUS
  <2> QED BY <2>1, <2>2
<1>5. a < 2 * d => p < 2 * r
  <2>1. a < 2 * d => b * a < b * (2 * d)
    BY Products
  <2>2. b * (2 * d) = 2 * (b * d) /\ b * a = a * b
    OBVIOUS
  <2> QED BY <2>1, <2>2
<1>6. Less(<<1, d>>, Plus(<<1, a>>, <<1, b>>)) <=> p < r + q
  <2>1. (1 * b + 1 * a) * d = b * d + a * d
    OBVIOUS
  <2>2. 1 * (a * b) = a * b
    OBVIOUS
  <2> QED BY <2>1, <2>2 DEF Less, Plus
<1> HIDE DEF p, q, r
<1> QED BY <1>1, <1>2, <1>3, <1>4, <1>5, <1>6

LEMMA SumOfShares ==
    ASSUME NEW a \in Nat \ {0}, NEW b \in Nat \ {0}, NEW d \in Nat \ {0}, NEW e \in Nat \ {0},
           a < d, b < e
    PROVE  Less(Plus(<<1, d>>, <<1, e>>), Plus(<<1, a>>, <<1, b>>))
<1> DEFINE x == b * e
           y == a * d
           p == a * x
           q == d * x
           r == b * y
           s == e * y
<1>1. x \in Nat \ {0} /\ y \in Nat \ {0}
  OBVIOUS
<1>2. p < q /\ r < s /\ p \in Nat /\ q \in Nat /\ r \in Nat /\ s \in Nat
  <2> HIDE DEF x, y
  <2>1. x * a < x * d /\ y * b < y * e
    BY <1>1, Products
  <2>2. /\ x * a = a * x /\ x * d = d * x /\ y * b = b * y /\ y * e = e * y
        /\ x * a \in Nat /\ x * d \in Nat /\ y * b \in Nat /\ y * e \in Nat
    BY <1>1
  <2> QED BY <2>1, <2>2
<1>3. Less(Plus(<<1, d>>, <<1, e>>), Plus(<<1, a>>, <<1, b>>)) <=>
          (1 * e + 1 * d) * (a * b) < (1 * b + 1 * a) * (d * e)
  BY DEF Less, Plus
<1>4. (1 * e + 1 * d) * (a * b) = p + r
  OBVIOUS
<1>5. (1 * b + 1 * a) * (d * e) = q + s
  OBVIOUS
<1> HIDE DEF p, q, r, s
<1>6. p + r < q + s
  BY <1>2
<1> QED BY Zenon, <1>3, <1>4, <1>5, <1>6

\* The scores at the end, by the ranks.
LEMMA FinalScores ==
    ASSUME FusionInv, at = SearchOver
    PROVE  /\ \A l \in {1, 2} : \A c \in Range(lists[l]) :
                 /\ Rank(l, c) \in Nat \ {0} /\ Rank(l, c) <= Candidates
                 /\ K + Rank(l, c) \in Nat \ {0}
           /\ \A c \in Range(lists[1]) \ Range(lists[2]) : scores[c] = <<1, K + Rank(1, c)>>
           /\ \A c \in Range(lists[2]) \ Range(lists[1]) : scores[c] = <<1, K + Rank(2, c)>>
           /\ \A c \in FoundByBoth :
                 scores[c] = Plus(<<1, K + Rank(1, c)>>, <<1, K + Rank(2, c)>>)
<1>1. SeenIn(1) = Range(lists[1]) /\ SeenIn(2) = Range(lists[2])
  BY ResultFacts
<1>2. ASSUME NEW l \in {1, 2}, NEW c \in Range(lists[l])
      PROVE  /\ Rank(l, c) \in Nat \ {0} /\ Rank(l, c) <= Candidates
             /\ K + Rank(l, c) \in Nat \ {0}
  <2>1. /\ Rank(l, c) \in 1..Seen(l) /\ Seen(l) \in 0..Len(lists[l])
        /\ Len(lists[l]) \in Nat /\ Len(lists[l]) <= Candidates
    BY <1>1, SeenFacts, ListFacts DEF FusionInv
  <2> QED BY <2>1, RankFusionAssumption
<1>3. \A c \in Merged : scores[c] = ScoreOf(c)
  BY DEF FusionInv
<1>4. \A c \in Range(lists[1]) \ Range(lists[2]) : scores[c] = Share(1, c)
  BY <1>1, <1>3 DEF Merged, ScoreOf
<1>5. \A c \in Range(lists[2]) \ Range(lists[1]) : scores[c] = Share(2, c)
  BY <1>1, <1>3 DEF Merged, ScoreOf
<1>6. \A c \in FoundByBoth : scores[c] = Plus(Share(1, c), Share(2, c))
  BY <1>1, <1>3 DEF Merged, ScoreOf, FoundByBoth
<1> QED BY <1>2, <1>4, <1>5, <1>6 DEF Share

\* While nothing is searched, nothing is found.
LEMMA NothingFound ==
    ASSUME NoSearch
    PROVE  Found = {} /\ Range(result) = {} /\ result = <<>> /\ FoundByBoth = {}
BY DEF NoSearch, Found, FoundByBoth, Range

LEMMA DoneIsOver ==
    ASSUME FusionInv, Done
    PROVE  at = SearchOver
BY DEF FusionInv, AtOK, Done, SearchOver

LEMMA BothScoreMore ==
    ASSUME FusionInv, at = SearchOver, Candidates < K + 2,
           NEW c \in FoundByBoth, NEW d \in Found \ FoundByBoth
    PROVE  Less(scores[d], scores[c])
<1> DEFINE a == K + Rank(1, c)
           b == K + Rank(2, c)
<1>1. /\ a \in Nat \ {0} /\ b \in Nat \ {0} /\ a <= K + Candidates /\ b <= K + Candidates
      /\ scores[c] = Plus(<<1, a>>, <<1, b>>)
  BY FinalScores, RankFusionAssumption DEF FoundByBoth
<1>2. PICK e \in Nat \ {0} : scores[d] = <<1, e>> /\ K + 1 <= e
  <2>1. CASE d \in Range(lists[1]) \ Range(lists[2])
    BY <2>1, FinalScores, RankFusionAssumption
  <2>2. CASE d \in Range(lists[2]) \ Range(lists[1])
    BY <2>2, FinalScores, RankFusionAssumption
  <2> QED BY <2>1, <2>2 DEF Found, FoundByBoth
<1> HIDE DEF a, b
<1>3. a < 2 * e /\ b < 2 * e
  BY <1>1, <1>2, RankFusionAssumption
<1> QED BY <1>1, <1>2, <1>3, TwoShares

\* A chunk that both searches found outranks one that only one found (the comment of
\* HybridRetriever.search), provided that a source has fewer than rrf_k + 2 candidates,
\* as with the defaults 20 and 60: the run has 3 candidates and rrf_k = 2.
THEOREM BothFirst ==
    ASSUME Candidates < K + 2
    PROVE  EvalSpec => []BothBeatOne
<1>1. ASSUME SuiteInv PROVE BothBeatOne
  <2> SUFFICES ASSUME Done, NEW c \in FoundByBoth, NEW d \in Found \ FoundByBoth,
                      d \in Range(result)
               PROVE  Ahead(c, d)
    BY DEF BothBeatOne
  <2>1. FusionInv /\ at = SearchOver
    BY <1>1, NothingFound, DoneIsOver DEF SuiteInv
  <2>2. c \in Merged /\ d \in Merged
    BY <2>1, ResultFacts DEF Found, FoundByBoth
  <2> QED BY <2>1, <2>2, BothScoreMore, HigherFirst
<1> QED BY <1>1, SuiteHolds, PTL

LEMMA BetterScoresMore ==
    ASSUME FusionInv, at = SearchOver, NEW c \in Found, NEW d \in Found,
           \A l \in 1..2 :
              d \in Range(lists[l]) => c \in Range(lists[l]) /\ Rank(l, c) < Rank(l, d)
    PROVE  Less(scores[d], scores[c])
<1> DEFINE share(l, e) == K + Rank(l, e)
<1>1. /\ \A l \in {1, 2} : \A e \in Range(lists[l]) :
            /\ Rank(l, e) \in Nat \ {0} /\ share(l, e) \in Nat \ {0}
      /\ \A e \in Range(lists[1]) \ Range(lists[2]) : scores[e] = <<1, share(1, e)>>
      /\ \A e \in Range(lists[2]) \ Range(lists[1]) : scores[e] = <<1, share(2, e)>>
      /\ \A e \in Range(lists[1]) \cap Range(lists[2]) :
            scores[e] = Plus(<<1, share(1, e)>>, <<1, share(2, e)>>)
  BY FinalScores DEF FoundByBoth
<1>2. ASSUME NEW l \in {1, 2}, d \in Range(lists[l])
      PROVE  c \in Range(lists[l]) /\ share(l, c) < share(l, d)
  <2>1. c \in Range(lists[l]) /\ Rank(l, c) < Rank(l, d)
    BY <1>2
  <2>2. Rank(l, c) \in Nat /\ Rank(l, d) \in Nat
    BY <1>1, <1>2, <2>1
  <2> QED BY <2>1, <2>2, RankFusionAssumption
<1> HIDE DEF share
<1>3. CASE d \in Range(lists[1]) /\ d \in Range(lists[2])
  <2>1. /\ c \in Range(lists[1]) /\ c \in Range(lists[2])
        /\ share(1, c) < share(1, d) /\ share(2, c) < share(2, d)
    BY <1>2, <1>3
  <2>2. /\ share(1, c) \in Nat \ {0} /\ share(2, c) \in Nat \ {0}
        /\ share(1, d) \in Nat \ {0} /\ share(2, d) \in Nat \ {0}
    BY <1>1, <1>3, <2>1
  <2>3. /\ scores[c] = Plus(<<1, share(1, c)>>, <<1, share(2, c)>>)
        /\ scores[d] = Plus(<<1, share(1, d)>>, <<1, share(2, d)>>)
    BY <1>1, <1>3, <2>1
  <2>4. Less(Plus(<<1, share(1, d)>>, <<1, share(2, d)>>),
             Plus(<<1, share(1, c)>>, <<1, share(2, c)>>))
    BY <2>1, <2>2, SumOfShares
  <2> QED BY Zenon, <2>3, <2>4
<1>4. ASSUME NEW l \in {1, 2}, NEW m \in {1, 2}, l # m,
             d \in Range(lists[l]), d \notin Range(lists[m])
      PROVE  Less(scores[d], scores[c])
  <2>1. /\ c \in Range(lists[l]) /\ share(l, c) < share(l, d)
        /\ share(l, c) \in Nat \ {0} /\ share(l, d) \in Nat \ {0}
        /\ scores[d] = <<1, share(l, d)>>
    BY <1>1, <1>2, <1>4
  <2>2. CASE c \notin Range(lists[m])
    <3>1. scores[c] = <<1, share(l, c)>>
      BY <1>1, <1>4, <2>1, <2>2
    <3> QED BY <2>1, <3>1, OneShare
  <2>3. CASE c \in Range(lists[m])
    <3>1. /\ scores[c] = Plus(<<1, share(1, c)>>, <<1, share(2, c)>>)
          /\ share(1, c) \in Nat \ {0} /\ share(2, c) \in Nat \ {0}
          /\ share(1, c) < share(l, d) \/ share(2, c) < share(l, d)
      BY <1>1, <1>4, <2>1, <2>3
    <3> QED BY <2>1, <3>1, TwoShares
  <2> QED BY <2>2, <2>3
<1>5. CASE d \in Range(lists[1]) /\ d \notin Range(lists[2])
  BY <1>4, <1>5
<1>6. CASE d \in Range(lists[2]) /\ d \notin Range(lists[1])
  BY <1>4, <1>6
<1> QED BY <1>3, <1>5, <1>6 DEF Found

\* Fusion keeps what both rankings agree on (HybridRetriever.search): a chunk that no
\* source ranks behind another one comes ahead of it.
THEOREM AgreedOrderKept == EvalSpec => []BetterRanksFirst
<1>1. ASSUME SuiteInv PROVE BetterRanksFirst
  <2> SUFFICES ASSUME Done, NEW c \in Found, NEW d \in Found,
                      \A l \in 1..2 :
                         d \in Range(lists[l]) =>
                            c \in Range(lists[l]) /\ Rank(l, c) < Rank(l, d),
                      d \in Range(result)
               PROVE  Ahead(c, d)
    BY DEF BetterRanksFirst
  <2>1. FusionInv /\ at = SearchOver
    BY <1>1, NothingFound, DoneIsOver DEF SuiteInv
  <2>2. c \in Merged /\ d \in Merged
    BY <2>1, ResultFacts
  <2> QED BY <2>1, <2>2, BetterScoresMore, HigherFirst
<1> QED BY <1>1, SuiteHolds, PTL

\* The fusion returns as many distinct chunks as were found and the limit allows, each
\* with the object of the vector search if that found it (chunk_by_id.setdefault).
THEOREM FusionComplete == EvalSpec => []NothingLost
<1>1. ASSUME FusionInv, Done PROVE NothingLost
  <2>1. at = SearchOver
    BY <1>1, DoneIsOver
  <2>2. /\ Merged = Found /\ \A l \in {1, 2} : SeenIn(l) = Range(lists[l])
        /\ Len(result) = Least(Limit, Cardinality(Found))
        /\ DOMAIN result = 1..Len(result)
        /\ \A i \in 1..Len(result) : result[i] \in Merged /\ Behind(result[i]) = i - 1
    BY <1>1, <2>1, ResultFacts
  <2>3. IsInjective(result)
    <3>1. ASSUME NEW i \in 1..Len(result), NEW j \in 1..Len(result), result[i] = result[j]
          PROVE  i = j
      <4>1. i - 1 = j - 1
        BY <2>2, <3>1
      <4> QED BY <4>1
    <3> QED BY <2>2, <3>1 DEF IsInjective
  <2>4. Range(result) \subseteq Found
    BY <2>2 DEF Range
  <2>5. \A c \in Found : origin[c] = IF c \in Range(lists[1]) THEN 1 ELSE 2
    BY <1>1, <2>2 DEF FusionInv
  <2> QED BY <2>2, <2>3, <2>4, <2>5 DEF NothingLost
<1>2. ASSUME NoSearch PROVE NothingLost
  <2>1. Found = {} /\ Range(result) = {} /\ result = <<>>
    BY <1>2, NothingFound
  <2>2. Cardinality(Found) = 0
    BY <2>1, FS_EmptySet
  <2>3. Least(Limit, 0) = 0
    BY RankFusionAssumption DEF Least
  <2> QED BY <2>1, <2>2, <2>3 DEF NothingLost, IsInjective
<1>3. SuiteInv => NothingLost
  BY <1>1, <1>2 DEF SuiteInv, NothingLost
<1> QED BY <1>3, SuiteHolds, PTL

\* Both together: the fusion is faithful to what the searches found, for all rankings,
\* limits and values of rrf_k (HybridRetriever.search).
THEOREM FusionProper == EvalSpec => []FusionFaithful
BY AgreedOrderKept, FusionComplete, PTL DEF FusionFaithful

-----------------------------------------------------------------------------
(* The labels of the corpus.                                               *)

Stored == {corpus[i].text : i \in DOMAIN corpus}

LabelInv ==
    /\ corpus \in [1..CorpusSize -> [doc_id : DocId, text : Text]]
    /\ stage \in {"ingest", "idle", "search"} => Cardinality(Known) = Len(corpus)
    /\ stage \in {"idle", "search"} =>
          /\ Cardinality(Stored) = Len(corpus)
          /\ labels = [t \in Stored |-> (CHOOSE r \in Range(corpus) : r.text = t).doc_id]

LEMMA LabelStep == LabelInv /\ [EvalNext]_allVars => LabelInv'
<1> SUFFICES ASSUME LabelInv, [EvalNext]_allVars PROVE LabelInv'
  OBVIOUS
<1>1. ASSUME UNCHANGED <<corpus, labels>>,
             stage' \in {"idle", "search"} => stage \in {"idle", "search"},
             stage' = "ingest" => stage = "ingest"
      PROVE  LabelInv'
  BY <1>1 DEF LabelInv, Known, Stored
<1>2. CASE ValidateDataset
  <2>1. /\ stage' = (IF Cardinality(Known) = Len(corpus) THEN "ingest" ELSE "error")
        /\ corpus' = corpus
    BY <1>2 DEF ValidateDataset
  <2>2. Known' = Known
    BY <2>1 DEF Known
  <2> QED BY <2>1, <2>2 DEF LabelInv
<1>3. CASE IngestCorpus
  <2>1. CASE Cardinality(Stored) = Len(corpus)
    <3>1. /\ stage = "ingest" /\ stage' = "idle" /\ corpus' = corpus
          /\ labels' = [t \in Stored |-> (CHOOSE r \in Range(corpus) : r.text = t).doc_id]
      BY <1>3, <2>1 DEF IngestCorpus, Stored
    <3>2. Known' = Known /\ Stored' = Stored
      BY <3>1 DEF Known, Stored
    <3> QED BY <2>1, <3>1, <3>2 DEF LabelInv
  <2>2. CASE Cardinality(Stored) # Len(corpus)
    <3>1. stage' = "error" /\ corpus' = corpus
      BY <1>3, <2>2 DEF IngestCorpus, Stored
    <3> QED BY <3>1 DEF LabelInv
  <2> QED BY <2>1, <2>2
<1>4. CASE Search
  BY <1>1, <1>4 DEF Search
<1>5. CASE Next /\ UNCHANGED evalVars
  BY <1>1, <1>5 DEF evalVars
<1>6. CASE RecordCase
  BY <1>1, <1>6 DEF RecordCase
<1>7. CASE UNCHANGED allVars
  BY <1>1, <1>7 DEF allVars, evalVars
<1> QED BY <1>2, <1>3, <1>4, <1>5, <1>6, <1>7 DEF EvalNext

\* As many values as rows: no two rows have the same.
LEMMA NoneTwice ==
    ASSUME NEW n \in Nat, NEW f, DOMAIN f = 1..n,
           Cardinality({f[i] : i \in 1..n}) = n,
           NEW i \in 1..n, NEW j \in 1..n, f[i] = f[j]
    PROVE  i = j
<1> DEFINE T == {f[k] : k \in 1..n}
           g == [k \in 1..n |-> f[k]]
<1>1. IsFiniteSet(1..n) /\ Cardinality(1..n) = n
  BY FS_Interval
<1>2. g \in Surjection(1..n, T)
  BY DEF Surjection
<1>3. g \in Injection(1..n, T)
  <2> HIDE DEF g
  <2> QED BY <1>1, <1>2, FS_Surjection
<1>4. \A k, m \in 1..n : g[k] = g[m] => k = m
  BY <1>3 DEF Injection, IsInjective
<1> QED BY <1>4

LEMMA Reachable == LabelInv => EveryLabelReachable
<1> SUFFICES ASSUME LabelInv, stage \in {"idle", "search"}, NEW doc \in Known
             PROVE  \E t \in DOMAIN labels :
                       labels[t] = doc /\ \A u \in DOMAIN labels \ {t} : labels[u] # doc
  BY DEF EveryLabelReachable
<1> DEFINE n == CorpusSize
           Row == [doc_id : DocId, text : Text]
<1>1. /\ n \in Nat /\ corpus \in [1..n -> Row] /\ Len(corpus) = n /\ DOMAIN corpus = 1..n
  BY RetrievalEvalAssumption DEF LabelInv
<1>2. /\ Cardinality({corpus[i].doc_id : i \in 1..n}) = n
      /\ Cardinality({corpus[i].text : i \in 1..n}) = n
      /\ labels = [t \in Stored |-> (CHOOSE r \in Range(corpus) : r.text = t).doc_id]
  BY <1>1 DEF LabelInv, Known, Stored
<1> DEFINE ids == [i \in 1..n |-> corpus[i].doc_id]
           texts == [i \in 1..n |-> corpus[i].text]
<1>3. /\ Cardinality({ids[i] : i \in 1..n}) = n
      /\ Cardinality({texts[i] : i \in 1..n}) = n
  <2>1. /\ {ids[i] : i \in 1..n} = {corpus[i].doc_id : i \in 1..n}
        /\ {texts[i] : i \in 1..n} = {corpus[i].text : i \in 1..n}
    OBVIOUS
  <2> QED BY <1>2, <2>1
<1>4. ASSUME NEW i \in 1..n, NEW j \in 1..n
      PROVE  /\ ids[i] = ids[j] => i = j
             /\ texts[i] = texts[j] => i = j
  <2>1. DOMAIN ids = 1..n /\ DOMAIN texts = 1..n
    OBVIOUS
  <2> HIDE DEF ids, texts, n
  <2> QED BY <1>1, <1>3, <2>1, NoneTwice
<1>5. ASSUME NEW i \in 1..n
      PROVE  corpus[i].text \in DOMAIN labels /\ labels[corpus[i].text] = corpus[i].doc_id
  <2>1. corpus[i].text \in Stored /\ corpus[i] \in Range(corpus)
    BY <1>1 DEF Stored, Range
  <2>2. \A r \in Range(corpus) : r.text = corpus[i].text => r = corpus[i]
    <3>1. ASSUME NEW j \in 1..n, corpus[j].text = corpus[i].text PROVE j = i
      BY <1>4, <3>1
    <3> QED BY <1>1, <3>1 DEF Range
  <2>3. (CHOOSE r \in Range(corpus) : r.text = corpus[i].text) = corpus[i]
    BY <2>1, <2>2
  <2> QED BY <1>2, <2>1, <2>3
<1>6. PICK i \in 1..n : corpus[i].doc_id = doc
  BY <1>1 DEF Known
<1>7. ASSUME NEW u \in DOMAIN labels, u # corpus[i].text PROVE labels[u] # doc
  <2>1. PICK j \in 1..n : corpus[j].text = u
    BY <1>1, <1>2, <1>7 DEF Stored
  <2>2. j # i
    BY <1>7, <2>1
  <2>3. corpus[j].doc_id # corpus[i].doc_id
    BY <1>4, <2>2
  <2> QED BY <1>5, <1>6, <2>1, <2>3
<1> QED BY <1>5, <1>6, <1>7

\* Once the searches begin every label a query may name stands for one stored document
\* (validate_dataset and ingest_corpus), for a corpus file of any length.
THEOREM LabelsReachable == EvalSpec => []EveryLabelReachable
<1>1. EvalInit => LabelInv
  BY DEF EvalInit, LabelInv
<1> QED BY <1>1, LabelStep, Reachable, PTL DEF EvalSpec

-----------------------------------------------------------------------------
(* Types.                                                                  *)

LEMMA Elements ==
    ASSUME NEW S, NEW T, NEW s \in Seq(S)
    PROVE  /\ \A i \in DOMAIN s : s[i] \in S
           /\ (\A i \in DOMAIN s : s[i] \in T) => s \in Seq(T)
OBVIOUS

LEMMA LabelsTyped ==
    ASSUME LabelInv, stage \in {"idle", "search"}
    PROVE  /\ labels \in [Stored -> DocId]
           /\ Stored \subseteq Text
<1>1. DOMAIN corpus = 1..CorpusSize /\ \A i \in 1..CorpusSize :
                       corpus[i].text \in Text /\ corpus[i].doc_id \in DocId
  BY DEF LabelInv
<1>2. labels = [t \in Stored |-> (CHOOSE r \in Range(corpus) : r.text = t).doc_id]
  BY DEF LabelInv
<1>3. ASSUME NEW t \in Stored
      PROVE  t \in Text /\ (CHOOSE r \in Range(corpus) : r.text = t).doc_id \in DocId
  <2>1. PICK i \in 1..CorpusSize : corpus[i].text = t
    BY <1>1 DEF Stored
  <2>2. \E r \in Range(corpus) : r.text = t
    BY <1>1, <2>1 DEF Range
  <2>3. \A r \in Range(corpus) : r.doc_id \in DocId
    BY <1>1 DEF Range
  <2> QED BY <1>1, <2>1, <2>2, <2>3
<1> QED BY <1>2, <1>3

Rows(n) == {p \in (1..n) \X (1..n) : p[1] < p[2]}

\* Each document once, at the rank of its first chunk.
LEMMA DocumentsOnce ==
    ASSUME labels \in [Stored -> DocId], owner \in [Chunk -> Stored],
           NEW chunks \in Seq(Chunk)
    PROVE  /\ DocIdsInRankOrder(chunks) \in Seq(DocId)
           /\ IsInjective(DocIdsInRankOrder(chunks))
           /\ Len(DocIdsInRankOrder(chunks)) <= Len(chunks)
<1> DEFINE n == Len(chunks)
           Doc(i) == labels[owner[chunks[i]]]
           firsts == {i \in 1..n : \A j \in 1..(i - 1) : Doc(j) # Doc(i)}
           m == Cardinality(firsts)
           First(k) == CHOOSE i \in firsts : Cardinality({j \in firsts : j < i}) = k - 1
           docs == [k \in 1..m |-> Doc(First(k))]
<1>1. n \in Nat /\ DOMAIN chunks = 1..n /\ \A i \in 1..n : Doc(i) \in DocId
  OBVIOUS
<1>2. DocIdsInRankOrder(chunks) = docs
  BY <1>1 DEF DocIdsInRankOrder
<1>3. firsts \in SUBSET (1..n) /\ \A i \in firsts, j \in firsts : i < j => Doc(i) # Doc(j)
  BY <1>1
<1> HIDE DEF Doc, firsts
<1>4. IsFiniteSet(firsts) /\ m \in Nat /\ m <= n
  <2>1. IsFiniteSet(1..n) /\ Cardinality(1..n) = n
    BY <1>1, FS_Interval
  <2>2. IsFiniteSet(firsts) /\ Cardinality(firsts) <= Cardinality(1..n)
    BY Zenon, <1>3, <2>1, FS_Subset
  <2>3. Cardinality(firsts) \in Nat
    BY Zenon, <2>2, FS_CardinalityType
  <2> QED BY <2>1, <2>2, <2>3
<1>5. StrictTotal(firsts, Rows(n))
  BY <1>1, <1>3 DEF StrictTotal, Rows
<1>6. \A i \in firsts : Below(firsts, Rows(n), i) = {j \in firsts : j < i}
  BY <1>1, <1>3 DEF Below, Rows
<1>7. ASSUME NEW k \in 1..m
      PROVE  First(k) \in firsts /\ Cardinality({j \in firsts : j < First(k)}) = k - 1
  <2>1. \E i \in firsts : Cardinality(Below(firsts, Rows(n), i)) = k - 1
    BY <1>4, <1>5, RankOnto
  <2> QED BY <1>6, <2>1
<1> HIDE DEF First
<1>8. ASSUME NEW k \in 1..m, NEW l \in 1..m, docs[k] = docs[l]
      PROVE  k = l
  <2>1. First(k) \in firsts /\ First(l) \in firsts /\ Doc(First(k)) = Doc(First(l))
    BY <1>7, <1>8
  <2>2. First(k) = First(l)
    <3>1. ~(First(k) < First(l)) /\ ~(First(l) < First(k))
      BY Zenon, <1>3, <2>1
    <3>2. First(k) \in 1..n /\ First(l) \in 1..n
      BY <1>3, <2>1
    <3> QED BY <1>1, <3>1, <3>2
  <2>3. k - 1 = l - 1
    BY <1>7, <2>2
  <2> QED BY <1>4, <2>3
<1>9. docs \in [1..m -> DocId]
  BY <1>1, <1>3, <1>7
<1>10. docs \in Seq(DocId) /\ Len(docs) = m /\ DOMAIN docs = 1..m
  BY <1>4, <1>9
<1> QED BY <1>2, <1>4, <1>8, <1>10 DEF IsInjective

Ranked == {s \in Seq(DocId) : Len(s) <= Limit /\ IsInjective(s)}

SuiteTyped ==
    /\ at # SearchOver => result = <<>>
    /\ stage \in {"validate", "ingest", "idle", "search", "error"}
    /\ stage \in {"idle", "search"} => owner \in [Chunk -> Stored]
    /\ stage \notin {"idle", "search"} => labels = <<>> /\ owner = <<>> /\ cases = <<>>
    /\ cases \in Seq([retrieved : Ranked, relevant : Relevances])
    /\ Len(cases) <= MaxCases
    /\ stage = "search" => Len(cases) < MaxCases

LEMMA SuiteTypedStep ==
    SuiteInv /\ LabelInv /\ SuiteTyped /\ [EvalNext]_allVars => SuiteTyped'
<1> SUFFICES ASSUME SuiteInv, LabelInv, SuiteTyped, [EvalNext]_allVars
             PROVE  SuiteTyped'
  OBVIOUS
<1>1. corpus' = corpus
  BY DEF EvalNext, ValidateDataset, IngestCorpus, Search, RecordCase, evalVars, allVars
<1>2. Stored' = Stored /\ Relevances' = Relevances
  BY <1>1 DEF Stored, Relevances, Known
<1>3. CASE ValidateDataset
  <2>1. /\ stage = "validate" /\ stage' \in {"ingest", "error"}
        /\ UNCHANGED <<at, result, labels, owner, cases>>
    BY <1>3 DEF ValidateDataset, vars
  <2> QED BY <1>2, <2>1 DEF SuiteTyped, SearchOver
<1>4. CASE IngestCorpus
  <2>1. /\ stage = "ingest" /\ UNCHANGED <<at, result, cases>>
        /\ \/ stage' = "idle" /\ owner' \in [Chunk -> Stored]
           \/ stage' = "error" /\ UNCHANGED <<labels, owner>>
    BY <1>4 DEF IngestCorpus, vars, Stored
  <2> QED BY <1>2, <2>1 DEF SuiteTyped, SearchOver
<1>5. CASE Search
  <2>1. /\ stage = "idle" /\ stage' = "search" /\ Len(cases) < MaxCases
        /\ UNCHANGED <<result, labels, owner, cases>>
    BY <1>5 DEF Search
  <2>2. result = <<>>
    BY <2>1 DEF SuiteInv, NoSearch
  <2> QED BY <1>2, <2>1, <2>2 DEF SuiteTyped
<1>6. CASE Next /\ UNCHANGED evalVars
  <2>1. UNCHANGED <<stage, labels, owner, cases>>
    BY <1>6 DEF evalVars
  <2>2. at' # SearchOver => result' = <<>>
    BY <1>6 DEF Next, AddHit, NextList, Return, SearchOver, SuiteTyped
  <2> QED BY <1>2, <2>1, <2>2 DEF SuiteTyped
<1>7. CASE RecordCase
  <2>1. /\ stage = "search" /\ at = SearchOver /\ stage' = "idle"
        /\ UNCHANGED <<at, labels, owner>>
    BY <1>7 DEF RecordCase
  <2>2. PICK rel \in Relevances :
           cases' = Append(cases, [retrieved |-> DocIdsInRankOrder(result), relevant |-> rel])
    BY <1>7 DEF RecordCase
  <2>3. result \in Seq(Chunk) /\ Len(result) <= Limit /\ Len(result) \in Nat
    <3>1. FusionInv
      BY <2>1 DEF SuiteInv
    <3>2. /\ result \in Seq(Merged) /\ Len(result) = Least(Limit, Cardinality(Found))
          /\ Len(result) \in Nat /\ Cardinality(Found) \in Nat /\ Merged \subseteq Chunk
      BY <2>1, <3>1, ResultFacts, OrderFacts, SeenFacts, FS_CardinalityType
         DEF FusionInv, Merged
    <3>3. result \in Seq(Chunk)
      BY Zenon, <3>2, Elements
    <3> QED BY <3>2, <3>3, RankFusionAssumption DEF Least
  <2>4. DocIdsInRankOrder(result) \in Ranked
    <3>1. labels \in [Stored -> DocId] /\ owner \in [Chunk -> Stored]
      BY <2>1, LabelsTyped DEF SuiteTyped
    <3>2. /\ DocIdsInRankOrder(result) \in Seq(DocId)
          /\ IsInjective(DocIdsInRankOrder(result))
          /\ Len(DocIdsInRankOrder(result)) <= Len(result)
      BY <2>3, <3>1, DocumentsOnce
    <3>3. Len(DocIdsInRankOrder(result)) \in Nat
      BY <3>2
    <3> QED BY <2>3, <3>2, <3>3, RankFusionAssumption DEF Ranked
  <2>5. [retrieved |-> DocIdsInRankOrder(result), relevant |-> rel]
            \in [retrieved : Ranked, relevant : Relevances]
    BY <2>4
  <2>6. /\ cases' \in Seq([retrieved : Ranked, relevant : Relevances])
        /\ Len(cases') = Len(cases) + 1 /\ Len(cases) \in Nat /\ Len(cases) < MaxCases
    BY <2>1, <2>2, <2>5 DEF SuiteTyped
  <2>7. Len(cases') <= MaxCases
    BY <2>6, RetrievalEvalAssumption
  <2> QED BY <1>2, <2>1, <2>6, <2>7 DEF SuiteTyped
<1>8. CASE UNCHANGED allVars
  <2>1. UNCHANGED <<at, result, stage, labels, owner, cases>>
    BY <1>8 DEF allVars, vars, evalVars
  <2> QED BY <1>2, <2>1 DEF SuiteTyped, SearchOver
<1> QED BY <1>3, <1>4, <1>5, <1>6, <1>7, <1>8 DEF EvalNext

LEMMA FusionTyped == SuiteInv /\ SuiteTyped => TypeOK
<1> SUFFICES ASSUME SuiteInv, SuiteTyped PROVE TypeOK
  OBVIOUS
<1>1. ASSUME NoSearch PROVE TypeOK
  <2>1. <<>> \in Ranking
    <3>1. 0 \in 0..Candidates /\ <<>> \in [1..0 -> Chunk] /\ IsInjective(<<>>)
      BY RankFusionAssumption DEF IsInjective
    <3> QED BY <3>1 DEF Ranking
  <2> QED BY <1>1, <2>1
          DEF NoSearch, TypeOK, VectorHits, KeywordChunks, SearchOver, Range
<1>2. ASSUME FusionInv PROVE TypeOK
  <2>1. lists \in VectorHits \X KeywordChunks /\ order \in Seq(Chunk)
    BY <1>2 DEF FusionInv, VectorHits, KeywordChunks
  <2>2. at \in (1..4) \X Nat
    <3>1. Len(lists[1]) \in Nat /\ Len(lists[2]) \in Nat
      BY <1>2, ListFacts DEF FusionInv
    <3> QED BY <1>2, <3>1 DEF FusionInv, AtOK, SearchOver
  <2>3. Merged \subseteq Chunk
    BY <1>2, SeenFacts DEF FusionInv, Merged
  <2>4. DOMAIN scores \subseteq Chunk /\ Range(scores) \subseteq Nat \X Nat
    BY <1>2, <2>3, ScoreTypes DEF Range, Fraction
  <2>5. DOMAIN origin \subseteq Chunk /\ Range(origin) \subseteq {1, 2}
    BY <1>2, <2>3 DEF FusionInv, Range
  <2>6. result \in Seq(Chunk)
    <3>1. CASE at = SearchOver
      <4>1. result \in Seq(Merged)
        BY <1>2, <3>1, ResultFacts
      <4> QED BY Zenon, <2>3, <4>1, Elements
    <3>2. CASE at # SearchOver
      <4>1. result = <<>>
        BY <3>2 DEF SuiteTyped
      <4> QED BY <4>1
    <3> QED BY <3>1, <3>2
  <2> QED BY <2>1, <2>2, <2>4, <2>5, <2>6 DEF TypeOK
<1> QED BY <1>1, <1>2 DEF SuiteInv

LEMMA InitTyped == EvalInit => LabelInv /\ SuiteTyped
<1> SUFFICES ASSUME EvalInit PROVE LabelInv /\ SuiteTyped
  OBVIOUS
<1>1. /\ <<>> \in Seq([retrieved : Ranked, relevant : Relevances])
      /\ Len(<<>>) <= MaxCases
  BY RetrievalEvalAssumption
<1> QED BY <1>1 DEF EvalInit, LabelInv, SuiteTyped

\* Type correctness.  In particular no ranking that is scored names a document twice
\* or is longer than k (_doc_ids_in_rank_order), and no case has a label that the
\* corpus lacks (validate_dataset).
THEOREM CasesWellFormed == EvalSpec => []EvalTypeOK
<1>1. EvalInit => LabelInv /\ SuiteTyped
  BY InitTyped
<1>2. SuiteInv /\ LabelInv /\ SuiteTyped => EvalTypeOK
  <2> SUFFICES ASSUME SuiteInv, LabelInv, SuiteTyped PROVE EvalTypeOK
    OBVIOUS
  <2>1. TypeOK
    BY FusionTyped
  <2>2. /\ DOMAIN labels \subseteq Text /\ Range(labels) \subseteq DocId
        /\ DOMAIN owner \subseteq Chunk /\ Range(owner) \subseteq Text
    <3>1. CASE stage \in {"idle", "search"}
      BY <3>1, LabelsTyped DEF SuiteTyped, Range
    <3>2. CASE stage \notin {"idle", "search"}
      BY <3>2 DEF SuiteTyped, Range
    <3> QED BY <3>1, <3>2
  <2>3. ASSUME NEW i \in DOMAIN cases
        PROVE  /\ Len(cases[i].retrieved) <= Limit /\ IsInjective(cases[i].retrieved)
               /\ Range(cases[i].retrieved) \subseteq DocId
               /\ cases[i].relevant \in Relevances
    <3>1. cases[i] \in [retrieved : Ranked, relevant : Relevances]
      BY Zenon, <2>3, Elements DEF SuiteTyped
    <3>2. cases[i].retrieved \in Ranked /\ cases[i].relevant \in Relevances
      BY <3>1
    <3> QED BY <3>2 DEF Ranked, Range
  <2> QED BY <2>1, <2>2, <2>3 DEF EvalTypeOK, SuiteTyped
<1> QED BY <1>1, <1>2, LabelStep, SuiteTypedStep, SuiteHolds, PTL DEF EvalSpec

-----------------------------------------------------------------------------
(* The means.                                                              *)

ScoredCase == [retrieved : Ranked, relevant : Relevances]

\* A list has at most as many elements as places, and as many if none is there twice.
LEMMA RangeSize ==
    ASSUME NEW s, NEW n \in Nat, DOMAIN s = 1..n
    PROVE  /\ IsFiniteSet(Range(s)) /\ Cardinality(Range(s)) \in Nat
           /\ Cardinality(Range(s)) <= n
           /\ Cardinality(Range(s)) = n <=> IsInjective(s)
<1>1. IsFiniteSet(1..n) /\ Cardinality(1..n) = n
  BY FS_Interval
<1> DEFINE f == [i \in 1..n |-> s[i]]
<1>2. f \in Surjection(1..n, Range(s))
  BY DEF Surjection, Range
<1>3. f \in Injection(1..n, Range(s)) <=> IsInjective(s)
  BY DEF Injection, IsInjective, Range
<1> HIDE DEF f
<1>4. /\ IsFiniteSet(Range(s)) /\ Cardinality(Range(s)) <= Cardinality(1..n)
      /\ Cardinality(Range(s)) = Cardinality(1..n) <=> f \in Injection(1..n, Range(s))
  BY <1>1, <1>2, FS_Surjection
<1> QED BY <1>1, <1>3, <1>4, FS_CardinalityType

\* What a case has: its list of labels, and its ranking within the first k.
LEMMA CaseFacts ==
    ASSUME NEW case \in ScoredCase
    PROVE  \E n \in Nat :
              /\ DOMAIN case.relevant = 1..n /\ Len(case.relevant) = n
              /\ case.relevant = <<>> <=> n = 0
              /\ TopK(case.retrieved) = case.retrieved
              /\ IsFiniteSet(Hits(case)) /\ Cardinality(Hits(case)) \in Nat
              /\ Hits(case) \subseteq Range(case.relevant)
              /\ Cardinality(Hits(case)) <= Limit
<1>1. PICK n \in Nat : case.relevant \in [1..n -> Known]
  BY RetrievalEvalAssumption DEF ScoredCase, Relevances
<1>2. PICK r \in Seq(DocId) : r = case.retrieved /\ Len(r) <= Limit
  BY DEF ScoredCase, Ranked
<1>3. PICK m \in Nat : m = Len(r)
  OBVIOUS
<1>4. TopK(r) = r
  <2>1. Least(Limit, m) = m
    BY <1>2, <1>3, RankFusionAssumption DEF Least
  <2>2. SubSeq(r, 1, m) = r
    BY <1>3
  <2> QED BY <1>3, <2>1, <2>2 DEF TopK
<1>5. IsFiniteSet(Range(r)) /\ Cardinality(Range(r)) \in Nat /\ Cardinality(Range(r)) <= m
  <2>1. DOMAIN r = 1..m
    BY <1>3
  <2> QED BY <2>1, RangeSize
<1>6. Hits(case) = Range(r) \cap Range(case.relevant)
  BY <1>2, <1>4 DEF Hits
<1>7. PICK H : H = Hits(case)
  OBVIOUS
<1>8. IsFiniteSet(H) /\ Cardinality(H) \in Nat /\ Cardinality(H) <= Cardinality(Range(r))
  <2>1. H \in SUBSET Range(r)
    BY <1>6, <1>7
  <2> QED BY <1>5, <2>1, FS_Subset, FS_CardinalityType
<1>9. Cardinality(H) <= Limit
  BY <1>2, <1>3, <1>5, <1>8, RankFusionAssumption
<1>10. Len(case.relevant) = n /\ (case.relevant = <<>> <=> n = 0)
  <2>1. PICK l : l = case.relevant
    OBVIOUS
  <2>2. l \in [1..n -> Known] /\ DOMAIN l = 1..n
    BY <1>1, <2>1
  <2>3. l \in Seq(Known) /\ Len(l) = n
    BY <2>2
  <2> QED BY <2>1, <2>3
<1> QED BY <1>1, <1>2, <1>4, <1>6, <1>7, <1>8, <1>9, <1>10

\* Recall is at most 1, and 1 only without a miss and without a repeated label.
LEMMA RecallFacts ==
    ASSUME NEW case \in ScoredCase
    PROVE  LET f == RecallAtK(case)
           IN  /\ f \in Ratio /\ f[1] <= f[2] /\ f[2] > 0
               /\ f[1] = f[2] <=> MissedDocIds(case) = {} /\ IsInjective(case.relevant)
<1>1. PICK n \in Nat :
        /\ DOMAIN case.relevant = 1..n /\ Len(case.relevant) = n
        /\ case.relevant = <<>> <=> n = 0
        /\ TopK(case.retrieved) = case.retrieved
        /\ IsFiniteSet(Hits(case)) /\ Cardinality(Hits(case)) \in Nat
        /\ Hits(case) \subseteq Range(case.relevant)
  BY CaseFacts
<1>2. CASE n = 0
  <2>1. RecallAtK(case) = <<1, 1>>
    BY <1>1, <1>2 DEF RecallAtK
  <2>2. Range(case.relevant) = {} /\ IsInjective(case.relevant)
    BY <1>1, <1>2 DEF Range, IsInjective
  <2> QED BY <2>1, <2>2 DEF Ratio, MissedDocIds
<1>3. CASE n # 0
  <2>1. PICK h \in Nat : h = Cardinality(Hits(case))
    BY <1>1
  <2>2. RecallAtK(case) = <<h, n>>
    BY <1>1, <1>3, <2>1 DEF RecallAtK
  <2>3. PICK R : R = Range(case.relevant)
    OBVIOUS
  <2>4. /\ IsFiniteSet(R) /\ Cardinality(R) \in Nat /\ Cardinality(R) <= n
        /\ Cardinality(R) = n <=> IsInjective(case.relevant)
    BY <1>1, <2>3, RangeSize
  <2>5. h <= Cardinality(R) /\ (h = Cardinality(R) <=> Hits(case) = R)
    <3>1. Hits(case) \in SUBSET R
      BY <1>1, <2>3
    <3>2. h <= Cardinality(R) /\ (h = Cardinality(R) => Hits(case) = R)
      BY <2>1, <2>4, <3>1, FS_Subset
    <3> QED BY <2>1, <3>2
  <2>6. Hits(case) = R <=> MissedDocIds(case) = {}
    BY <1>1, <2>3 DEF Hits, MissedDocIds
  <2>7. h <= n /\ (h = n <=> MissedDocIds(case) = {} /\ IsInjective(case.relevant))
    BY <2>4, <2>5, <2>6
  <2> QED BY <1>3, <2>2, <2>7 DEF Ratio
<1> QED BY <1>2, <1>3

\* The other scores of a case, and how they compare.
LEMMA ScoresOfCase ==
    ASSUME NEW case \in ScoredCase
    PROVE  LET hit == Hit(case)
               rr == ReciprocalRank(case)
               pr == PrecisionAtK(case)
           IN  /\ hit \in Ratio /\ hit[1] <= hit[2] /\ hit[2] > 0
               /\ hit[1] = hit[2] <=> Hits(case) # {}
               /\ rr \in Ratio /\ rr[1] * hit[2] <= 1 * (hit[1] * rr[2])
               /\ pr \in Ratio /\ pr[1] <= pr[2]
               /\ hit[1] * pr[2] <= Limit * (pr[1] * hit[2])
<1>1. /\ TopK(case.retrieved) = case.retrieved
      /\ IsFiniteSet(Hits(case)) /\ Cardinality(Hits(case)) \in Nat
      /\ Cardinality(Hits(case)) <= Limit
  BY CaseFacts
<1>2. PICK h \in Nat : h = Cardinality(Hits(case)) /\ h <= Limit
  BY <1>1
<1>3. h = 0 <=> Hits(case) = {}
  BY <1>1, <1>2, FS_EmptySet
<1>4. Limit \in Nat /\ PrecisionAtK(case) = <<h, Limit>>
  BY <1>2, RankFusionAssumption DEF PrecisionAtK
<1>5. Hit(case) = IF h = 0 THEN <<0, 1>> ELSE <<1, 1>>
  BY <1>3 DEF Hit
<1> DEFINE ranks == {i \in DOMAIN case.retrieved : case.retrieved[i] \in Range(case.relevant)}
<1>6. ranks # {} => h # 0
  <2>1. \A i \in ranks : case.retrieved[i] \in Hits(case)
    BY <1>1 DEF Hits, Range
  <2> QED BY <1>3, <2>1
<1>7. ranks \subseteq Nat \ {0}
  <2>1. PICK r \in Seq(DocId) : r = case.retrieved
    BY DEF ScoredCase, Ranked
  <2> QED BY <2>1
<1>8. ReciprocalRank(case) = IF ranks = {} THEN <<0, 1>>
                             ELSE <<1, CHOOSE i \in ranks : \A j \in ranks : i <= j>>
  BY <1>1 DEF ReciprocalRank
<1> HIDE DEF ranks
<1>9. ranks # {} => \E i \in ranks : \A j \in ranks : i <= j
  <2>1. ranks \subseteq Nat
    BY <1>7
  <2> QED BY <2>1, LeastNumber
<1>10. PICK q \in Nat \ {0} :
         ReciprocalRank(case) = IF ranks = {} THEN <<0, 1>> ELSE <<1, q>>
  <2>1. CASE ranks = {}
    BY <1>8, <2>1
  <2>2. CASE ranks # {}
    <3>1. (CHOOSE i \in ranks : \A j \in ranks : i <= j) \in ranks
      BY <1>9, <2>2
    <3> QED BY <1>7, <1>8, <2>2, <3>1
  <2> QED BY <2>1, <2>2
<1>11. CASE h = 0
  <2>1. Hit(case) = <<0, 1>> /\ ReciprocalRank(case) = <<0, 1>>
    BY <1>5, <1>6, <1>10, <1>11
  <2> QED BY <1>3, <1>4, <1>11, <2>1 DEF Ratio
<1>12. CASE h # 0
  <2>1. Hit(case) = <<1, 1>>
    BY <1>5, <1>12
  <2>2. ReciprocalRank(case) \in Ratio /\ ReciprocalRank(case)[1] * 1
                                             <= 1 * (1 * ReciprocalRank(case)[2])
    BY <1>10 DEF Ratio
  <2>3. 1 * Limit <= Limit * (h * 1)
    <3>1. Limit * 1 <= Limit * h
      BY <1>4, <1>12, Monotone
    <3> QED BY <1>4, <3>1
  <2> QED BY <1>2, <1>3, <1>4, <1>12, <2>1, <2>2, <2>3 DEF Ratio
<1> QED BY <1>11, <1>12

\* A mean is the recursive sum of its values over their number.
LEMMA MeanIsSum ==
    ASSUME NEW D, IsFiniteSet(D), D # {}, NEW f, DOMAIN f = D, \A x \in D : f[x] \in Ratio
    PROVE  \E g : /\ SumsUp(g, f, D, AnyFirst(D)) /\ g[D] \in Ratio
                  /\ Mean(f) = <<g[D][1], g[D][2] * Cardinality(D)>>
<1>1. PICK g :
        /\ SumsUp(g, f, DOMAIN f, AnyFirst(DOMAIN f))
        /\ g = CHOOSE k : k = [s \in SUBSET DOMAIN f |->
                                IF s = {} THEN <<0, 1>>
                                ELSE FractionPlus(f[CHOOSE x \in s : TRUE],
                                                  k[s \ {CHOOSE x \in s : TRUE}])]
  BY FractionTotalIsSum
<1>2. FoldFunction(Plus, <<0, 1>>, f) = g[DOMAIN f]
  BY Zenon, <1>1 DEF FoldFunction, FoldFunctionOnSet, MapThenFoldSet, Plus, FractionPlus
<1>3. Mean(f) = <<FoldFunction(Plus, <<0, 1>>, f)[1],
                  FoldFunction(Plus, <<0, 1>>, f)[2] * Cardinality(DOMAIN f)>>
  BY Zenon DEF Mean
<1>4. Mean(f) = <<g[D][1], g[D][2] * Cardinality(D)>>
  BY Zenon, <1>2, <1>3
<1>5. SumsUp(g, f, D, AnyFirst(D))
  BY Zenon, <1>1
<1>6. g[D] \in Ratio
  <2>1. AddsUp(g, f, D, AnyFirst(D))
    BY <1>5, FractionSumAt
  <2>2. D \in SUBSET D
    OBVIOUS
  <2> QED BY Zenon, <2>1, <2>2 DEF AddsUp
<1> QED BY <1>4, <1>5, <1>6

\* A mean of values of at most 1 is at most 1 ...
LEMMA MeanAtMostOne ==
    ASSUME NEW D, IsFiniteSet(D), D # {}, NEW f, DOMAIN f = D,
           \A x \in D : f[x] \in Ratio /\ f[x][1] <= f[x][2]
    PROVE  AtMost(Mean(f), <<1, 1>>)
<1>1. PICK g : /\ SumsUp(g, f, D, AnyFirst(D)) /\ g[D] \in Ratio
               /\ Mean(f) = <<g[D][1], g[D][2] * Cardinality(D)>>
  BY MeanIsSum
<1>2. PICK n \in Nat : n = Cardinality(D)
  BY FS_CardinalityType
<1>3. PICK A \in Nat, B \in Nat : A = g[D][1] /\ B = g[D][2]
  BY <1>1 DEF Ratio
<1>4. g[D][1] <= Cardinality(D \ {}) * g[D][2]
  <2>1. PICK M : M = {}
    OBVIOUS
  <2>2. /\ \A x \in D : f[x][1] <= f[x][2]
        /\ \A x \in D : x \in M => f[x][1] = 0
    BY <2>1
  <2> QED BY <1>1, <2>1, <2>2, SharesBound
<1>5. A <= n * B
  <2>1. D \ {} = D
    OBVIOUS
  <2> QED BY Zenon, <1>2, <1>3, <1>4, <2>1
<1>6. Mean(f) = <<A, B * n>>
  BY Zenon, <1>1, <1>2, <1>3
<1>7. A <= B * n
  BY <1>5
<1> QED BY <1>6, <1>7 DEF AtMost, Less

\* ... and less than 1 exactly if one of them is.
LEMMA MeanBelowOne ==
    ASSUME NEW D, IsFiniteSet(D), D # {}, NEW f, DOMAIN f = D,
           \A x \in D : f[x] \in Ratio /\ f[x][1] <= f[x][2] /\ f[x][2] > 0
    PROVE  Less(Mean(f), <<1, 1>>) <=> \E x \in D : f[x][1] # f[x][2]
<1>1. PICK g : /\ SumsUp(g, f, D, AnyFirst(D)) /\ g[D] \in Ratio
               /\ Mean(f) = <<g[D][1], g[D][2] * Cardinality(D)>>
  BY MeanIsSum
<1>2. PICK n \in Nat : n = Cardinality(D)
  BY FS_CardinalityType
<1>3. PICK A \in Nat, B \in Nat : A = g[D][1] /\ B = g[D][2]
  BY <1>1 DEF Ratio
<1>4. /\ g[D][1] <= Cardinality(D) * g[D][2]
      /\ g[D][1] = Cardinality(D) * g[D][2] <=> \A x \in D : f[x][1] = f[x][2]
  BY <1>1, AllSharesFull
<1>5. A <= n * B /\ (A = n * B <=> \A x \in D : f[x][1] = f[x][2])
  BY Zenon, <1>2, <1>3, <1>4
<1>6. Mean(f) = <<A, B * n>>
  BY Zenon, <1>1, <1>2, <1>3
<1>7. Less(Mean(f), <<1, 1>>) <=> A # n * B
  <2>1. PICK p \in Nat : p = n * B
    OBVIOUS
  <2>2. B * n = p
    BY <2>1
  <2>3. Less(Mean(f), <<1, 1>>) <=> A * 1 < 1 * p
    BY <1>6, <2>2 DEF Less
  <2> QED BY <1>5, <2>1, <2>3
<1> QED BY <1>5, <1>7

\* Means of as many values compare as the values do, one by one.
LEMMA MeansCompared ==
    ASSUME NEW D, IsFiniteSet(D), D # {},
           NEW f, DOMAIN f = D, \A x \in D : f[x] \in Ratio,
           NEW e, DOMAIN e = D, \A x \in D : e[x] \in Ratio,
           NEW L \in Nat, \A x \in D : f[x][1] * e[x][2] <= L * (e[x][1] * f[x][2])
    PROVE  AtMost(Mean(f), <<L * Mean(e)[1], Mean(e)[2]>>)
<1>1. PICK g : /\ SumsUp(g, f, D, AnyFirst(D)) /\ g[D] \in Ratio
               /\ Mean(f) = <<g[D][1], g[D][2] * Cardinality(D)>>
  BY MeanIsSum
<1>2. PICK h : /\ SumsUp(h, e, D, AnyFirst(D)) /\ h[D] \in Ratio
               /\ Mean(e) = <<h[D][1], h[D][2] * Cardinality(D)>>
  BY MeanIsSum
<1>3. PICK n \in Nat : n = Cardinality(D)
  BY FS_CardinalityType
<1>4. PICK A \in Nat, B \in Nat : A = g[D][1] /\ B = g[D][2]
  BY <1>1 DEF Ratio
<1>5. PICK C \in Nat, E \in Nat : C = h[D][1] /\ E = h[D][2]
  BY <1>2 DEF Ratio
<1>6. A * E <= L * (C * B)
  <2>1. g[D][1] * h[D][2] <= L * (h[D][1] * g[D][2])
    <3>1. SumsUp(g, f, D, AnyFirst(D)) /\ SumsUp(h, e, D, AnyFirst(D))
      BY <1>1, <1>2
    <3> QED BY Zenon, <3>1, SumsCompared
  <2> QED BY Zenon, <1>4, <1>5, <2>1
<1>7. Mean(f) = <<A, B * n>> /\ Mean(e) = <<C, E * n>>
  BY Zenon, <1>1, <1>2, <1>3, <1>4, <1>5
<1>8. n * (A * E) <= n * (L * (C * B))
  BY <1>6, Monotone
<1>9. A * (E * n) <= (L * C) * (B * n)
  BY <1>8
<1>10. PICK x \in Nat : x = A * (E * n)
  OBVIOUS
<1>11. PICK y \in Nat : y = (L * C) * (B * n)
  OBVIOUS
<1>12. ~Less(<<L * C, E * n>>, <<A, B * n>>)
  BY <1>9, <1>10, <1>11 DEF Less
<1> QED BY <1>7, <1>12 DEF AtMost

\* The scores of a suite, by MeansExplained's own names.
LEMMA SuiteExplained ==
    ASSUME NEW suite \in Seq(ScoredCase), \E i \in DOMAIN suite : suite[i].relevant # <<>>
    PROVE  LET metrics == AggregateRetrieval(suite)
               answered == {i \in DOMAIN suite : suite[i].relevant # <<>>}
           IN  /\ Less(metrics.recall, <<1, 1>>)
                    <=> \/ FailingCases(suite) # {}
                        \/ \E i \in DOMAIN suite : ~IsInjective(suite[i].relevant)
               /\ Less(metrics.hitRate, <<1, 1>>) <=> \E i \in answered : Hits(suite[i]) = {}
               /\ AtMost(metrics.mrr, metrics.hitRate)
               /\ AtMost(metrics.hitRate, <<Limit * metrics.precision[1], metrics.precision[2]>>)
               /\ AtMost(metrics.precision, <<1, 1>>)
<1>1. PICK D : D = DOMAIN suite
  OBVIOUS
<1>2. PICK A : A = Answerable(suite)
  OBVIOUS
<1>3. A = {i \in DOMAIN suite : suite[i].relevant # <<>>}
  BY <1>2 DEF Answerable
<1>4. /\ IsFiniteSet(D) /\ D # {} /\ IsFiniteSet(A) /\ A # {} /\ A \in SUBSET D
      /\ \A i \in D : suite[i] \in ScoredCase
  <2>1. PICK n \in Nat : n = Len(suite)
    OBVIOUS
  <2>2. D = 1..n /\ IsFiniteSet(1..n)
    BY <1>1, <2>1, FS_Interval
  <2>3. A \in SUBSET D /\ A # {} /\ D # {}
    BY <1>1, <1>3
  <2>4. IsFiniteSet(D) /\ IsFiniteSet(A)
    BY <2>2, <2>3, FS_Subset
  <2>5. \A i \in D : suite[i] \in ScoredCase
    BY <1>1
  <2> QED BY <2>3, <2>4, <2>5
<1>5. PICK rec : rec = [i \in D |-> RecallAtK(suite[i])]
  OBVIOUS
<1>6. PICK pre : pre = [i \in A |-> PrecisionAtK(suite[i])]
  OBVIOUS
<1>7. PICK rr : rr = [i \in A |-> ReciprocalRank(suite[i])]
  OBVIOUS
<1>8. PICK hit : hit = [i \in A |-> Hit(suite[i])]
  OBVIOUS
<1>9. PICK metrics : metrics = AggregateRetrieval(suite)
  OBVIOUS
<1>10. /\ metrics.recall = Mean(rec) /\ metrics.precision = Mean(pre)
       /\ metrics.mrr = Mean(rr) /\ metrics.hitRate = Mean(hit)
  BY <1>1, <1>2, <1>5, <1>6, <1>7, <1>8, <1>9 DEF AggregateRetrieval
<1>11. ASSUME NEW i \in D
       PROVE  /\ rec[i] \in Ratio /\ rec[i][1] <= rec[i][2] /\ rec[i][2] > 0
              /\ rec[i][1] = rec[i][2] <=>
                    MissedDocIds(suite[i]) = {} /\ IsInjective(suite[i].relevant)
  BY <1>4, <1>5, RecallFacts
<1>12. ASSUME NEW i \in A
       PROVE  /\ hit[i] \in Ratio /\ hit[i][1] <= hit[i][2] /\ hit[i][2] > 0
              /\ hit[i][1] = hit[i][2] <=> Hits(suite[i]) # {}
              /\ rr[i] \in Ratio /\ rr[i][1] * hit[i][2] <= 1 * (hit[i][1] * rr[i][2])
              /\ pre[i] \in Ratio /\ pre[i][1] <= pre[i][2]
              /\ hit[i][1] * pre[i][2] <= Limit * (pre[i][1] * hit[i][2])
  BY <1>4, <1>6, <1>7, <1>8, ScoresOfCase
<1>13. DOMAIN rec = D /\ DOMAIN pre = A /\ DOMAIN rr = A /\ DOMAIN hit = A
  BY <1>5, <1>6, <1>7, <1>8
<1>14. Less(Mean(rec), <<1, 1>>)
          <=> \/ FailingCases(suite) # {}
              \/ \E i \in DOMAIN suite : ~IsInjective(suite[i].relevant)
  <2>1. Less(Mean(rec), <<1, 1>>) <=> \E i \in D : rec[i][1] # rec[i][2]
    BY <1>4, <1>11, <1>13, MeanBelowOne
  <2>2. (\E i \in D : rec[i][1] # rec[i][2]) <=>
           \E i \in D : MissedDocIds(suite[i]) # {} \/ ~IsInjective(suite[i].relevant)
    BY <1>11
  <2> QED BY <1>1, <2>1, <2>2 DEF FailingCases
<1>15. Less(Mean(hit), <<1, 1>>) <=> \E i \in A : Hits(suite[i]) = {}
  <2>1. Less(Mean(hit), <<1, 1>>) <=> \E i \in A : hit[i][1] # hit[i][2]
    BY <1>4, <1>12, <1>13, MeanBelowOne
  <2> QED BY <1>12, <2>1
<1>16. AtMost(Mean(rr), Mean(hit))
  <2>1. AtMost(Mean(rr), <<1 * Mean(hit)[1], Mean(hit)[2]>>)
    BY <1>4, <1>12, <1>13, MeansCompared
  <2>2. PICK g : g[A] \in Ratio /\ Mean(hit) = <<g[A][1], g[A][2] * Cardinality(A)>>
    BY <1>4, <1>12, <1>13, MeanIsSum
  <2>3. Mean(hit)[1] \in Nat
    BY <2>2 DEF Ratio
  <2>4. <<1 * Mean(hit)[1], Mean(hit)[2]>> = Mean(hit)
    BY <2>2, <2>3
  <2> QED BY <2>1, <2>4
<1>17. AtMost(Mean(hit), <<Limit * Mean(pre)[1], Mean(pre)[2]>>)
  BY <1>4, <1>12, <1>13, MeansCompared, RankFusionAssumption
<1>18. AtMost(Mean(pre), <<1, 1>>)
  BY <1>4, <1>12, <1>13, MeanAtMostOne
<1> QED BY <1>3, <1>9, <1>10, <1>14, <1>15, <1>16, <1>17, <1>18

\* MeansExplained, for a suite of any length and any k: recall is below 1 exactly when a
\* case misses a label or names one twice, the hit rate exactly when an answerable query
\* found nothing; and reciprocal ranks, hits and precision bound each other.
THEOREM MeansTellCases == EvalSpec => []MeansExplained
<1>1. SuiteTyped => MeansExplained
  <2> SUFFICES ASSUME SuiteTyped, \E i \in DOMAIN cases : cases[i].relevant # <<>>
               PROVE  MeansExplained
    BY DEF MeansExplained
  <2>1. PICK suite \in Seq(ScoredCase) : suite = cases
    BY DEF SuiteTyped, ScoredCase
  <2> QED BY <2>1, SuiteExplained DEF MeansExplained
<1>2. EvalInit => LabelInv /\ SuiteTyped
  BY InitTyped
<1> QED BY <1>1, <1>2, LabelStep, SuiteTypedStep, SuiteHolds, PTL DEF EvalSpec
================================================================================
