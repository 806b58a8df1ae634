------------------------------ MODULE RankFusion ------------------------------
(***************************************************************************)
(* HybridRetriever.search (retrieval/hybrid.py): two ranked lists of       *)
(* chunks, the vector hits and the keyword hits, fused by Reciprocal Rank  *)
(* Fusion and cut to the limit.  Each list is what its source answers:     *)
(* chunks without repetition, at most candidates_per_source of them.       *)
(*                                                                         *)
(* A score is the exact fraction <<n, d>>.  Python adds two floats, each    *)
(* rounded; fractions this different keep their order.                     *)
(***************************************************************************)
EXTENDS Naturals, Sequences, FiniteSets, Functions

CONSTANTS
    Chunk,       \* chunk ids
    K,           \* rrf_k
    Candidates,  \* candidates_per_source
    Limit        \* the caller's limit

\* The defaults are K = 60 and Candidates = 20.
ASSUME RankFusionAssumption ==
    /\ K \in Nat
    /\ Candidates \in Nat
    /\ Limit \in Nat

VARIABLES
    lists,    \* [vector_hits, keyword_chunks]
    at,       \* the loops: list at[1], rank at[2] comes next; 3: both are done
    scores,   \* rrf_scores: chunk -> fraction, for the chunks seen
    order,    \* the keys of rrf_scores in insertion order
    origin,   \* chunk_by_id: chunk -> the list whose object is kept
    result    \* the chunks returned, or <<>>

vars == <<lists, at, scores, order, origin, result>>

\* Chunks without repetition.
Ranking == {s \in UNION {[1..n -> Chunk] : n \in 0..Candidates} : IsInjective(s)}

\* What each source may answer, each ordered by a measure of its own.
VectorHits == Ranking
KeywordChunks == Ranking

Plus(x, y) == <<x[1] * y[2] + y[1] * x[2], x[2] * y[2]>>
Less(x, y) == x[1] * y[2] < y[1] * x[2]

Init ==
    /\ lists \in VectorHits \X KeywordChunks
    /\ at = <<1, 1>>
    /\ scores = <<>>
    /\ order = <<>>
    /\ origin = <<>>
    /\ result = <<>>

\* (Mutant of AddHit: the second hit does not add to the score.)
AddHitOnce ==
    /\ at[1] \in {1, 2}
    /\ at[2] <= Len(lists[at[1]])
    /\ LET c == lists[at[1]][at[2]]
           seen == c \in DOMAIN scores
       IN  /\ scores' = [d \in DOMAIN scores \cup {c} |->
                           IF seen THEN scores[d] ELSE IF d = c THEN <<1, K + at[2]>> ELSE scores[d]]
           /\ order' = IF seen THEN order ELSE Append(order, c)
           /\ origin' = [d \in DOMAIN origin \cup {c} |->
                           IF d \in DOMAIN origin THEN origin[d] ELSE at[1]]
    /\ at' = <<at[1], at[2] + 1>>
    /\ UNCHANGED <<lists, result>>

\* One round of the inner loop.
AddHit ==
    /\ at[1] \in {1, 2}
    /\ at[2] <= Len(lists[at[1]])
    /\ LET c == lists[at[1]][at[2]]
           seen == c \in DOMAIN scores
           score == Plus(IF seen THEN scores[c] ELSE <<0, 1>>, <<1, K + at[2]>>)
       IN  /\ scores' = [d \in DOMAIN scores \cup {c} |-> IF d = c THEN score ELSE scores[d]]
           /\ order' = IF seen THEN order ELSE Append(order, c)
           /\ origin' = [d \in DOMAIN origin \cup {c} |->
                           IF d \in DOMAIN origin THEN origin[d] ELSE at[1]]
    /\ at' = <<at[1], at[2] + 1>>
    /\ UNCHANGED <<lists, result>>

NextList ==
    /\ at[1] \in {1, 2}
    /\ at[2] > Len(lists[at[1]])
    /\ at' = <<at[1] + 1, 1>>
    /\ UNCHANGED <<lists, scores, order, origin, result>>

Place(c) == CHOOSE i \in DOMAIN order : order[i] = c

\* (Mutant of Before: reverse=True is missing.)
BeforeAscending(c, d) ==
    \/ Less(scores[c], scores[d])
    \/ ~Less(scores[d], scores[c]) /\ Place(c) < Place(d)

\* sorted(..., reverse=True) keeps the insertion order of equal scores.
Before(c, d) ==
    \/ Less(scores[d], scores[c])
    \/ /\ ~Less(scores[c], scores[d])
       /\ Place(c) < Place(d)

Sorted ==
    [i \in 1..Len(order) |->
        CHOOSE c \in Range(order) : Cardinality({d \in Range(order) \ {c} : Before(d, c)}) = i - 1]

Least(m, n) == IF m < n THEN m ELSE n

Return ==
    /\ at = <<3, 1>>
    /\ result' = SubSeq(Sorted, 1, Least(Limit, Len(order)))
    /\ at' = <<4, 1>>
    /\ UNCHANGED <<lists, scores, order, origin>>

Next == AddHit \/ NextList \/ Return

Spec == Init /\ [][Next]_vars

-----------------------------------------------------------------------------
(* Properties.                                                             *)

Done == at[1] = 4
Found == Range(lists[1]) \cup Range(lists[2])
FoundByBoth == Range(lists[1]) \cap Range(lists[2])

\* Chunk c is returned, and ahead of d if d is returned as well.
Ahead(c, d) ==
    \E i \in DOMAIN result :
        result[i] = c /\ \A j \in DOMAIN result : result[j] = d => i < j

Rank(l, c) == CHOOSE i \in DOMAIN lists[l] : lists[l][i] = c

TypeOK ==
    /\ lists \in VectorHits \X KeywordChunks
    /\ at \in (1..4) \X Nat
    /\ DOMAIN scores \subseteq Chunk /\ Range(scores) \subseteq Nat \X Nat
    /\ order \in Seq(Chunk)
    /\ DOMAIN origin \subseteq Chunk /\ Range(origin) \subseteq {1, 2}
    /\ result \in Seq(Chunk)

\* "A chunk found by both searches, even at different ranks, outranks one found
\* by only one", also across the cut at the limit.  It needs candidates_per_source
\* to be less than rrf_k + 2, as with the defaults, and not with every value the
\* constructor takes.
BothBeatOne ==
    Done =>
        \A c \in FoundByBoth, d \in Found \ FoundByBoth :
            d \in Range(result) => Ahead(c, d)

\* A chunk that no list ranks after d, and that some list ranks before d or
\* finds alone, comes first.
BetterRanksFirst ==
    Done =>
        \A c, d \in Found :
            /\ c # d
            /\ \A l \in 1..2 :
                  d \in Range(lists[l]) =>
                      c \in Range(lists[l]) /\ Rank(l, c) < Rank(l, d)
            /\ d \in Range(result)
            => Ahead(c, d)

\* No chunk is lost or repeated by the fusion: as many distinct chunks as the
\* limit allows, and one found by both carries the object of the vector search.
NothingLost ==
    Done =>
        /\ IsInjective(result)
        /\ Range(result) \subseteq Found
        /\ Len(result) = Least(Limit, Cardinality(Found))
        /\ \A c \in Found : origin[c] = IF c \in Range(lists[1]) THEN 1 ELSE 2

\* The fusion neither turns round what the searches agree on nor loses or repeats any
\* of it, at the cut either, and hands on the object of the search that knows most.
FusionFaithful == BetterRanksFirst /\ NothingLost
===============================================================================
