---------------------------- MODULE TrustEvalProofs ----------------------------
(***************************************************************************)
(* The judgement of a draft and the verdict of the trust suite, proved of   *)
(* TrustEval for every gate and for every number of claims, keywords and   *)
(* cases, as far as rounding to hundredths allows it: a theorem that needs *)
(* a bound on the number of claims or keywords has it as a hypothesis.     *)
(***************************************************************************)
EXTENDS TrustEval, FoldLemmas

\* Fifty points.
Half == 5000

LEMMA FullFacts ==
    /\ Full \in Nat \ {0} /\ Half \in Nat \ {0} /\ Full = 2 * Half
    /\ \A x : x \in Score <=> x \in Nat /\ x <= Full
<1>1. Full \in Nat \ {0} /\ Half \in Nat \ {0} /\ Full = 2 * Half
  BY DEF Full, Half
<1>2. \A x : x \in Score <=> x \in Nat /\ x <= Full
  BY <1>1 DEF Score
<1> QED BY <1>1, <1>2

-----------------------------------------------------------------------------
(* Rounding half to even, for every divisor.                               *)

LEMMA Products ==
    ASSUME NEW a \in Nat, NEW b \in Nat, NEW c \in Nat
    PROVE  /\ a <= b => c * a <= c * b
           /\ a < b /\ c > 0 => c * a + c <= c * b
           /\ c * a \in Nat
OBVIOUS

LEMMA Quotient ==
    ASSUME NEW n \in Nat, NEW d \in Nat \ {0}
    PROVE  /\ n \div d \in Nat /\ n % d \in Nat
           /\ n = d * (n \div d) + (n % d) /\ (n % d) < d
OBVIOUS

\* The rounded quotient is the quotient or one more, and which is decided by the half.
LEMMA RoundFacts ==
    ASSUME NEW n \in Nat, NEW d \in Nat \ {0}
    PROVE  /\ Round(n, d) \in Nat
           /\ 2 * (d * Round(n, d)) <= 2 * n + d
           /\ 2 * n <= 2 * (d * Round(n, d)) + d
<1> DEFINE q == n \div d
           r == n % d
<1>1. q \in Nat /\ r \in Nat /\ n = d * q + r /\ r < d
  BY Quotient
<1>2. (Round(n, d) = q /\ 2 * r <= d) \/ (Round(n, d) = q + 1 /\ 2 * r >= d)
  BY <1>1 DEF Round
<1>3. d * (q + 1) = d * q + d /\ d * q \in Nat
  BY <1>1
<1> HIDE DEF q, r
<1> QED BY <1>1, <1>2, <1>3

\* A fraction of at least g rounds to at least g, and one below g by more than half
\* does not.
LEMMA RoundAtLeast ==
    ASSUME NEW n \in Nat, NEW d \in Nat \ {0}, NEW g \in Nat
    PROVE  /\ d * g <= n => g <= Round(n, d)
           /\ n <= d * g => Round(n, d) <= g
           /\ 2 * n + d < 2 * (d * g) => Round(n, d) < g
<1> DEFINE k == Round(n, d)
<1>1. k \in Nat /\ 2 * (d * k) <= 2 * n + d /\ 2 * n <= 2 * (d * k) + d
  BY RoundFacts
<1>2. d * k \in Nat /\ d * g \in Nat
  BY <1>1, Products
<1> HIDE DEF k
<1>3. ASSUME d * g <= n, k < g PROVE FALSE
  <2>1. d * k + d <= d * g
    BY <1>1, <1>3, Products
  <2> QED BY <1>1, <1>2, <1>3, <2>1
<1>4. ASSUME n <= d * g, g < k PROVE FALSE
  <2>1. d * g + d <= d * k
    BY <1>1, <1>4, Products
  <2> QED BY <1>1, <1>2, <1>4, <2>1
<1>5. ASSUME 2 * n + d < 2 * (d * g), g <= k PROVE FALSE
  <2>1. d * g <= d * k
    BY <1>1, <1>5, Products
  <2> QED BY <1>1, <1>2, <1>5, <2>1
<1> QED BY <1>1, <1>3, <1>4, <1>5 DEF k

\* A fraction below a gate, both on a grid of `step', is so much below it that it
\* rounds below it too, when its denominator is less than 2 * step.  (Doubling the
\* fraction, e = 2, changes nothing.)
LEMMA RoundOnGrid ==
    ASSUME NEW step \in Nat, NEW a \in Nat, NEW k \in Nat, NEW e \in {1, 2},
           NEW d \in Nat \ {0}, d < 2 * step
    PROVE  step * k <= Round(e * (step * a), e * d) <=> d * k <= a
<1> DEFINE P == step * a
           Q == step * (d * k)
           g == step * k
           n == e * P
           m == e * d
<1>1. P \in Nat /\ Q \in Nat /\ g \in Nat /\ d * k \in Nat
  BY Products
<1>2. m * g = e * Q
  BY Products
<1>3. n \in Nat /\ m \in Nat \ {0}
  <2> HIDE DEF P
  <2> QED BY <1>1
<1>4. d * k <= a => Q <= P
  <2> DEFINE y == d * k
  <2>1. y \in Nat
    BY <1>1
  <2> HIDE DEF y
  <2>2. y <= a => step * y <= step * a
    BY <2>1, Products
  <2> QED BY Zenon, <2>2 DEF y
<1>5. a < d * k => P + step <= Q
  <2>1. a < d * k /\ step > 0 => step * a + step <= step * (d * k)
    BY <1>1, Products
  <2>2. step > 0
    OBVIOUS
  <2> QED BY <2>1, <2>2
<1>6. Q <= P => m * g <= n
  <2>1. Q <= P => e * Q <= e * P
    <3> HIDE DEF P, Q
    <3> QED BY <1>1
  <2> QED BY Zenon, <1>2, <2>1
<1>7. P + step <= Q => 2 * n + m < 2 * (m * g)
  <2> HIDE DEF P, Q, g
  <2> QED BY <1>1, <1>2
<1> HIDE DEF P, Q, g, n, m
<1>8. d * k <= a => g <= Round(n, m)
  BY <1>1, <1>3, <1>4, <1>6, RoundAtLeast
<1>9. a < d * k => Round(n, m) < g
  BY <1>1, <1>3, <1>5, <1>7, RoundAtLeast
<1>10. Round(n, m) \in Nat
  BY <1>3, RoundFacts
<1>11. g <= Round(n, m) <=> d * k <= a
  BY <1>1, <1>8, <1>9, <1>10
<1> QED BY <1>11 DEF g, n, m, P

LEMMA Scaled ==
    ASSUME NEW s \in Nat \ {0}, NEW x \in Nat, NEW y \in Nat
    PROVE  s * x <= s * y <=> x <= y
<1>1. s * x \in Nat /\ s * y \in Nat
  BY Products
<1>2. (x <= y => s * x <= s * y) /\ (y < x => s * y + s <= s * x)
  BY Products
<1> QED BY <1>1, <1>2

LEMMA Regrouped ==
    ASSUME NEW a \in Nat, NEW b \in Nat, NEW d \in Nat
    PROVE  a * (b * d) = (a * b) * d /\ a * (b * d) = (a * d) * b
OBVIOUS

\* So a gate on a grid that divides `h' decides the rounded score as it decides the
\* exact one.
LEMMA GridDecides ==
    ASSUME NEW step \in Nat, NEW c \in Nat, NEW h \in Nat \ {0}, step * c = h,
           NEW k \in Nat, NEW x \in Nat, NEW e \in {1, 2}, NEW d \in Nat \ {0}, d < 2 * step
    PROVE  step * k <= Round(e * (h * x), e * d) <=> (step * k) * d <= h * x
<1> DEFINE y == c * x
           z == d * k
<1>1. step \in Nat \ {0} /\ y \in Nat /\ z \in Nat
  BY Products
<1>2. step * y = h * x /\ step * z = (step * k) * d
  <2>1. step * y = (step * c) * x /\ step * z = (step * k) * d
    BY Regrouped
  <2> QED BY Zenon, <2>1
<1> HIDE DEF y
<1>3. step * k <= Round(e * (step * y), e * d) <=> d * k <= y
  BY <1>1, RoundOnGrid
<1> HIDE DEF z
<1>4. step * z <= step * y <=> z <= y
  BY <1>1, Scaled
<1> QED BY Zenon, <1>2, <1>3, <1>4 DEF z

-----------------------------------------------------------------------------
(* The two scores.                                                         *)

\* Twice the supported claims and once the partly supported ones.
Weight(c) == 2 * c["supported"] + c["partial"]

LEMMA ClaimsFacts ==
    ASSUME NEW c \in Claims, MaxClaims \in Nat
    PROVE  /\ \A v \in Verdict : c[v] \in Nat
           /\ c["supported"] \in Nat /\ c["partial"] \in Nat
           /\ c["hallucination"] \in Nat /\ c["unsupported_other"] \in Nat
           /\ Count(c) \in Nat /\ Count(c) <= MaxClaims
           /\ Weight(c) \in Nat
           /\ 2 * Count(c) = Weight(c) + c["partial"]
                             + 2 * (c["hallucination"] + c["unsupported_other"])
BY DEF Claims, Verdict, Count, Weight

LEMMA TrustScoreFacts ==
    ASSUME NEW c \in Claims, MaxClaims \in Nat
    PROVE  /\ ComputeScore(c) \in Score
           /\ Count(c) = 0 => ComputeScore(c) = 0
           /\ Count(c) # 0 => ComputeScore(c) = Round(Full * Weight(c), 2 * Count(c))
<1>1. /\ Count(c) \in Nat /\ Weight(c) \in Nat /\ Weight(c) <= 2 * Count(c)
  BY ClaimsFacts
<1>2. CASE Count(c) = 0
  BY <1>2, FullFacts DEF ComputeScore
<1>3. CASE Count(c) # 0
  <2>1. ComputeScore(c) = Round(Full * Weight(c), 2 * Count(c))
    BY <1>3 DEF ComputeScore, Weight
  <2> DEFINE n == Full * Weight(c)
             d == 2 * Count(c)
  <2>2. n \in Nat /\ d \in Nat \ {0} /\ n <= d * Full
    <3>1. Full * Weight(c) <= Full * (2 * Count(c)) /\ Full * Weight(c) \in Nat
      BY <1>1, FullFacts, Products
    <3>2. Full * (2 * Count(c)) = (2 * Count(c)) * Full
      BY <1>1, FullFacts
    <3> QED BY <1>1, <1>3, <3>1, <3>2
  <2> HIDE DEF n, d
  <2>3. Round(n, d) \in Score
    BY <2>2, FullFacts, RoundFacts, RoundAtLeast
  <2> QED BY Zenon, <1>3, <2>1, <2>3 DEF n, d
<1> QED BY <1>2, <1>3

LEMMA AtsScoreFacts ==
    ASSUME NEW k, k.matched \in Nat, k.missing \in Nat
    PROVE  /\ ScoreKeywords(k) \in Score
           /\ k.missing = 0 => ScoreKeywords(k) = Full
           /\ k.matched + k.missing # 0 =>
                 ScoreKeywords(k) = Round(Full * k.matched, k.matched + k.missing)
<1>1. CASE k.matched + k.missing = 0
  BY <1>1, FullFacts DEF ScoreKeywords
<1>2. CASE k.matched + k.missing # 0
  <2> DEFINE n == Full * k.matched
             d == k.matched + k.missing
  <2>1. ScoreKeywords(k) = Round(n, d)
    BY <1>2 DEF ScoreKeywords
  <2>2. /\ n \in Nat /\ d \in Nat \ {0} /\ n <= d * Full
        /\ k.missing = 0 => d * Full <= n
    <3>1. Full * k.matched <= Full * (k.matched + k.missing) /\ Full * k.matched \in Nat
      BY FullFacts, Products
    <3>2. Full * (k.matched + k.missing) = (k.matched + k.missing) * Full
      BY FullFacts
    <3>3. k.missing = 0 => k.matched + k.missing = k.matched
      OBVIOUS
    <3> QED BY <1>2, <3>1, <3>2, <3>3
  <2> HIDE DEF n, d
  <2>3. /\ Round(n, d) \in Nat /\ Round(n, d) <= Full
        /\ k.missing = 0 => Full <= Round(n, d)
    BY <2>2, FullFacts, RoundFacts, RoundAtLeast
  <2>4. Round(n, d) \in Score /\ (k.missing = 0 => Round(n, d) = Full)
    BY <2>3, FullFacts
  <2> QED BY Zenon, <1>2, <2>1, <2>4 DEF n, d
<1> QED BY <1>1, <1>2

\* The same for each score.
LEMMA TrustDecided ==
    ASSUME NEW w \in Claims, MaxClaims \in Nat,
           NEW step \in Nat, NEW c \in Nat, step * c = Half, MaxClaims < 2 * step,
           NEW k \in Nat, NEW g \in Score, g = step * k
    PROVE  LET lost == 2 * (w["hallucination"] + w["unsupported_other"]) + w["partial"]
           IN  g <= ComputeScore(w) <=>
                 /\ Count(w) = 0 => g = 0
                 /\ Full * lost <= (Full - g) * 2 * Count(w)
<1> DEFINE n == Count(w)
           x == Weight(w)
           lost == 2 * (w["hallucination"] + w["unsupported_other"]) + w["partial"]
<1>1. n \in Nat /\ n <= MaxClaims /\ x \in Nat /\ lost \in Nat /\ 2 * n = x + lost
  BY ClaimsFacts
<1>2. /\ n = 0 => ComputeScore(w) = 0
      /\ n # 0 => ComputeScore(w) = Round(Full * x, 2 * n)
  BY TrustScoreFacts
<1> HIDE DEF n, x, lost
<1>3. g * n \in Nat
  BY <1>1, FullFacts, Products
<1>4. Full * lost <= (Full - g) * 2 * n <=> 2 * (g * n) <= Full * x
  <2>1. (Full - g) * 2 * n = 2 * (Full * n) - 2 * (g * n)
    BY <1>1, FullFacts
  <2>2. 2 * (Full * n) = Full * x + Full * lost
        /\ Full * n \in Nat /\ Full * x \in Nat /\ Full * lost \in Nat
    <3>1. Full * (2 * n) = 2 * (Full * n) /\ Full * (x + lost) = Full * x + Full * lost
      BY <1>1, FullFacts
    <3>2. Full * n \in Nat /\ Full * x \in Nat /\ Full * lost \in Nat
      BY <1>1, FullFacts, Products
    <3> QED BY <1>1, <3>1, <3>2
  <2> DEFINE y == g * n
             s == Full * n
             t == Full * x
             u == Full * lost
  <2>3. y \in Nat /\ s \in Nat /\ t \in Nat /\ u \in Nat /\ 2 * s = t + u
    BY <1>3, <2>2
  <2> HIDE DEF y, s, t, u
  <2>4. u <= 2 * s - 2 * y <=> 2 * y <= t
    BY <2>3
  <2> QED BY Zenon, <2>1, <2>4 DEF y, s, t, u
<1>5. CASE n = 0
  <2>1. g * n = 0 /\ lost = 0 /\ x = 0 /\ g \in Nat
    BY <1>1, <1>5, FullFacts
  <2>2. (Full - g) * 2 * n = 0 /\ Full * lost = 0
    BY <1>5, <2>1, FullFacts
  <2>3. g <= ComputeScore(w) <=> (n = 0 => g = 0) /\ Full * lost <= (Full - g) * 2 * n
    BY <1>2, <1>5, <2>1, <2>2
  <2> QED BY Zenon, <2>3 DEF n, lost
<1>6. CASE n # 0
  <2>0. n \in Nat \ {0} /\ n < 2 * step /\ 2 \in {1, 2}
    BY <1>1, <1>6
  <2>1. g <= Round(2 * (Half * x), 2 * n) <=> g * n <= Half * x
    BY Zenon, <1>1, <2>0, FullFacts, GridDecides
  <2>2. 2 * (Half * x) = Full * x /\ Half * x \in Nat
    BY <1>1, FullFacts, Products
  <2>3. g * n <= Half * x <=> 2 * (g * n) <= Full * x
    <3> DEFINE y == g * n
               z == Half * x
    <3>1. y \in Nat /\ z \in Nat
      BY <1>3, <2>2
    <3> HIDE DEF y, z
    <3>2. y <= z <=> 2 * y <= 2 * z
      BY <3>1
    <3> QED BY Zenon, <2>2, <3>2 DEF y, z
  <2>4. g <= ComputeScore(w) <=> Full * lost <= (Full - g) * 2 * n
    BY Zenon, <1>2, <1>4, <1>6, <2>1, <2>2, <2>3
  <2> QED BY Zenon, <1>6, <2>4 DEF n, lost
<1> QED BY <1>5, <1>6

LEMMA AtsDecided ==
    ASSUME NEW matched \in Nat, NEW missing \in Nat, NEW step \in Nat, NEW c \in Nat,
           step * c = Half, matched + missing < 2 * step,
           NEW k \in Nat, NEW g \in Score, g = step * k
    PROVE  g <= ScoreKeywords([matched |-> matched, missing |-> missing]) <=>
             Full * missing <= (Full - g) * (matched + missing)
<1> DEFINE n == matched + missing
           pair == [matched |-> matched, missing |-> missing]
<1>1. n \in Nat /\ n < 2 * step
  OBVIOUS
<1>2. /\ missing = 0 => ScoreKeywords(pair) = Full
      /\ n # 0 => ScoreKeywords(pair) = Round(Full * matched, n)
  <2>1. pair.matched = matched /\ pair.missing = missing
    OBVIOUS
  <2> HIDE DEF pair
  <2> QED BY <2>1, AtsScoreFacts
<1>3. n = matched + missing
  OBVIOUS
<1> HIDE DEF n
<1>4. g * n \in Nat /\ g \in Nat
  BY <1>1, FullFacts, Products
<1>5. Full * missing <= (Full - g) * n <=> g * n <= Full * matched
  <2>1. (Full - g) * n = Full * n - g * n
    BY <1>1, <1>4, FullFacts
  <2>2. Full * n = Full * matched + Full * missing
        /\ Full * matched \in Nat /\ Full * missing \in Nat
    BY <1>3, FullFacts, Products
  <2> DEFINE y == g * n
             s == Full * n
             t == Full * matched
             u == Full * missing
  <2>3. y \in Nat /\ t \in Nat /\ u \in Nat /\ s = t + u
    BY <1>4, <2>2
  <2> HIDE DEF y, s, t, u
  <2>4. u <= s - y <=> y <= t
    BY <2>3
  <2> QED BY Zenon, <2>1, <2>4 DEF y, s, t, u
<1>6. CASE n = 0
  <2>1. g * n = 0 /\ missing = 0 /\ matched = 0
    BY <1>3, <1>4, <1>6
  <2>2. g <= ScoreKeywords(pair)
    BY <1>2, <2>1, FullFacts
  <2>3. g * n <= Full * matched
    BY <2>1, FullFacts
  <2> QED BY Zenon, <1>5, <2>2, <2>3 DEF n
<1>7. CASE n # 0
  <2>1. 2 * matched \in Nat /\ n \in Nat \ {0} /\ 1 \in {1, 2}
    BY <1>1, <1>7
  <2>2. g <= Round(1 * (Half * (2 * matched)), 1 * n) <=> g * n <= Half * (2 * matched)
    BY Zenon, <1>1, <2>1, FullFacts, GridDecides
  <2>3. 1 * (Half * (2 * matched)) = Full * matched /\ 1 * n = n
        /\ Half * (2 * matched) = Full * matched
    BY <1>1, FullFacts
  <2>4. g <= ScoreKeywords(pair) <=> Full * missing <= (Full - g) * n
    BY Zenon, <1>2, <1>5, <1>7, <2>2, <2>3
  <2> QED BY Zenon, <2>4 DEF n
<1> QED BY <1>6, <1>7

-----------------------------------------------------------------------------
(* The invariant.                                                          *)

\* The scores are those of what was classified and matched, and the judgement is the
\* one of the scores; a suite never goes beyond the Trust Score.
JudgementInv ==
    /\ TypeOK
    /\ caller \in {"workflow", "suite", "skipped"}
    /\ cases \in Seq([expected : Status, predicted : Status]) /\ Len(cases) <= MaxCases
    /\ cases # <<>> => caller = "suite"
    /\ caller = "suite" => stage \in {"trust", "ats"}
    /\ caller = "suite" /\ stage = "ats" => Len(cases) < MaxCases
    /\ keywords.matched + keywords.missing <= MaxKeywords
    /\ stage # "trust" => trust = ComputeScore(claims)
    /\ stage \in {"judge", "passed", "rejected"} => ats = ScoreKeywords(keywords)
    /\ stage = "passed" => Passes
    /\ stage = "rejected" =>
          ~Passes /\ feedback = BuildFeedback /\ reason = BuildRejectionReason

LEMMA NoClaims ==
    ASSUME MaxClaims \in Nat
    PROVE  [v \in Verdict |-> 0] \in Claims
<1> DEFINE c == [v \in Verdict |-> 0]
<1>1. c \in [Verdict -> 0..MaxClaims]
  OBVIOUS
<1>2. Count(c) = 0
  BY DEF Count, Verdict
<1> QED BY <1>1, <1>2 DEF Claims

LEMMA ShownFacts ==
    ASSUME NEW score \in Score
    PROVE  Shown(score) \in 0..100
<1> DEFINE points == 100
<1>0. points \in Nat \ {0} /\ score \in Nat /\ score <= points * points
  BY FullFacts DEF Full
<1> HIDE DEF points
<1>1. Round(score, points) \in Nat /\ Round(score, points) <= points
  BY <1>0, RoundFacts, RoundAtLeast
<1> USE DEF points
<1> DEFINE x == Round(score, 100)
<1>2. x \in 0..100
  <2>1. x \in Nat /\ x <= 100
    BY <1>1
  <2> HIDE DEF x
  <2> QED BY <2>1
<1> QED BY <1>2 DEF Shown

LEMMA InitJudgement == EvalInit => JudgementInv
<1> SUFFICES ASSUME EvalInit PROVE JudgementInv
  OBVIOUS
<1>1. /\ gate \in Gate /\ claims = [v \in Verdict |-> 0]
      /\ keywords = [matched |-> 0, missing |-> 0] /\ trust = 0 /\ ats = 0
      /\ stage = "trust" /\ feedback = {} /\ reason = {} /\ cases = <<>>
      /\ caller \in {"workflow", "suite", "skipped"}
  BY DEF EvalInit, Init
<1>2. claims \in Claims
  BY <1>1, NoClaims, ScoringAssumption
<1>3. TypeOK
  BY <1>1, <1>2, ScoringAssumption, FullFacts DEF TypeOK
<1>4. cases \in Seq([expected : Status, predicted : Status]) /\ Len(cases) <= MaxCases
  BY <1>1, TrustEvalAssumption
<1> QED BY <1>1, <1>3, <1>4, ScoringAssumption DEF JudgementInv

LEMMA ScoreTrustKeeps ==
    ASSUME JudgementInv, ScoreTrust, caller = "suite" => Len(cases) < MaxCases,
           UNCHANGED <<caller, cases>>
    PROVE  JudgementInv'
<1>1. /\ claims' \in Claims /\ trust' = ComputeScore(claims') /\ stage' = "ats"
      /\ UNCHANGED <<gate, keywords, ats, feedback, reason, caller, cases>>
  BY DEF ScoreTrust
<1>2. trust' \in Score
  BY <1>1, TrustScoreFacts, ScoringAssumption
<1>3. TypeOK'
  BY <1>1, <1>2 DEF JudgementInv, TypeOK
<1> QED BY <1>1, <1>3 DEF JudgementInv

LEMMA ScoreAtsKeeps ==
    ASSUME JudgementInv, ScoreAts, caller = "workflow", UNCHANGED <<caller, cases>>
    PROVE  JudgementInv'
<1>1. /\ stage = "ats" /\ ats' = ScoreKeywords(keywords') /\ stage' = "judge"
      /\ UNCHANGED <<gate, claims, trust, feedback, reason, caller, cases>>
  BY DEF ScoreAts
<1>0. PICK total \in 0..MaxKeywords :
          \E matched \in 0..total :
             keywords' = [matched |-> matched, missing |-> total - matched]
  BY DEF ScoreAts
<1>2. PICK matched \in 0..total :
          keywords' = [matched |-> matched, missing |-> total - matched]
  BY <1>0
<1>3. /\ keywords' \in [matched : 0..MaxKeywords, missing : 0..MaxKeywords]
      /\ keywords'.matched \in Nat /\ keywords'.missing \in Nat
      /\ keywords'.matched + keywords'.missing <= MaxKeywords
  BY <1>2, ScoringAssumption
<1>4. ats' \in Score
  BY <1>1, <1>3, AtsScoreFacts
<1>5. TypeOK'
  BY <1>1, <1>3, <1>4 DEF JudgementInv, TypeOK
<1> QED BY <1>1, <1>3, <1>5 DEF JudgementInv

LEMMA JudgeKeeps ==
    ASSUME JudgementInv, Judge, caller = "workflow", UNCHANGED <<caller, cases>>
    PROVE  JudgementInv'
<1>1. /\ stage = "judge"
      /\ stage' = IF Passes THEN "passed" ELSE "rejected"
      /\ feedback' = IF Passes THEN {} ELSE BuildFeedback
      /\ reason' = IF Passes THEN {} ELSE BuildRejectionReason
      /\ UNCHANGED <<gate, claims, keywords, trust, ats, caller, cases>>
  BY DEF Judge
<1>2. /\ TypeOK /\ gate \in (Score) \X (Score)
      /\ trust \in Score /\ ats \in Score
  BY ScoringAssumption DEF JudgementInv, TypeOK
<1>3. BuildFeedback \subseteq {"remove", "soften", "keywords", "scores"}
  BY DEF BuildFeedback
<1>4. BuildRejectionReason \subseteq {"trust", "ats"} \X (0..100) \X (0..100)
  <2>1. /\ Shown(trust) \in 0..100 /\ Shown(gate[1]) \in 0..100
        /\ Shown(ats) \in 0..100 /\ Shown(gate[2]) \in 0..100
    BY <1>2, ShownFacts
  <2> QED BY <2>1 DEF BuildRejectionReason
<1>5. TypeOK'
  BY <1>1, <1>2, <1>3, <1>4 DEF TypeOK
<1>6. /\ Passes' = Passes /\ BuildFeedback' = BuildFeedback
      /\ BuildRejectionReason' = BuildRejectionReason
  BY <1>1 DEF Passes, BuildFeedback, BuildRejectionReason
<1> QED BY <1>1, <1>5, <1>6 DEF JudgementInv

\* The verdict is one of the three statuses.
LEMMA VerdictFacts ==
    ASSUME NEW c \in Claims, MaxClaims \in Nat
    PROVE  /\ Count(c) = 0 => DominantStatus(c) = "unsupported"
           /\ c["hallucination"] + c["unsupported_other"] > 0 => DominantStatus(c) = "unsupported"
           /\ c["hallucination"] + c["unsupported_other"] = 0 /\ c["partial"] > 0 =>
                 DominantStatus(c) = "partially_supported"
           /\ (Count(c) # 0 /\ c["hallucination"] + c["unsupported_other"] = 0 /\ c["partial"] = 0) =>
                 DominantStatus(c) = "supported"
           /\ DominantStatus(c) \in Status
<1>1. /\ c["supported"] \in Nat /\ c["partial"] \in Nat
      /\ c["hallucination"] \in Nat /\ c["unsupported_other"] \in Nat
      /\ Count(c) = c["supported"] + c["partial"] + c["hallucination"] + c["unsupported_other"]
  BY ClaimsFacts DEF Count
<1> DEFINE bad == c["hallucination"] + c["unsupported_other"]
           statuses == StatusesOf(c)
           worst(s) == s \in statuses /\ \A r \in statuses : Severity(s) <= Severity(r)
<1>2. /\ "supported" \in statuses <=> c["supported"] > 0
      /\ "partially_supported" \in statuses <=> c["partial"] > 0
      /\ "unsupported" \in statuses <=> bad > 0
      /\ statuses \subseteq Status
  BY DEF StatusesOf, Status
<1>3. /\ Severity("unsupported") = 0 /\ Severity("partially_supported") = 1
      /\ Severity("supported") = 2
  BY DEF Severity
<1>4. Count(c) # 0 => DominantStatus(c) = CHOOSE s \in statuses :
                                             \A r \in statuses : Severity(s) <= Severity(r)
  BY DEF DominantStatus
<1> HIDE DEF statuses
<1>5. ASSUME NEW s \in statuses, \A r \in statuses \ {s} : Severity(s) < Severity(r)
      PROVE  Count(c) # 0 => DominantStatus(c) = s
  <2>1. \A r \in statuses : Severity(r) \in Nat
    BY <1>2, <1>3 DEF Status
  <2>2. \A r \in statuses : Severity(s) <= Severity(r)
    BY <1>5, <2>1
  <2>3. \A t \in statuses : (\A r \in statuses : Severity(t) <= Severity(r)) => t = s
    BY <1>5, <2>1
  <2>4. (CHOOSE t \in statuses : \A r \in statuses : Severity(t) <= Severity(r)) = s
    BY <2>2, <2>3
  <2> QED BY <1>4, <2>4
<1>6. ASSUME bad > 0 PROVE DominantStatus(c) = "unsupported"
  <2>1. /\ "unsupported" \in statuses /\ Count(c) # 0
        /\ \A r \in statuses \ {"unsupported"} : Severity("unsupported") < Severity(r)
    BY <1>1, <1>2, <1>3, <1>6 DEF Status
  <2> QED BY <1>5, <2>1
<1>7. ASSUME bad = 0, c["partial"] > 0 PROVE DominantStatus(c) = "partially_supported"
  <2>1. /\ "partially_supported" \in statuses /\ Count(c) # 0
        /\ \A r \in statuses \ {"partially_supported"} :
              Severity("partially_supported") < Severity(r)
    BY <1>1, <1>2, <1>3, <1>7 DEF Status
  <2> QED BY <1>5, <2>1
<1>8. ASSUME Count(c) # 0, bad = 0, c["partial"] = 0 PROVE DominantStatus(c) = "supported"
  <2>1. /\ "supported" \in statuses
        /\ \A r \in statuses \ {"supported"} : Severity("supported") < Severity(r)
    BY <1>1, <1>2, <1>3, <1>8 DEF Status
  <2> QED BY <1>5, <1>8, <2>1
<1>9. Count(c) = 0 => DominantStatus(c) = "unsupported"
  BY DEF DominantStatus
<1>10. bad \in Nat
  BY <1>1
<1> QED BY <1>1, <1>6, <1>7, <1>8, <1>9, <1>10 DEF Status

LEMMA RecordKeeps ==
    ASSUME JudgementInv, RecordCase
    PROVE  /\ JudgementInv'
           /\ \E expected \in Status :
                 Last(cases') = [expected |-> expected, predicted |-> DominantStatus(claims)]
<1> DEFINE Case == [expected : Status, predicted : Status]
<1>1. /\ caller = "suite" /\ stage = "ats"
      /\ claims' = [v \in Verdict |-> 0] /\ trust' = 0 /\ stage' = "trust"
      /\ UNCHANGED <<gate, keywords, ats, feedback, reason, caller>>
  BY DEF RecordCase
<1>2. PICK expected \in Status :
          cases' = Append(cases, [expected |-> expected, predicted |-> DominantStatus(claims)])
  BY DEF RecordCase
<1>3. claims \in Claims /\ claims' \in Claims
  BY <1>1, NoClaims, ScoringAssumption DEF JudgementInv, TypeOK
<1>4. [expected |-> expected, predicted |-> DominantStatus(claims)] \in Case
  BY <1>3, VerdictFacts, ScoringAssumption
<1> DEFINE new == [expected |-> expected, predicted |-> DominantStatus(claims)]
<1>5. cases \in Seq(Case) /\ Len(cases) < MaxCases
  BY <1>1 DEF JudgementInv
<1> HIDE DEF new, Case
<1>6. /\ cases' \in Seq(Case) /\ Len(cases') = Len(cases) + 1 /\ Len(cases) \in Nat
      /\ Last(cases') = new /\ cases' # <<>>
  <2>1. cases' = Append(cases, new) /\ new \in Case
    BY <1>2, <1>4 DEF new
  <2> QED BY <1>5, <2>1 DEF Last
<1>7. Len(cases') <= MaxCases
  BY <1>5, <1>6, TrustEvalAssumption
<1>8. TypeOK'
  BY <1>1, <1>3, FullFacts DEF JudgementInv, TypeOK
<1>9. JudgementInv'
  BY <1>1, <1>6, <1>7, <1>8 DEF JudgementInv, Case
<1> QED BY <1>6, <1>9 DEF new

LEMMA JudgementStep == JudgementInv /\ [EvalNext]_allVars => JudgementInv'
<1> SUFFICES ASSUME JudgementInv, [EvalNext]_allVars PROVE JudgementInv'
  OBVIOUS
<1>1. CASE caller = "workflow" /\ Next /\ UNCHANGED <<caller, cases>>
  <2>1. caller = "suite" => Len(cases) < MaxCases
    BY <1>1
  <2> QED BY <1>1, <2>1, ScoreTrustKeeps, ScoreAtsKeeps, JudgeKeeps DEF Next
<1>2. CASE RunCase
  BY <1>2, ScoreTrustKeeps DEF RunCase
<1>3. CASE RecordCase
  BY <1>3, RecordKeeps
<1>4. CASE UNCHANGED allVars
  <2>1. UNCHANGED <<gate, claims, keywords, trust, ats, stage, feedback, reason, caller, cases>>
    BY <1>4 DEF allVars, vars
  <2> QED BY <2>1 DEF JudgementInv, TypeOK, Passes, BuildFeedback, BuildRejectionReason
<1> QED BY <1>1, <1>2, <1>3, <1>4 DEF EvalNext

\* The invariant holds in every reachable state.
THEOREM JudgementHolds == EvalSpec => []JudgementInv
<1> QED BY InitJudgement, JudgementStep, PTL DEF EvalSpec

-----------------------------------------------------------------------------
(* The theorems.                                                           *)

\* EvalTypeOK: both scores are on their scale, whatever the model classified, and a
\* suite has no more cases than were labeled.
THEOREM TypeCorrect == EvalSpec => []EvalTypeOK
<1>1. JudgementInv => EvalTypeOK
  <2> SUFFICES ASSUME JudgementInv PROVE EvalTypeOK
    OBVIOUS
  <2> DEFINE Case == [expected : Status, predicted : Status]
  <2>1. cases \in Seq(Case) /\ Len(cases) <= MaxCases
    BY DEF JudgementInv
  <2> HIDE DEF Case
  <2>2. Len(cases) \in 0..MaxCases /\ cases \in [1..Len(cases) -> Case]
    BY <2>1, TrustEvalAssumption
  <2>3. cases \in BoundedSeq(Case, MaxCases)
    BY <2>2 DEF BoundedSeq, SeqOf
  <2> QED BY <2>3 DEF JudgementInv, EvalTypeOK, Case
<1> QED BY <1>1, JudgementHolds, PTL

LEMMA GateDecided ==
    ASSUME JudgementInv,
           NEW step \in Nat, NEW c \in Nat, step * c = Half,
           MaxClaims < 2 * step, MaxKeywords < 2 * step,
           \A g \in Gate : \E j \in Nat, k \in Nat : g[1] = step * j /\ g[2] = step * k
    PROVE  GateIsExact
<1> SUFFICES ASSUME stage \in {"passed", "rejected"} PROVE GateIsExact
  BY DEF GateIsExact
<1>1. /\ gate \in Gate /\ gate[1] \in Score /\ gate[2] \in Score
      /\ claims \in Claims /\ trust \in Nat /\ ats \in Nat
      /\ keywords = [matched |-> keywords.matched, missing |-> keywords.missing]
      /\ keywords.matched \in Nat /\ keywords.missing \in Nat
      /\ keywords.matched + keywords.missing <= MaxKeywords
  BY ScoringAssumption, FullFacts DEF JudgementInv, TypeOK
<1>2. trust = ComputeScore(claims) /\ ats = ScoreKeywords(keywords)
  BY DEF JudgementInv
<1>3. PICK j \in Nat, k \in Nat : gate[1] = step * j /\ gate[2] = step * k
  BY <1>1
<1> DEFINE lost == 2 * (claims["hallucination"] + claims["unsupported_other"])
                   + claims["partial"]
           total == keywords.matched + keywords.missing
<1>4. gate[1] <= trust <=>
          /\ Count(claims) = 0 => gate[1] = 0
          /\ Full * lost <= (Full - gate[1]) * 2 * Count(claims)
  BY Zenon, <1>1, <1>2, <1>3, ScoringAssumption, TrustDecided
<1>5. gate[2] <= ats <=> Full * keywords.missing <= (Full - gate[2]) * total
  <2>1. total < 2 * step
    BY <1>1, ScoringAssumption
  <2>2. gate[2] <= ScoreKeywords([matched |-> keywords.matched, missing |-> keywords.missing])
            <=> Full * keywords.missing <= (Full - gate[2]) * total
    BY Zenon, <1>1, <1>3, <2>1, AtsDecided
  <2> QED BY Zenon, <1>1, <1>2, <2>2
<1>6. stage = "passed" <=> gate[1] <= trust /\ gate[2] <= ats
  <2>1. Passes <=> gate[1] <= trust /\ gate[2] <= ats
    BY <1>1, FullFacts DEF Passes
  <2> QED BY <2>1 DEF JudgementInv
<1> QED BY Zenon, <1>4, <1>5, <1>6 DEF GateIsExact

\* A draft passes exactly if it misses no more than the gate lets it (QualityGate.passes
\* on scores rounded to two decimals, compute_score and score_keywords): for gates on a
\* grid of `step' hundredths that divides fifty points, and less than twice as many
\* claims and keywords.  For whole points (step = 100) that is less than 200, for
\* multiples of five points (step = 500), as the default gate is, less than 1000.
THEOREM GateExact ==
    ASSUME NEW step \in Nat, NEW c \in Nat, step * c = Half,
           MaxClaims < 2 * step, MaxKeywords < 2 * step,
           \A g \in Gate : \E j \in Nat, k \in Nat : g[1] = step * j /\ g[2] = step * k
    PROVE  EvalSpec => []GateIsExact
<1>1. JudgementInv => GateIsExact
  BY GateDecided
<1> QED BY <1>1, JudgementHolds, PTL

\* What is shown of a score and of a threshold above it.
LEMMA ShownMiss ==
    ASSUME NEW score \in Nat, NEW needed \in Nat, score < needed
    PROVE  \/ Shown(score) < Shown(needed)
           \/ /\ Shown(score) = Shown(needed)
              /\ needed - score <= (IF needed % 100 = 0 THEN 50 ELSE 100)
<1> DEFINE s == Shown(score)
           n == Shown(needed)
<1>1. /\ s \in Nat /\ 2 * (100 * s) <= 2 * score + 100
      /\ n \in Nat /\ 2 * needed <= 2 * (100 * n) + 100
  <2> DEFINE p == 100
  <2>1. p \in Nat \ {0}
    OBVIOUS
  <2> HIDE DEF p
  <2>2. /\ Round(score, p) \in Nat /\ 2 * (p * Round(score, p)) <= 2 * score + p
        /\ Round(needed, p) \in Nat /\ 2 * needed <= 2 * (p * Round(needed, p)) + p
    BY <2>1, RoundFacts
  <2> QED BY Zenon, <2>2 DEF Shown, p
<1>2. needed % 100 = 0 => needed = 100 * n
  <2> DEFINE q == needed \div 100
             r == needed % 100
  <2>1. q \in Nat /\ r \in Nat /\ needed = 100 * q + r
    BY Quotient
  <2>2. r = 0 => n = q
    BY <2>1 DEF Shown, Round
  <2> HIDE DEF q, r, n
  <2>3. r = 0 => needed = 100 * n
    BY <2>1, <2>2
  <2> QED BY Zenon, <2>3 DEF r, n
<1> HIDE DEF s, n
<1>3. s <= n
  BY <1>1
<1>4. s = n => needed - score <= 100
  BY <1>1
<1>5. s = n /\ needed = 100 * n => needed - score <= 50
  BY <1>1
<1>6. s < n \/ s = n
  BY <1>1, <1>3
<1> QED BY <1>2, <1>4, <1>5, <1>6 DEF s, n

LEMMA Named == JudgementInv => MissesNamed
<1> SUFFICES ASSUME JudgementInv, stage = "rejected" PROVE MissesNamed
  BY DEF MissesNamed
<1>1. /\ gate[1] \in Nat /\ gate[2] \in Nat /\ trust \in Nat /\ ats \in Nat
      /\ ~Passes /\ reason = BuildRejectionReason
  BY ScoringAssumption, FullFacts DEF JudgementInv, TypeOK
<1> DEFINE mt == <<"trust", Shown(trust), Shown(gate[1])>>
           ma == <<"ats", Shown(ats), Shown(gate[2])>>
<1>2. reason = (IF trust < gate[1] THEN {mt} ELSE {}) \cup (IF ats < gate[2] THEN {ma} ELSE {})
  BY <1>1 DEF BuildRejectionReason
<1>3. trust < gate[1] \/ ats < gate[2]
  BY <1>1 DEF Passes
<1>4. trust < gate[1] =>
          \/ mt[2] < mt[3]
          \/ mt[2] = mt[3] /\ gate[1] - trust <= (IF gate[1] % 100 = 0 THEN 50 ELSE 100)
  BY <1>1, ShownMiss
<1>5. ats < gate[2] =>
          \/ ma[2] < ma[3]
          \/ ma[2] = ma[3] /\ gate[2] - ats <= (IF gate[2] % 100 = 0 THEN 50 ELSE 100)
  BY <1>1, ShownMiss
<1>6. mt[1] = "trust" /\ ma[1] = "ats"
  OBVIOUS
<1> HIDE DEF mt, ma
<1>7. /\ mt \in reason <=> trust < gate[1]
      /\ ma \in reason <=> ats < gate[2]
      /\ \A m \in reason : m = mt \/ m = ma
  BY <1>2, <1>6
<1>8. /\ \E m \in reason : TRUE
      /\ (\E m \in reason : m[1] = "trust") <=> trust < gate[1]
      /\ (\E m \in reason : m[1] = "ats") <=> ats < gate[2]
  BY <1>3, <1>6, <1>7
<1>9. ASSUME NEW m \in reason
      PROVE  LET needed == IF m[1] = "trust" THEN gate[1] ELSE gate[2]
                 score  == IF m[1] = "trust" THEN trust ELSE ats
             IN  \/ m[2] < m[3]
                 \/ m[2] = m[3] /\ needed - score <= (IF needed % 100 = 0 THEN 50 ELSE 100)
  <2>1. CASE m = mt
    <3>1. trust < gate[1] /\ m[1] = "trust"
      BY <1>6, <1>7, <1>9, <2>1
    <3> QED BY Zenon, <1>4, <2>1, <3>1
  <2>2. CASE m = ma
    <3>1. ats < gate[2] /\ m[1] # "trust"
      BY <1>6, <1>7, <1>9, <2>2
    <3> QED BY Zenon, <1>5, <2>2, <3>1
  <2> QED BY <1>7, <2>1, <2>2
<1> QED BY Zenon, <1>8, <1>9 DEF MissesNamed

\* The reason stored with a rejected draft (build_rejection_reason) names the scores it
\* missed, and no other, and shows no number that contradicts it by more than its
\* rounding to whole points.
THEOREM RejectionNamed == EvalSpec => []MissesNamed
BY Named, JudgementHolds, PTL

LEMMA Addressed == JudgementInv => MissesAddressed
<1> SUFFICES ASSUME JudgementInv, stage = "rejected" PROVE MissesAddressed
  BY DEF MissesAddressed
<1>1. /\ gate[1] \in Score /\ gate[2] \in Score /\ trust \in Score /\ ats \in Score
      /\ claims \in Claims
      /\ keywords.matched \in Nat /\ keywords.missing \in Nat
  BY ScoringAssumption, FullFacts DEF JudgementInv, TypeOK
<1>2. feedback = BuildFeedback /\ ats = ScoreKeywords(keywords)
  BY DEF JudgementInv
<1>3. ats < gate[2] => keywords.missing > 0
  <2>1. keywords.missing = 0 => ats = Full
    BY <1>1, <1>2, AtsScoreFacts
  <2> QED BY <1>1, <2>1, FullFacts
<1>4. claims["hallucination"] \in Nat /\ claims["partial"] \in Nat
  BY <1>1, ClaimsFacts, ScoringAssumption
<1>5. ats < gate[2] => "keywords" \in feedback
  BY <1>2, <1>3 DEF BuildFeedback
<1>6. \/ feedback \cap {"remove", "soften", "scores"} # {}
      \/ claims["hallucination"] + claims["partial"] = 0 /\ keywords.missing > 0
  <2>1. CASE claims["hallucination"] > 0
    <3>1. "remove" \in feedback
      BY <1>2, <2>1 DEF BuildFeedback
    <3> QED BY <3>1
  <2>2. CASE claims["partial"] > 0
    <3>1. "soften" \in feedback
      BY <1>2, <2>2 DEF BuildFeedback
    <3> QED BY <3>1
  <2>3. CASE claims["hallucination"] = 0 /\ claims["partial"] = 0
    <3>1. keywords.missing > 0 \/ "scores" \in feedback
      BY <1>2, <2>3 DEF BuildFeedback
    <3> QED BY <2>3, <3>1
  <2> QED BY <1>4, <2>1, <2>2, <2>3
<1> QED BY <1>5, <1>6 DEF MissesAddressed

\* The feedback stored with a rejected draft (build_feedback) goes into every score it
\* missed: a missed ATS Score has missing keywords to name.
THEOREM RejectionAddressed == EvalSpec => []MissesAddressed
BY Addressed, JudgementHolds, PTL

\* Both together: what is stored with a rejected draft tells of every miss, for every
\* gate and any number of claims and keywords.
THEOREM RejectionTold == EvalSpec => []MissesTold
BY Named, Addressed, JudgementHolds, PTL DEF MissesTold

-----------------------------------------------------------------------------
(* The verdict of the suite.                                               *)

LEMMA VerdictAndScore ==
    ASSUME NEW w \in Claims, MaxClaims \in Nat, MaxClaims < Full
    PROVE  /\ DominantStatus(w) = "supported" <=> ComputeScore(w) = Full
           /\ DominantStatus(w) = "partially_supported" =>
                 2 * ComputeScore(w) \in Full..(2 * Full - 1)
           /\ DominantStatus(w) # "unsupported" => 2 * ComputeScore(w) >= Full /\ Count(w) > 0
<1> DEFINE n == Count(w)
           x == Weight(w)
           bad == w["hallucination"] + w["unsupported_other"]
           t == ComputeScore(w)
           P == Full * x
           Q == Full * n
           R == Full * (2 * n - x)
<1>1. /\ n \in Nat /\ n < Full /\ x \in Nat /\ bad \in Nat
      /\ w["partial"] \in Nat /\ w["supported"] \in Nat
      /\ 2 * n = x + w["partial"] + 2 * bad /\ x = 2 * w["supported"] + w["partial"]
  BY ClaimsFacts, FullFacts DEF Weight
<1>2. t \in Nat /\ t <= Full /\ (n = 0 => t = 0) /\ (n # 0 => t = Round(P, 2 * n))
  BY TrustScoreFacts, FullFacts
<1>3. /\ n = 0 => DominantStatus(w) = "unsupported"
      /\ bad > 0 => DominantStatus(w) = "unsupported"
      /\ bad = 0 /\ w["partial"] > 0 => DominantStatus(w) = "partially_supported"
      /\ n # 0 /\ bad = 0 /\ w["partial"] = 0 => DominantStatus(w) = "supported"
  BY VerdictFacts
<1>4. /\ P \in Nat /\ Q \in Nat /\ R \in Nat /\ P + R = 2 * Q
      /\ (2 * n) * Full = 2 * Q /\ (2 * n) * Half = Q
      /\ 2 * n - x > 0 => Full <= R
      /\ 2 * n - x = 0 => R = 0
      /\ bad = 0 => Q <= P
  <2>1. 2 * n - x \in Nat
    BY <1>1
  <2>2. P \in Nat /\ Q \in Nat /\ R \in Nat
    BY <1>1, <2>1, FullFacts, Products
  <2>3. P + R = 2 * Q /\ (2 * n) * Full = 2 * Q /\ (2 * n) * Half = Q
    <3>1. R = Full * (2 * n) - Full * x
      BY <1>1, FullFacts
    <3>2. Full * (2 * n) = 2 * Q /\ (2 * n) * Full = 2 * Q
      BY <1>1, FullFacts
    <3>3. (2 * n) * Half = n * Full /\ n * Full = Q
      BY <1>1, FullFacts
    <3> HIDE DEF P, Q, R
    <3> QED BY <2>2, <3>1, <3>2, <3>3 DEF P
  <2>4. 2 * n - x > 0 => Full <= R
    <3> DEFINE y == 2 * n - x
    <3>1. y \in Nat
      BY <2>1
    <3> HIDE DEF y
    <3>2. y > 0 => Full * 1 <= Full * y
      BY <3>1, FullFacts, Products
    <3>3. Full * 1 = Full
      BY FullFacts
    <3> QED BY Zenon, <3>2, <3>3 DEF y
  <2>5. 2 * n - x = 0 => R = 0
    BY FullFacts
  <2>6. bad = 0 => Q <= P
    <3>1. bad = 0 => n <= x
      BY <1>1
    <3> HIDE DEF n, x, bad
    <3> QED BY <1>1, <3>1, FullFacts, Products
  <2> QED BY Zenon, <2>2, <2>3, <2>4, <2>5, <2>6
<1>5. 2 * n - x = w["partial"] + 2 * bad
  BY <1>1
<1> HIDE DEF n, x, bad, t, P, Q, R
<1>6. ASSUME n # 0, bad = 0 PROVE 2 * t >= Full
  <2>1. 2 * n \in Nat \ {0} /\ (2 * n) * Half <= P
    BY <1>1, <1>4, <1>6
  <2>2. Half <= t
    BY <1>2, <1>4, <1>6, <2>1, FullFacts, RoundAtLeast
  <2> QED BY <1>2, <2>2, FullFacts
<1>7. ASSUME n # 0, w["partial"] + 2 * bad > 0 PROVE t < Full
  <2>1. 2 * n \in Nat \ {0} /\ 2 * P + 2 * n < 2 * ((2 * n) * Full)
    <3>1. Full <= R /\ n < R
      BY <1>1, <1>4, <1>5, <1>7, FullFacts
    <3>2. (2 * n) * Full = P + R
      BY <1>4
    <3>3. 2 * P + 2 * n < 2 * (P + R)
      BY <1>1, <1>4, <3>1
    <3>4. 2 * n \in Nat \ {0}
      BY <1>1, <1>7
    <3> QED BY Zenon, <3>2, <3>3, <3>4
  <2> QED BY <1>2, <1>4, <1>7, <2>1, FullFacts, RoundAtLeast
<1>8. ASSUME n # 0, w["partial"] + 2 * bad = 0 PROVE t = Full
  <2>1. 2 * n \in Nat \ {0} /\ (2 * n) * Full <= P
    BY <1>1, <1>4, <1>5, <1>8
  <2>2. Full <= t
    BY <1>2, <1>4, <1>8, <2>1, FullFacts, RoundAtLeast
  <2> QED BY <1>2, <2>2, FullFacts
<1>9. CASE n = 0
  <2>1. t # Full /\ DominantStatus(w) = "unsupported"
    BY <1>2, <1>3, <1>9, FullFacts
  <2> QED BY <2>1 DEF t
<1>10. CASE n # 0 /\ bad > 0
  <2>1. t # Full /\ DominantStatus(w) = "unsupported"
    BY <1>1, <1>2, <1>3, <1>7, <1>10
  <2> QED BY <2>1 DEF t
<1>11. CASE n # 0 /\ bad = 0 /\ w["partial"] > 0
  <2>1. t < Full /\ 2 * t >= Full /\ DominantStatus(w) = "partially_supported"
    BY <1>1, <1>3, <1>6, <1>7, <1>11
  <2>2. 2 * t \in Full..(2 * Full - 1) /\ t # Full /\ n > 0
    BY <1>1, <1>2, <1>11, <2>1, FullFacts
  <2> QED BY <2>1, <2>2 DEF t, n
<1>12. CASE n # 0 /\ bad = 0 /\ w["partial"] = 0
  <2>1. t = Full /\ DominantStatus(w) = "supported"
    BY <1>3, <1>8, <1>12
  <2>2. 2 * t >= Full /\ n > 0
    BY <1>1, <1>12, <2>1, FullFacts
  <2> QED BY <2>1, <2>2 DEF t, n
<1> QED BY <1>1, <1>9, <1>10, <1>11, <1>12

\* Only the recording of a case changes what was recorded.
LEMMA RecordedBy ==
    ASSUME [EvalNext]_allVars, cases' # cases
    PROVE  RecordCase
BY DEF EvalNext, RunCase, allVars

\* The verdict recorded for a labeled claim (_dominant_status) and the Trust Score of
\* the same report (compute_score) tell one story, for fewer than 10000 claims: with
\* so many, one that is only partly supported is lost in the rounding.
THEOREM VerdictsAgree ==
    ASSUME MaxClaims < Full
    PROVE  EvalSpec => VerdictAgreesWithScore
<1>1. ASSUME JudgementInv, [EvalNext]_allVars, cases' # cases
      PROVE  LET case == Last(cases')
             IN  /\ case.predicted = "supported" <=> trust = Full
                 /\ case.predicted = "partially_supported" => 2 * trust \in Full..(2 * Full - 1)
                 /\ (case.expected = "unsupported" /\ IsDangerousError(case)) =>
                       2 * trust >= Full /\ Count(claims) > 0
  <2>1. RecordCase
    BY <1>1, RecordedBy
  <2>2. PICK expected \in Status :
            Last(cases') = [expected |-> expected, predicted |-> DominantStatus(claims)]
    BY <1>1, <2>1, RecordKeeps
  <2>3. claims \in Claims /\ trust = ComputeScore(claims)
    BY <1>1, <2>1 DEF JudgementInv, TypeOK, RecordCase
  <2>4. /\ DominantStatus(claims) = "supported" <=> trust = Full
        /\ DominantStatus(claims) = "partially_supported" =>
              2 * trust \in Full..(2 * Full - 1)
        /\ DominantStatus(claims) # "unsupported" => 2 * trust >= Full /\ Count(claims) > 0
    BY <2>3, ScoringAssumption, VerdictAndScore
  <2> DEFINE case == Last(cases')
  <2>5. case.expected = expected /\ case.predicted = DominantStatus(claims)
    BY <2>2
  <2>6. case.expected = "unsupported" /\ IsDangerousError(case) =>
            DominantStatus(claims) # "unsupported"
    <3>1. ASSUME case.expected = "unsupported", case.predicted = "unsupported"
          PROVE  ~IsDangerousError(case)
      BY <3>1 DEF IsDangerousError, Severity
    <3> QED BY <2>5, <3>1
  <2> HIDE DEF case
  <2>7. /\ case.predicted = "supported" <=> trust = Full
        /\ case.predicted = "partially_supported" => 2 * trust \in Full..(2 * Full - 1)
        /\ (case.expected = "unsupported" /\ IsDangerousError(case)) =>
              2 * trust >= Full /\ Count(claims) > 0
    BY Zenon, <2>4, <2>5, <2>6
  <2> QED BY Zenon, <2>7 DEF case
<1> QED BY <1>1, JudgementHolds, PTL DEF EvalSpec, VerdictAgreesWithScore

-----------------------------------------------------------------------------
(* Macro-F1 and accuracy.                                                  *)

LabeledCase == [expected : Status, predicted : Status]

Expected(suite, label) == {i \in DOMAIN suite : suite[i].expected = label}
Predicted(suite, label) == {i \in DOMAIN suite : suite[i].predicted = label}

\* The counts that precision and recall are made of.
LEMMA CountsOfLabel ==
    ASSUME NEW suite \in Seq(LabeledCase), NEW label
    PROVE  LET t == Confusion(suite, label, label)
               p == PredictedCount(suite, label)
               s == Support(suite, label)
           IN  /\ t \in Nat /\ p \in Nat /\ s \in Nat /\ t <= p /\ t <= s
               /\ t = p /\ t = s <=> Expected(suite, label) = Predicted(suite, label)
<1> DEFINE E == Expected(suite, label)
           P == Predicted(suite, label)
<1>1. IsFiniteSet(DOMAIN suite)
  <2>1. PICK n \in Nat : n = Len(suite)
    OBVIOUS
  <2>2. DOMAIN suite = 1..n
    BY <2>1
  <2> QED BY <2>2, FS_Interval
<1>2. /\ Confusion(suite, label, label) = Cardinality(E \cap P)
      /\ PredictedCount(suite, label) = Cardinality(P)
      /\ Support(suite, label) = Cardinality(E)
  <2>1. {i \in DOMAIN suite : suite[i].expected = label /\ suite[i].predicted = label} = E \cap P
    BY DEF Expected, Predicted
  <2> QED BY <2>1 DEF Confusion, PredictedCount, Support, Expected, Predicted
<1>3. IsFiniteSet(E) /\ IsFiniteSet(P)
  <2>1. E \in SUBSET DOMAIN suite /\ P \in SUBSET DOMAIN suite
    BY DEF Expected, Predicted
  <2> QED BY <1>1, <2>1, FS_Subset
<1> HIDE DEF E, P
<1>4. /\ IsFiniteSet(E \cap P) /\ E \cap P \in SUBSET E /\ E \cap P \in SUBSET P
      /\ Cardinality(E \cap P) \in Nat /\ Cardinality(E) \in Nat /\ Cardinality(P) \in Nat
  BY <1>3, FS_Subset, FS_CardinalityType
<1>5. /\ Cardinality(E \cap P) <= Cardinality(E) /\ Cardinality(E \cap P) <= Cardinality(P)
      /\ Cardinality(E \cap P) = Cardinality(E) => E \cap P = E
      /\ Cardinality(E \cap P) = Cardinality(P) => E \cap P = P
  BY <1>3, <1>4, FS_Subset
<1>6. Cardinality(E \cap P) = Cardinality(P) /\ Cardinality(E \cap P) = Cardinality(E) <=> E = P
  <2>1. E = P => E \cap P = E /\ E \cap P = P
    OBVIOUS
  <2> QED BY <1>5, <2>1
<1> QED BY <1>2, <1>4, <1>5, <1>6 DEF E, P

\* _f1 of t / p and t / s is at most 1, and 1 only if the three are equal.
LEMMA F1Numbers ==
    ASSUME NEW t \in Nat \ {0}, NEW p \in Nat, NEW s \in Nat, t <= p, t <= s
    PROVE  LET n == (2 * (p * s)) * (t * t)
               d == (t * s + t * p) * (p * s)
           IN  /\ n \in Nat /\ d \in Nat /\ n <= d /\ d > 0
               /\ n = d <=> t = p /\ t = s
<1>1. PICK q \in Nat : q = p * s
  OBVIOUS
<1>2. PICK u \in Nat : u = t * t
  OBVIOUS
<1>3. PICK v \in Nat : v = t * s
  OBVIOUS
<1>4. PICK w \in Nat : w = t * p
  OBVIOUS
<1>5. /\ u <= v /\ (t < s => u + t <= v) /\ u <= w /\ (t < p => u + t <= w)
      /\ (t = s => u = v) /\ (t = p => u = w)
  BY <1>2, <1>3, <1>4, Monotone
<1>6. q > 0 /\ u > 0
  <2>1. p > 0 /\ s > 0 /\ t > 0
    OBVIOUS
  <2>2. p * s > 0 /\ t * t > 0
    BY <2>1
  <2> QED BY <1>1, <1>2, <2>2
<1>7. /\ (2 * (p * s)) * (t * t) = q * (u + u)
      /\ (t * s + t * p) * (p * s) = q * (v + w)
  BY <1>1, <1>2, <1>3, <1>4
<1>8. /\ q * (u + u) \in Nat /\ q * (v + w) \in Nat
      /\ u + u <= v + w => q * (u + u) <= q * (v + w)
      /\ u + u < v + w => q * (u + u) + q <= q * (v + w)
  <2>1. u + u \in Nat /\ v + w \in Nat
    OBVIOUS
  <2> QED BY <2>1, Monotone
<1>9. u + u <= v + w /\ (u + u = v + w <=> t = p /\ t = s)
  <2>1. u + u <= v + w
    BY <1>5
  <2>2. t = p /\ t = s => u + u = v + w
    BY <1>5
  <2>3. t # p \/ t # s => u + u < v + w
    BY <1>5
  <2> QED BY <2>1, <2>2, <2>3
<1>10. q * (v + w) > 0
  <2>1. v + w \in Nat \ {0}
    BY <1>5, <1>6
  <2> QED BY <1>6, <2>1
<1>11. /\ q * (u + u) <= q * (v + w)
       /\ q * (u + u) = q * (v + w) <=> t = p /\ t = s
  <2>1. PICK x \in Nat : x = q * (u + u)
    BY <1>8
  <2>2. PICK y \in Nat : y = q * (v + w)
    BY <1>8
  <2>3. /\ u + u <= v + w => x <= y
        /\ u + u < v + w => x + q <= y
        /\ u + u = v + w => x = y
    BY <1>8, <2>1, <2>2
  <2>4. x <= y /\ (x = y <=> u + u = v + w)
    BY <1>6, <1>9, <2>3
  <2> QED BY <1>9, <2>1, <2>2, <2>4
<1> QED BY <1>7, <1>8, <1>10, <1>11

LEMMA LabelF1Facts ==
    ASSUME NEW suite \in Seq(LabeledCase), NEW label, Support(suite, label) > 0
    PROVE  LET f == LabelF1(suite, label)
           IN  /\ f \in Ratio /\ f[1] <= f[2] /\ f[2] > 0
               /\ Confusion(suite, label, label) = 0 => f[1] = 0
               /\ f[1] = f[2] <=> Expected(suite, label) = Predicted(suite, label)
<1>1. PICK t \in Nat : t = Confusion(suite, label, label)
  BY CountsOfLabel
<1>2. PICK p \in Nat : p = PredictedCount(suite, label)
  BY CountsOfLabel
<1>3. PICK s \in Nat : s = Support(suite, label)
  BY CountsOfLabel
<1>4. /\ t <= p /\ t <= s /\ s > 0
      /\ t = p /\ t = s <=> Expected(suite, label) = Predicted(suite, label)
  BY <1>1, <1>2, <1>3, CountsOfLabel
<1> DEFINE P == IF p = 0 THEN <<0, 1>> ELSE <<t, p>>
           R == IF s = 0 THEN <<0, 1>> ELSE <<t, s>>
<1>5. LabelF1(suite, label) = F1(P, R)
  BY <1>1, <1>2, <1>3 DEF LabelF1
<1>6. CASE t = 0
  <2>1. P[1] = 0 /\ R[1] = 0 /\ P[2] \in Nat /\ R[2] \in Nat
    BY <1>4, <1>6
  <2>2. Plus(P, R)[1] = 0
    <3> HIDE DEF P, R
    <3> QED BY <2>1 DEF Plus
  <2>3. LabelF1(suite, label) = <<0, 1>>
    BY <1>5, <2>2 DEF F1
  <2> QED BY <1>1, <1>4, <1>6, <2>3 DEF Ratio
<1>7. CASE t # 0
  <2>1. P = <<t, p>> /\ R = <<t, s>> /\ t \in Nat \ {0}
    BY <1>4, <1>7
  <2>2. Plus(P, R) = <<t * s + t * p, p * s>>
    BY <2>1 DEF Plus
  <2>3. t * s + t * p # 0
    <3>1. t * s \in Nat \ {0} /\ t * p \in Nat
      BY <1>4, <2>1
    <3> QED BY <3>1
  <2>4. F1(P, R) = <<(2 * (p * s)) * (t * t), (t * s + t * p) * (p * s)>>
    <3>1. PICK m : m = t * s + t * p
      OBVIOUS
    <3>2. PICK q : q = p * s
      OBVIOUS
    <3>3. Plus(P, R) = <<m, q>> /\ m # 0
      BY <2>2, <2>3, <3>1, <3>2
    <3>4. Times(P, R) = <<t * t, q>>
      BY <2>1, <3>2 DEF Times
    <3> HIDE DEF P, R
    <3>5. F1(P, R) = Times(<<2 * q, m>>, <<t * t, q>>)
      BY <3>3, <3>4 DEF F1
    <3>6. F1(P, R) = <<(2 * q) * (t * t), m * q>>
      BY <3>5 DEF Times
    <3> QED BY <3>1, <3>2, <3>6
  <2>5. PICK n : n = (2 * (p * s)) * (t * t)
    OBVIOUS
  <2>6. PICK d : d = (t * s + t * p) * (p * s)
    OBVIOUS
  <2>7. n \in Nat /\ d \in Nat /\ n <= d /\ d > 0 /\ (n = d <=> t = p /\ t = s)
    BY <1>4, <2>1, <2>5, <2>6, F1Numbers
  <2>8. LabelF1(suite, label) = <<n, d>>
    BY <1>5, <2>4, <2>5, <2>6
  <2> QED BY <1>1, <1>4, <1>7, <2>7, <2>8 DEF Ratio
<1> QED BY <1>6, <1>7

Truth(suite) == {suite[i].expected : i \in DOMAIN suite}

\* macro_f1 is the recursive sum over the labels of the ground truth.
LEMMA MacroIsSum ==
    ASSUME NEW suite \in Seq(LabeledCase), suite # <<>>
    PROVE  /\ IsFiniteSet(Truth(suite)) /\ Truth(suite) # {}
           /\ \E g, f, c :
                 /\ SumsUp(g, f, Truth(suite), c)
                 /\ \A label \in Truth(suite) : f[label] = LabelF1(suite, label)
                 /\ MacroF1(suite) = <<g[Truth(suite)][1] * 1,
                                       g[Truth(suite)][2] * Cardinality(Truth(suite))>>
<1> DEFINE scored == {label \in Labels(suite) : Support(suite, label) > 0}
<1>1. PICK S : S = Truth(suite)
  OBVIOUS
<1>2. IsFiniteSet(DOMAIN suite) /\ DOMAIN suite # {}
  <2>1. PICK n \in Nat \ {0} : n = Len(suite)
    OBVIOUS
  <2>2. DOMAIN suite = 1..n /\ 1 \in 1..n
    BY <2>1
  <2>3. IsFiniteSet(1..n)
    BY FS_Interval
  <2> QED BY <2>2, <2>3
<1>3. IsFiniteSet(S) /\ S # {}
  <2>1. S # {}
    BY <1>1, <1>2 DEF Truth
  <2> DEFINE at == [i \in DOMAIN suite |-> suite[i].expected]
  <2>2. at \in Surjection(DOMAIN suite, S)
    BY <1>1 DEF Surjection, Truth
  <2> HIDE DEF at
  <2> QED BY <1>2, <2>1, <2>2, FS_Surjection
<1>4. \A label : Support(suite, label) > 0 <=> label \in S
  <2>1. ASSUME NEW label PROVE Support(suite, label) > 0 <=> label \in S
    <3>1. IsFiniteSet(Expected(suite, label))
      <4>1. Expected(suite, label) \in SUBSET DOMAIN suite
        BY DEF Expected
      <4> QED BY <1>2, <4>1, FS_Subset
    <3>2. Support(suite, label) = Cardinality(Expected(suite, label))
      BY DEF Support, Expected
    <3>3. Expected(suite, label) # {} <=> label \in S
      BY <1>1 DEF Expected, Truth
    <3>4. /\ Cardinality(Expected(suite, label)) \in Nat
          /\ Cardinality(Expected(suite, label)) = 0 <=> Expected(suite, label) = {}
      BY <3>1, FS_CardinalityType, FS_EmptySet
    <3> QED BY <3>2, <3>3, <3>4
  <2> QED BY <2>1
<1>5. scored = S
  <2>1. S \subseteq Labels(suite)
    BY <1>1 DEF Truth, Labels
  <2> QED BY <1>4, <2>1
<1> DEFINE f == [label \in scored |-> LabelF1(suite, label)]
<1>6. DOMAIN f = S /\ \A label \in S : f[label] = LabelF1(suite, label)
  BY <1>5
<1>7. \A label \in S : f[label] \in Ratio
  BY <1>4, <1>6, LabelF1Facts
<1>8. PICK g :
        /\ SumsUp(g, f, DOMAIN f, AnyFirst(DOMAIN f))
        /\ g = CHOOSE k : k = [s \in SUBSET DOMAIN f |->
                                IF s = {} THEN <<0, 1>>
                                ELSE FractionPlus(f[CHOOSE x \in s : TRUE],
                                                  k[s \ {CHOOSE x \in s : TRUE}])]
  <2> HIDE DEF f
  <2> QED BY <1>3, <1>6, <1>7, FractionTotalIsSum
<1>9. FoldFunction(Plus, <<0, 1>>, f) = g[DOMAIN f]
  <2> HIDE DEF f
  <2> QED BY Zenon, <1>8 DEF FoldFunction, FoldFunctionOnSet, MapThenFoldSet, Plus, FractionPlus
<1>10. MacroF1(suite) = Times(g[S], <<1, Cardinality(S)>>)
  <2>1. MacroF1(suite) = Times(FoldFunction(Plus, <<0, 1>>, f), <<1, Cardinality(scored)>>)
    BY Zenon, <1>3, <1>5 DEF MacroF1
  <2> QED BY Zenon, <1>5, <1>6, <1>9, <2>1
<1> HIDE DEF f
<1>11. MacroF1(suite) = <<g[S][1] * 1, g[S][2] * Cardinality(S)>>
  BY <1>10 DEF Times
<1> QED BY <1>1, <1>3, <1>6, <1>8, <1>11

\* The three ways to answer a case: right, too lenient, too strict.
LEMMA CasesSplit ==
    ASSUME NEW suite \in Seq(LabeledCase)
    PROVE  LET right == {i \in DOMAIN suite : suite[i].expected = suite[i].predicted}
               dangerous == {i \in DOMAIN suite : IsDangerousError(suite[i])}
               strict == {i \in DOMAIN suite :
                            Severity(suite[i].predicted) < Severity(suite[i].expected)}
           IN  /\ Cardinality(right) + Cardinality(dangerous) + Cardinality(strict) = Len(suite)
               /\ Cardinality(right) \in Nat
               /\ Cardinality(right) >= Len(suite) <=> right = DOMAIN suite
<1> DEFINE right == {i \in DOMAIN suite : suite[i].expected = suite[i].predicted}
           dangerous == {i \in DOMAIN suite : IsDangerousError(suite[i])}
           strict == {i \in DOMAIN suite :
                        Severity(suite[i].predicted) < Severity(suite[i].expected)}
<1>1. PICK n \in Nat : n = Len(suite)
  OBVIOUS
<1>2. DOMAIN suite = 1..n
  BY <1>1
<1>3. IsFiniteSet(1..n) /\ Cardinality(1..n) = n
  BY FS_Interval
<1>4. ASSUME NEW i \in 1..n
      PROVE  /\ i \in right \/ i \in dangerous \/ i \in strict
             /\ ~(i \in right /\ i \in dangerous) /\ ~(i \in right /\ i \in strict)
             /\ ~(i \in dangerous /\ i \in strict)
  <2>1. suite[i].expected \in Status /\ suite[i].predicted \in Status /\ i \in DOMAIN suite
    <3>1. i \in DOMAIN suite /\ suite[i] \in LabeledCase
      BY <1>1, <1>2
    <3> QED BY <3>1 DEF LabeledCase
  <2>2. PICK x \in Status : x = suite[i].expected
    BY <2>1
  <2>3. PICK y \in Status : y = suite[i].predicted
    BY <2>1
  <2>4. /\ i \in right <=> x = y
        /\ i \in dangerous <=> Severity(y) > Severity(x)
        /\ i \in strict <=> Severity(y) < Severity(x)
    BY <2>1, <2>2, <2>3 DEF IsDangerousError
  <2>5. /\ Severity(x) \in Nat /\ Severity(y) \in Nat
        /\ Severity(x) = Severity(y) <=> x = y
    BY DEF Severity, Status
  <2> HIDE DEF right, dangerous, strict
  <2> QED BY <2>4, <2>5
<1>5. /\ right \in SUBSET (1..n) /\ dangerous \in SUBSET (1..n) /\ strict \in SUBSET (1..n)
  BY <1>2
<1> HIDE DEF right, dangerous, strict
<1>6. IsFiniteSet(right) /\ IsFiniteSet(dangerous) /\ IsFiniteSet(strict)
  BY <1>3, <1>5, FS_Subset
<1>7. /\ Cardinality(right) \in Nat /\ Cardinality(dangerous) \in Nat
      /\ Cardinality(strict) \in Nat
  BY <1>6, FS_CardinalityType
<1>8. PICK wrong : wrong = dangerous \cup strict
  OBVIOUS
<1>9. /\ dangerous \cap strict = {} /\ right \cap wrong = {} /\ right \cup wrong = 1..n
  BY <1>4, <1>5, <1>8
<1>10. /\ IsFiniteSet(wrong)
       /\ Cardinality(wrong) = Cardinality(dangerous) + Cardinality(strict) - Cardinality({})
  BY <1>6, <1>8, <1>9, FS_Union
<1>11. Cardinality(1..n) = Cardinality(right) + Cardinality(wrong) - Cardinality({})
  <2>1. Cardinality(right \cup wrong)
          = Cardinality(right) + Cardinality(wrong) - Cardinality(right \cap wrong)
    BY <1>6, <1>10, FS_Union
  <2> QED BY Zenon, <1>9, <2>1
<1>12. Cardinality({}) = 0
  BY FS_EmptySet
<1>13. Cardinality(right) + Cardinality(dangerous) + Cardinality(strict) = n
  BY <1>3, <1>7, <1>10, <1>11, <1>12
<1>14. Cardinality(right) >= n <=> right = 1..n
  <2>1. /\ Cardinality(right) <= n
        /\ Cardinality(right) = n => right = 1..n
    BY <1>3, <1>5, FS_Subset
  <2> QED BY <1>3, <1>7, <2>1
<1> QED BY <1>1, <1>2, <1>7, <1>13, <1>14 DEF right, dangerous, strict

\* A label is never missed nor guessed, for all labels of the truth, exactly when
\* every case is answered right.
LEMMA RightEverywhere ==
    ASSUME NEW suite \in Seq(LabeledCase)
    PROVE  (\A label \in Truth(suite) : Expected(suite, label) = Predicted(suite, label))
              <=> {i \in DOMAIN suite : suite[i].expected = suite[i].predicted} = DOMAIN suite
<1>1. ASSUME \A label \in Truth(suite) : Expected(suite, label) = Predicted(suite, label),
             NEW i \in DOMAIN suite
      PROVE  suite[i].expected = suite[i].predicted
  <2>1. PICK label \in Truth(suite) : label = suite[i].expected
    BY DEF Truth
  <2>2. i \in Expected(suite, label)
    BY <2>1 DEF Expected
  <2>3. i \in Predicted(suite, label)
    BY <1>1, <2>2
  <2> QED BY <2>1, <2>3 DEF Predicted
<1>2. ASSUME \A i \in DOMAIN suite : suite[i].expected = suite[i].predicted,
             NEW label
      PROVE  Expected(suite, label) = Predicted(suite, label)
  BY <1>2 DEF Expected, Predicted
<1> QED BY <1>1, <1>2

LEMMA SkewExposed ==
    ASSUME NEW suite \in Seq(LabeledCase), suite # <<>>
    PROVE  LET missed == {label \in Truth(suite) : Confusion(suite, label, label) = 0}
           IN  /\ AtMost(MacroF1(suite), <<Cardinality(Truth(suite)) - Cardinality(missed),
                                           Cardinality(Truth(suite))>>)
               /\ AtMost(<<1, 1>>, MacroF1(suite)) <=> AtMost(<<1, 1>>, Accuracy(suite))
<1>1. PICK T : T = Truth(suite)
  OBVIOUS
<1>2. PICK M : M = {label \in T : Confusion(suite, label, label) = 0}
  OBVIOUS
<1>3. PICK g, f, c : /\ SumsUp(g, f, T, c)
                     /\ \A label \in T : f[label] = LabelF1(suite, label)
                     /\ MacroF1(suite) = <<g[T][1] * 1, g[T][2] * Cardinality(T)>>
  BY <1>1, MacroIsSum
<1>4. IsFiniteSet(T) /\ T # {} /\ M \in SUBSET T
  BY <1>1, <1>2, MacroIsSum
<1>5. ASSUME NEW label \in T
      PROVE  /\ f[label][1] <= f[label][2] /\ f[label][2] > 0
             /\ label \in M => f[label][1] = 0
             /\ f[label][1] = f[label][2] <=> Expected(suite, label) = Predicted(suite, label)
  <2>1. Support(suite, label) > 0
    <3>1. PICK i \in DOMAIN suite : suite[i].expected = label
      BY <1>1 DEF Truth
    <3>2. /\ Support(suite, label) \in Nat
          /\ Support(suite, label) = Cardinality(Expected(suite, label))
      BY CountsOfLabel DEF Support, Expected
    <3>3. IsFiniteSet(Expected(suite, label)) /\ i \in Expected(suite, label)
      <4>1. PICK n \in Nat : n = Len(suite)
        OBVIOUS
      <4>2. IsFiniteSet(1..n) /\ Expected(suite, label) \in SUBSET (1..n)
        BY <4>1, FS_Interval DEF Expected
      <4> QED BY <3>1, <4>2, FS_Subset DEF Expected
    <3>4. Cardinality(Expected(suite, label)) # 0
      BY <3>3, FS_EmptySet
    <3> QED BY <3>2, <3>4
  <2>2. f[label] = LabelF1(suite, label)
    BY <1>3
  <2> QED BY <1>2, <2>1, <2>2, LabelF1Facts
<1>6. PICK n \in Nat \ {0} : n = Cardinality(T)
  BY <1>4, FS_CardinalityType, FS_EmptySet
<1>7. PICK m \in Nat : m = Cardinality(M) /\ n - m \in Nat /\ Cardinality(T \ M) = n - m
  <2>1. IsFiniteSet(M) /\ IsFiniteSet(T \ M) /\ M \cap (T \ M) = {} /\ M \cup (T \ M) = T
    BY <1>4, FS_Subset
  <2>2. Cardinality(T) = Cardinality(M) + Cardinality(T \ M) - Cardinality({})
    <3>1. Cardinality(M \cup (T \ M))
            = Cardinality(M) + Cardinality(T \ M) - Cardinality(M \cap (T \ M))
      BY <2>1, FS_Union
    <3> QED BY Zenon, <2>1, <3>1
  <2>3. /\ Cardinality(M) \in Nat /\ Cardinality(T \ M) \in Nat /\ Cardinality({}) = 0
    BY <2>1, FS_CardinalityType, FS_EmptySet
  <2>4. PICK x \in Nat : x = Cardinality(M)
    BY <2>3
  <2>5. PICK y \in Nat : y = Cardinality(T \ M)
    BY <2>3
  <2>6. n = x + y
    BY <1>6, <2>2, <2>3, <2>4, <2>5
  <2>7. n - x \in Nat /\ y = n - x
    BY <2>6
  <2> QED BY Zenon, <2>4, <2>5, <2>7
<1>8. g[T] \in Ratio /\ g[T][1] <= Cardinality(T \ M) * g[T][2]
  <2>1. /\ \A x \in T : f[x][1] <= f[x][2]
        /\ \A x \in T : x \in M => f[x][1] = 0
    BY <1>5
  <2>2. SumsUp(g, f, T, c)
    BY <1>3
  <2> QED BY <2>1, <2>2, SharesBound
<1>9. /\ g[T][2] > 0 /\ g[T][1] <= Cardinality(T) * g[T][2]
      /\ g[T][1] = Cardinality(T) * g[T][2] <=> \A x \in T : f[x][1] = f[x][2]
  <2>1. \A x \in T : f[x][1] <= f[x][2] /\ f[x][2] > 0
    BY <1>5
  <2> QED BY <1>3, <2>1, AllSharesFull
<1>10. PICK A \in Nat, B \in Nat : A = g[T][1] /\ B = g[T][2]
  BY <1>8 DEF Ratio
<1>11. MacroF1(suite) = <<A, B * n>>
  <2>1. A * 1 = A
    OBVIOUS
  <2> QED BY Zenon, <1>3, <1>6, <1>10, <2>1
<1>12. AtMost(MacroF1(suite), <<n - m, n>>)
  <2>1. PICK k \in Nat : k = n - m
    BY <1>7
  <2>2. A <= k * B
    BY <1>7, <1>8, <1>10, <2>1
  <2>3. n * A <= n * (k * B)
    BY <2>2, Monotone
  <2>4. A * n <= k * (B * n)
    BY <2>3
  <2> QED BY <1>11, <2>1, <2>4 DEF AtMost
<1>13. AtMost(<<1, 1>>, MacroF1(suite)) <=>
          \A label \in T : Expected(suite, label) = Predicted(suite, label)
  <2>1. A <= n * B /\ (A = n * B <=> \A x \in T : f[x][1] = f[x][2])
    BY Zenon, <1>6, <1>9, <1>10
  <2>2. AtMost(<<1, 1>>, MacroF1(suite)) <=> A = n * B
    <3>1. PICK p \in Nat : p = B * n
      OBVIOUS
    <3>2. AtMost(<<1, 1>>, MacroF1(suite)) <=> 1 * p <= A * 1
      BY <1>11, <3>1 DEF AtMost
    <3>3. p = n * B
      BY <3>1
    <3> QED BY <2>1, <3>2, <3>3
  <2> QED BY <1>5, <2>1, <2>2
<1>14. AtMost(<<1, 1>>, Accuracy(suite)) <=>
          {i \in DOMAIN suite : suite[i].expected = suite[i].predicted} = DOMAIN suite
  <2>1. PICK r : r = {i \in DOMAIN suite : suite[i].expected = suite[i].predicted}
    OBVIOUS
  <2>2. Cardinality(r) \in Nat /\ (Cardinality(r) >= Len(suite) <=> r = DOMAIN suite)
    BY <2>1, CasesSplit
  <2>3. Accuracy(suite) = <<Cardinality(r), Len(suite)>>
    BY <2>1 DEF Accuracy
  <2>4. AtMost(<<1, 1>>, Accuracy(suite)) <=> 1 * Len(suite) <= Cardinality(r) * 1
    BY <2>3 DEF AtMost
  <2> QED BY <2>1, <2>2, <2>4
<1>15. AtMost(<<1, 1>>, MacroF1(suite)) <=> AtMost(<<1, 1>>, Accuracy(suite))
  BY <1>1, <1>13, <1>14, RightEverywhere
<1> QED BY <1>1, <1>2, <1>6, <1>7, <1>12, <1>15

\* MacroExposesSkew, for a suite of any length: a label of the truth that is never met
\* takes its whole share from macro-F1, which is full exactly when the accuracy is; and
\* right, lenient and strict answers are all there are.
THEOREM SkewShown == EvalSpec => []MacroExposesSkew
<1>1. JudgementInv => MacroExposesSkew
  <2> SUFFICES ASSUME JudgementInv, cases # <<>> PROVE MacroExposesSkew
    BY DEF MacroExposesSkew
  <2>1. PICK suite \in Seq(LabeledCase) : suite = cases
    BY DEF JudgementInv, LabeledCase
  <2>2. suite # <<>>
    BY <2>1
  <2>3. LET missed == {label \in Truth(suite) : Confusion(suite, label, label) = 0}
        IN  /\ AtMost(MacroF1(suite), <<Cardinality(Truth(suite)) - Cardinality(missed),
                                        Cardinality(Truth(suite))>>)
            /\ AtMost(<<1, 1>>, MacroF1(suite)) <=> AtMost(<<1, 1>>, Accuracy(suite))
    BY <2>2, SkewExposed
  <2>4. LET dangerous == {i \in DOMAIN suite : IsDangerousError(suite[i])}
            strict == {i \in DOMAIN suite :
                         Severity(suite[i].predicted) < Severity(suite[i].expected)}
        IN  Accuracy(suite)[1] + Cardinality(dangerous) + Cardinality(strict) = Len(suite)
    BY CasesSplit DEF Accuracy
  <2> QED BY <2>1, <2>3, <2>4 DEF MacroExposesSkew, Truth
<1> QED BY <1>1, JudgementHolds, PTL
================================================================================
