-------------------------------- MODULE Scoring --------------------------------
(***************************************************************************)
(* The judgement of one draft: its Trust Score (models/trust.py), its ATS  *)
(* Score (evaluation/scorer.py), the gate (models/workflow.py), and what a *)
(* rejected draft is told (orchestration/feedback.py, rejection.py).       *)
(*                                                                         *)
(* A score is a number of hundredths of a point: both are rounded to two   *)
(* decimals, half to even.  Below 2000 claims or keywords every tie is a   *)
(* float without error (a multiple of 1/8), so the rounding of the exact   *)
(* fraction is what Python computes.                                       *)
(***************************************************************************)
EXTENDS Naturals, FiniteSets

CONSTANTS
    MaxClaims,     \* claims the model finds in a draft
    MaxKeywords,   \* target keywords of the job, without repetition
    Gate           \* gates <<min_trust_score, min_ats_score>>, in hundredths

\* A hundred points, in hundredths.
Full == 10000
Score == 0..Full

ASSUME ScoringAssumption ==
    /\ MaxClaims \in Nat
    /\ MaxKeywords \in Nat
    /\ Gate \subseteq Score \X Score

VARIABLES
    gate,       \* the run's gate
    claims,     \* how many claims got which verdict
    keywords,   \* [matched, missing]: how many of each
    trust,      \* the Trust Score
    ats,        \* the ATS Score
    stage,      \* the next step
    feedback,   \* build_feedback: the sections of its text
    reason      \* build_rejection_reason: <<score, shown, needed>> per miss

vars == <<gate, claims, keywords, trust, ats, stage, feedback, reason>>

\* ClaimStatus; of the claims that are UNSUPPORTED those of category OTHER are
\* not hallucinations (is_hallucination).
Verdict == {"supported", "partial", "hallucination", "unsupported_other"}

Count(c) == c["supported"] + c["partial"] + c["hallucination"] + c["unsupported_other"]

Claims == {c \in [Verdict -> 0..MaxClaims] : Count(c) <= MaxClaims}

\* n / d to the nearest integer, half to even.
Round(n, d) ==
    LET q == n \div d
        twice == 2 * (n % d)
    IN  IF twice > d \/ (twice = d /\ q % 2 = 1) THEN q + 1 ELSE q

\* (Mutants of ComputeScore: claims of category OTHER do not count as claims;
\* the score is rounded to whole points.)
ScoreOverFacts(c) ==
    LET facts == Count(c) - c["unsupported_other"] - c["hallucination"]
    IN  IF facts = 0 THEN 0 ELSE Round(Full * (2 * c["supported"] + 2 * c["partial"] + c["hallucination"]), 2 * facts)

ScoreInPoints(c) ==
    IF Count(c) = 0 THEN 0
    ELSE 100 * Round(100 * (2 * c["supported"] + c["partial"]), 2 * Count(c))

\* TrustReport.compute_score: a supported claim counts full, a partial one half.
ComputeScore(c) ==
    IF Count(c) = 0 THEN 0
    ELSE Round(Full * (2 * c["supported"] + c["partial"]), 2 * Count(c))

\* score_keywords
ScoreKeywords(k) ==
    IF k.matched + k.missing = 0 THEN Full
    ELSE Round(Full * k.matched, k.matched + k.missing)

\* QualityGate.passes
Passes == trust >= gate[1] /\ ats >= gate[2]

\* {score:.0f}
Shown(score) == Round(score, 100)

\* (Mutant of BuildFeedback: one section only, the first that applies.)
FirstSection ==
    IF claims["hallucination"] > 0 THEN {"remove"}
    ELSE IF claims["partial"] > 0 THEN {"soften"}
    ELSE IF keywords.missing > 0 THEN {"keywords"}
    ELSE {"scores"}

BuildFeedback ==
    LET specific == (IF claims["hallucination"] > 0 THEN {"remove"} ELSE {})
                    \cup (IF claims["partial"] > 0 THEN {"soften"} ELSE {})
                    \cup (IF keywords.missing > 0 THEN {"keywords"} ELSE {})
    IN  IF specific = {} THEN {"scores"} ELSE specific

\* Without a miss the text says "for reasons other than the thresholds".
BuildRejectionReason ==
    (IF trust < gate[1] THEN {<<"trust", Shown(trust), Shown(gate[1])>>} ELSE {})
    \cup (IF ats < gate[2] THEN {<<"ats", Shown(ats), Shown(gate[2])>>} ELSE {})

-----------------------------------------------------------------------------
Init ==
    /\ gate \in Gate
    /\ claims = [v \in Verdict |-> 0]
    /\ keywords = [matched |-> 0, missing |-> 0]
    /\ trust = 0
    /\ ats = 0
    /\ stage = "trust"
    /\ feedback = {}
    /\ reason = {}

\* The Trust Harness: the model classifies, the code scores.
ScoreTrust ==
    /\ stage = "trust"
    /\ claims' \in Claims
    /\ trust' = ComputeScore(claims')
    /\ stage' = "ats"
    /\ UNCHANGED <<gate, keywords, ats, feedback, reason>>

\* The ATS evaluation.
ScoreAts ==
    /\ stage = "ats"
    /\ \E total \in 0..MaxKeywords :
         \E matched \in 0..total :
            keywords' = [matched |-> matched, missing |-> total - matched]
    /\ ats' = ScoreKeywords(keywords')
    /\ stage' = "judge"
    /\ UNCHANGED <<gate, claims, trust, feedback, reason>>

\* _persist: a draft that did not pass is stored with what to tell about it.
Judge ==
    /\ stage = "judge"
    /\ stage' = IF Passes THEN "passed" ELSE "rejected"
    /\ feedback' = IF Passes THEN {} ELSE BuildFeedback
    /\ reason' = IF Passes THEN {} ELSE BuildRejectionReason
    /\ UNCHANGED <<gate, claims, keywords, trust, ats>>

Next == ScoreTrust \/ ScoreAts \/ Judge

Spec == Init /\ [][Next]_vars

-----------------------------------------------------------------------------
(* Properties.                                                             *)

TypeOK ==
    /\ gate \in Gate
    /\ claims \in Claims
    /\ keywords \in [matched : 0..MaxKeywords, missing : 0..MaxKeywords]
    /\ trust \in Score
    /\ ats \in Score
    /\ stage \in {"trust", "ats", "judge", "passed", "rejected"}
    /\ feedback \subseteq {"remove", "soften", "keywords", "scores"}
    /\ reason \subseteq {"trust", "ats"} \X (0..100) \X (0..100)

\* The gate on the rounded scores decides as the rubric does: a draft passes
\* exactly if the claims that are not supported, and half of those that are
\* partly, are no more of all claims than the gate lets miss, if there is a
\* claim at all (or nothing is asked), and so are the missing keywords.  (So it
\* is for gates of whole points and less than 200 claims and keywords, and of
\* multiples of five points, as the default is, less than 1000: two supported of
\* 201 claims pass a gate of one point, and a gate of 66.67 lets two thirds pass.)
GateIsExact ==
    stage \in {"passed", "rejected"} =>
        LET lost == 2 * (claims["hallucination"] + claims["unsupported_other"]) + claims["partial"]
            total == keywords.matched + keywords.missing
        IN  (stage = "passed") <=>
                /\ Count(claims) = 0 => gate[1] = 0
                /\ Full * lost <= (Full - gate[1]) * 2 * Count(claims)
                /\ Full * keywords.missing <= (Full - gate[2]) * total

\* "Whichever threshold(s) the final draft actually missed - only Trust, only
\* ATS, or both": the reason stored with a rejected draft names these and no
\* other, and never falls back on "other reasons".  The numbers it shows never
\* contradict it by more than their rounding: only a score at most half a point
\* below a threshold of whole points, or a point below another one, may be shown
\* as equal to it.
MissesNamed ==
    stage = "rejected" =>
        /\ \E m \in reason : TRUE
        /\ (\E m \in reason : m[1] = "trust") <=> trust < gate[1]
        /\ (\E m \in reason : m[1] = "ats") <=> ats < gate[2]
        /\ \A m \in reason :
              LET needed == IF m[1] = "trust" THEN gate[1] ELSE gate[2]
                  score  == IF m[1] = "trust" THEN trust ELSE ats
              IN  \/ m[2] < m[3]
                  \/ m[2] = m[3] /\ needed - score <= (IF needed % 100 = 0 THEN 50 ELSE 100)

\* "Specific feedback": the suggestions stored with a rejected draft go into
\* every score it missed.  A missed ATS Score always yields keywords; a missed
\* Trust Score yields claims to remove or soften, and only if no claim is a
\* hallucination or partly supported does it yield none.
MissesAddressed ==
    stage = "rejected" =>
        /\ ats < gate[2] => "keywords" \in feedback
        /\ trust < gate[1] =>
              \/ feedback \cap {"remove", "soften", "scores"} # {}
              \/ /\ claims["hallucination"] + claims["partial"] = 0
                 /\ keywords.missing > 0

\* A rejected draft is told of every score it missed, and of no other, by the reason
\* stored with it, and the suggestions next to it help with each.
MissesTold == MissesNamed /\ MissesAddressed
================================================================================
