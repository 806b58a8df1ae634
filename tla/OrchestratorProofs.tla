--------------------------- MODULE OrchestratorProofs --------------------------
(***************************************************************************)
(* One history: every graph state of Orchestrator, in an invocation, queued *)
(* as a checkpoint or on disk, is a state of one uninterrupted run.  This   *)
(* holds for every cap, every set of scores, every number of invocations,   *)
(* also of overlapping ones, and however late the checkpoints are.          *)
(* Hence also how many nodes an invocation has left (StepsCount), and, for  *)
(* one invocation at a time, the refinement of DurableRun.                  *)
(***************************************************************************)
EXTENDS Orchestrator, WellFoundedInduction, TLAPS, FiniteSetTheorems, SequenceTheorems

Preparing == {"analyze_job", "load_candidate_profile", "retrieve_evidence"}

\* How many drafts and reports a graph state has, and how many nodes ran for it.
Drafted(g) ==
    IF g.next \in {"score_trust", "score_ats", "prepare_rewrite", "end"}
    THEN g.iteration + 1 ELSE g.iteration
TrustScored(g) ==
    IF g.next \in {"score_ats", "prepare_rewrite", "end"} THEN g.iteration + 1 ELSE g.iteration
AtsScored(g) ==
    IF g.next \in {"prepare_rewrite", "end"} THEN g.iteration + 1 ELSE g.iteration
Done(g) ==
    CASE g.next = "analyze_job" -> 0
      [] g.next = "load_candidate_profile" -> 1
      [] g.next = "retrieve_evidence" -> 2
      [] g.next = "write_resume" -> 3 + 4 * g.iteration
      [] g.next = "score_trust" -> 4 + 4 * g.iteration
      [] g.next = "score_ats" -> 5 + 4 * g.iteration
      [] g.next \in {"prepare_rewrite", "end"} -> 6 + 4 * g.iteration

\* The feedback that draft k is written with.
FeedbackFor(k) == IF k = 1 THEN None ELSE <<k - 2, k - 2>>

Shape(g) ==
    /\ g \in GraphState
    /\ g.iteration <= MaxIterations
    /\ g.next \in Preparing => g.iteration = 0
    /\ g.next = "prepare_rewrite" => g.iteration < MaxIterations
    /\ g.next = "end" => g.iteration = MaxIterations
    /\ g.next # "analyze_job" => g.job
    /\ g.next \notin Preparing => g.evidence
    /\ g.feedback = FeedbackFor(g.iteration + 1)

Counts(g) ==
    /\ Len(g.drafts) = Drafted(g)
    /\ Len(g.trustReports) = TrustScored(g)
    /\ Len(g.atsReports) = AtsScored(g)
    /\ Len(g.timings) = Done(g)

Contents(g) ==
    /\ \A k \in 1..Len(g.drafts) :
          g.drafts[k].iteration = k - 1 /\ g.drafts[k].feedback = FeedbackFor(k)
    /\ \A k \in 1..Len(g.trustReports) : g.trustReports[k].iteration = k - 1
    /\ \A k \in 1..Len(g.atsReports) : g.atsReports[k].iteration = k - 1
    /\ \A p \in 1..Len(g.timings) : g.timings[p] = NodeAt(p)

OneRun(g) == Shape(g) /\ Counts(g) /\ Contents(g)

\* What one graph state has, the other has too.
Extends(g, h) ==
    /\ IsPrefixOf(g.drafts, h.drafts)
    /\ IsPrefixOf(g.trustReports, h.trustReports)
    /\ IsPrefixOf(g.atsReports, h.atsReports)
    /\ IsPrefixOf(g.timings, h.timings)

\* What one completed node makes of it.
Advances(g, h) == Extends(g, h) /\ Len(h.timings) = Len(g.timings) + 1

Statuses == {"idle", "running", "ended", "failed", "lost", "not_found", "recursion_error"}

GraphInv == graph \in [Invocation -> GraphState] /\ \A i \in Invocation : OneRun(graph[i])

QueueInv ==
    /\ queue \in [Invocation -> Seq(GraphState)]
    /\ \A i \in Invocation : \A k \in 1..Len(queue[i]) : OneRun(queue[i][k])

DiskInv == disk = None \/ OneRun(disk)

\* Supersteps never outnumber the nodes that the timings list.
StepInv ==
    /\ status \in [Invocation -> Statuses]
    /\ steps \in [Invocation -> Nat]
    /\ \A i \in Invocation :
          /\ status[i] = "idle" => steps[i] = 0
          /\ steps[i] <= Len(graph[i].timings)
          /\ status[i] = "ended" => graph[i].next = "end"
          /\ status[i] # "recursion_error"

HistoryInv == GraphInv /\ QueueInv /\ DiskInv /\ StepInv

-----------------------------------------------------------------------------
(* Sequences.                                                              *)

\* What Append does, for the lists of a graph state.
LEMMA AppendFacts ==
    ASSUME NEW S, NEW s \in Seq(S), NEW e \in S
    PROVE  /\ Append(s, e) \in Seq(S)
           /\ Len(Append(s, e)) = Len(s) + 1
           /\ \A k \in 1..Len(s) : Append(s, e)[k] = s[k]
           /\ Append(s, e)[Len(s) + 1] = e
OBVIOUS

\* Every property of the elements of a list and of the appended one holds of all.
LEMMA LenFacts ==
    ASSUME NEW S, NEW s \in Seq(S)
    PROVE  /\ Len(s) \in Nat
           /\ \A k \in 1..Len(s) : s[k] \in S
OBVIOUS

-----------------------------------------------------------------------------
(* The nodes keep a run a run.                                             *)

\* The node that runs next is the one that NodeAt names.
LEMMA NextNode ==
    ASSUME NEW g, OneRun(g), g.next # "end"
    PROVE  /\ NodeAt(Len(g.timings) + 1) = g.next
           /\ Len(g.timings) \in Nat /\ Len(g.timings) < 6 + 4 * MaxIterations
<1>1. /\ g.iteration \in Nat /\ g.next \in Node /\ Len(g.timings) = Done(g)
      /\ g.iteration <= MaxIterations /\ MaxIterations \in Nat
      /\ g.next = "prepare_rewrite" => g.iteration < MaxIterations
  BY OrchestratorAssumption DEF OneRun, Shape, Counts, GraphState
<1>2. CASE g.next \in Preparing
  <2>1. \/ g.next = "analyze_job" /\ Len(g.timings) = 0
        \/ g.next = "load_candidate_profile" /\ Len(g.timings) = 1
        \/ g.next = "retrieve_evidence" /\ Len(g.timings) = 2
    BY <1>1, <1>2 DEF Preparing, Done
  <2> QED BY <1>1, <2>1 DEF NodeAt
<1>3. CASE g.next = "write_resume"
  <2>1. Len(g.timings) + 1 = 4 + 4 * g.iteration
    BY <1>1, <1>3 DEF Done
  <2>2. (4 + 4 * g.iteration) % 4 = 0 /\ 4 + 4 * g.iteration > 3
    BY <1>1
  <2>3. NodeAt(4 + 4 * g.iteration) = "write_resume"
    BY <2>2 DEF NodeAt
  <2>4. Len(g.timings) = 3 + 4 * g.iteration /\ g.iteration \in Nat
    BY <1>1, <1>3 DEF Done
  <2>5. 3 + 4 * g.iteration < 6 + 4 * MaxIterations
    BY <1>1, <1>3
  <2> QED BY <1>3, <2>1, <2>3, <2>4, <2>5
<1>4. CASE g.next = "score_trust"
  <2>1. Len(g.timings) + 1 = 5 + 4 * g.iteration
    BY <1>1, <1>4 DEF Done
  <2>2. (5 + 4 * g.iteration) % 4 = 1 /\ 5 + 4 * g.iteration > 3
    BY <1>1
  <2>3. NodeAt(5 + 4 * g.iteration) = "score_trust"
    BY <2>2 DEF NodeAt
  <2>4. Len(g.timings) = 4 + 4 * g.iteration /\ g.iteration \in Nat
    BY <1>1, <1>4 DEF Done
  <2>5. 4 + 4 * g.iteration < 6 + 4 * MaxIterations
    BY <1>1, <1>4
  <2> QED BY <1>4, <2>1, <2>3, <2>4, <2>5
<1>5. CASE g.next = "score_ats"
  <2>1. Len(g.timings) + 1 = 6 + 4 * g.iteration
    BY <1>1, <1>5 DEF Done
  <2>2. (6 + 4 * g.iteration) % 4 = 2 /\ 6 + 4 * g.iteration > 3
    BY <1>1
  <2>3. NodeAt(6 + 4 * g.iteration) = "score_ats"
    BY <2>2 DEF NodeAt
  <2>4. Len(g.timings) = 5 + 4 * g.iteration /\ g.iteration \in Nat
    BY <1>1, <1>5 DEF Done
  <2>5. 5 + 4 * g.iteration < 6 + 4 * MaxIterations
    BY <1>1, <1>5
  <2> QED BY <1>5, <2>1, <2>3, <2>4, <2>5
<1>6. CASE g.next = "prepare_rewrite"
  <2>1. Len(g.timings) + 1 = 7 + 4 * g.iteration
    BY <1>1, <1>6 DEF Done
  <2>2. (7 + 4 * g.iteration) % 4 = 3 /\ 7 + 4 * g.iteration > 3
    BY <1>1
  <2>3. NodeAt(7 + 4 * g.iteration) = "prepare_rewrite"
    BY <2>2 DEF NodeAt
  <2>4. Len(g.timings) = 6 + 4 * g.iteration /\ g.iteration \in Nat
    BY <1>1, <1>6 DEF Done
  <2>5. 6 + 4 * g.iteration < 6 + 4 * MaxIterations
    BY <1>1, <1>6
  <2> QED BY <1>6, <2>1, <2>3, <2>4, <2>5
<1> QED BY <1>1, <1>2, <1>3, <1>4, <1>5, <1>6 DEF Node, Preparing

\* The timing of the node that ran is the one that NodeAt names next.
LEMMA TimingKept ==
    ASSUME NEW g, OneRun(g), g.next # "end", NEW t, t = Append(g.timings, g.next)
    PROVE  /\ t \in Seq(Node) /\ Len(t) = Done(g) + 1
           /\ \A p \in 1..Len(t) : t[p] = NodeAt(p)
<1>1. /\ g.timings \in Seq(Node) /\ g.next \in Node /\ Len(g.timings) = Done(g)
      /\ \A p \in 1..Len(g.timings) : g.timings[p] = NodeAt(p)
  BY DEF OneRun, Shape, Counts, Contents, GraphState
<1>2. NodeAt(Len(g.timings) + 1) = g.next
  BY NextNode
<1> QED BY <1>1, <1>2, AppendFacts

\* A list is a prefix of itself and of what it is appended to.
LEMMA PrefixFacts ==
    ASSUME NEW S, NEW s \in Seq(S), NEW e \in S
    PROVE  IsPrefixOf(s, s) /\ IsPrefixOf(s, Append(s, e))
BY AppendFacts, LenFacts DEF IsPrefixOf

\* The fields of a graph state, for the lemmas on the nodes.
LEMMA Fields ==
    ASSUME NEW g, OneRun(g)
    PROVE  /\ g \in GraphState
           /\ g.drafts \in Seq(Draft) /\ g.trustReports \in Seq(TrustReport)
           /\ g.atsReports \in Seq(ATSReport) /\ g.timings \in Seq(Node)
           /\ g.iteration \in Nat /\ MaxIterations \in Nat
BY OrchestratorAssumption DEF OneRun, Shape, GraphState

\* analyze_job, load_candidate_profile and retrieve_evidence append to no list but
\* the timings.
LEMMA PreparationKeepsRun ==
    ASSUME NEW g, OneRun(g), g.next \in Preparing
    PROVE  LET update == CASE g.next = "analyze_job" -> AnalyzeJobUpdate(g)
                           [] g.next = "load_candidate_profile" -> LoadCandidateProfileUpdate(g)
                           [] g.next = "retrieve_evidence" -> RetrieveEvidenceUpdate(g)
               after == [update EXCEPT !.timings = Append(@, g.next)]
           IN  OneRun(after) /\ Advances(g, after)
<1> DEFINE update == CASE g.next = "analyze_job" -> AnalyzeJobUpdate(g)
                       [] g.next = "load_candidate_profile" -> LoadCandidateProfileUpdate(g)
                       [] g.next = "retrieve_evidence" -> RetrieveEvidenceUpdate(g)
           after == [update EXCEPT !.timings = Append(@, g.next)]
           t == Append(g.timings, g.next)
<1>1. t \in Seq(Node) /\ Len(t) = Done(g) + 1 /\ \A p \in 1..Len(t) : t[p] = NodeAt(p)
  BY TimingKept DEF Preparing
<1>2. IsPrefixOf(g.timings, t)
  BY Fields, PrefixFacts DEF Preparing, Node
<1> HIDE DEF t
<1>3. /\ after \in GraphState /\ after.timings = t
      /\ after.drafts = g.drafts /\ after.trustReports = g.trustReports
      /\ after.atsReports = g.atsReports
      /\ after.iteration = g.iteration /\ after.feedback = g.feedback
      /\ after.job /\ after.next = CASE g.next = "analyze_job" -> "load_candidate_profile"
                                      [] g.next = "load_candidate_profile" -> "retrieve_evidence"
                                      [] g.next = "retrieve_evidence" -> "write_resume"
      /\ after.next = "write_resume" => after.evidence
  BY <1>1, Fields DEF t, Preparing, AnalyzeJobUpdate, LoadCandidateProfileUpdate,
     RetrieveEvidenceUpdate, GraphState, Node, OneRun, Shape
<1> HIDE DEF after
<1>4. g.iteration = 0 /\ Shape(g) /\ Counts(g) /\ Contents(g)
  BY DEF OneRun, Shape
<1>5. Shape(after)
  BY <1>3, <1>4 DEF Shape, Preparing
<1>6. Counts(after)
  BY <1>1, <1>3, <1>4, Fields DEF Counts, Drafted, TrustScored, AtsScored, Done, Preparing
<1>7. Contents(after)
  BY <1>1, <1>3, <1>4 DEF Contents
<1>8. Advances(g, after)
  <2>1. Len(after.timings) = Len(g.timings) + 1
    BY <1>1, <1>3, <1>4 DEF Counts
  <2> QED BY <1>2, <1>3, <2>1, Fields, PrefixFacts DEF Advances, Extends, IsPrefixOf
<1> QED BY <1>5, <1>6, <1>7, <1>8 DEF OneRun, after

\* write_resume appends a draft, of this iteration and with this feedback.
LEMMA WriteKeepsRun ==
    ASSUME NEW g, OneRun(g), g.next = "write_resume"
    PROVE  LET after == [WriteResumeUpdate(g) EXCEPT !.timings = Append(@, "write_resume")]
           IN  OneRun(after) /\ Advances(g, after)
<1> DEFINE after == [WriteResumeUpdate(g) EXCEPT !.timings = Append(@, "write_resume")]
           t == Append(g.timings, g.next)
           draft == [iteration |-> g.iteration, feedback |-> g.feedback]
           d == Append(g.drafts, draft)
<1>1. t \in Seq(Node) /\ Len(t) = Done(g) + 1 /\ \A p \in 1..Len(t) : t[p] = NodeAt(p)
  BY TimingKept
<1>2. draft \in Draft
  BY Fields DEF GraphState, Draft
<1>3. /\ d \in Seq(Draft) /\ Len(d) = Len(g.drafts) + 1
      /\ \A k \in 1..Len(g.drafts) : d[k] = g.drafts[k]
      /\ d[Len(g.drafts) + 1].iteration = g.iteration
      /\ d[Len(g.drafts) + 1].feedback = g.feedback
  BY <1>2, Fields, AppendFacts
<1>4. IsPrefixOf(g.timings, t) /\ IsPrefixOf(g.drafts, d)
  BY <1>2, Fields, PrefixFacts DEF Node
<1>0. WriteResumeUpdate(g) = [g EXCEPT !.drafts = d, !.next = "score_trust"]
  BY DEF WriteResumeUpdate
<1> HIDE DEF t, d
<1>5. /\ after \in GraphState /\ after.timings = t
      /\ after.drafts = d /\ after.trustReports = g.trustReports
      /\ after.atsReports = g.atsReports
      /\ after.iteration = g.iteration /\ after.feedback = g.feedback
      /\ after.job = g.job /\ after.evidence = g.evidence /\ after.next = "score_trust"
  <2> DEFINE update == [g EXCEPT !.drafts = d, !.next = "score_trust"]
  <2>0. "score_trust" \in Node \cup {"end"}
    BY DEF Node
  <2>5. g \in GraphState /\ d \in Seq(Draft)
    BY <1>3, Fields
  <2>1. update \in GraphState
    BY <2>0, <2>5 DEF GraphState
  <2>3. update.timings = g.timings
    BY Fields DEF GraphState
  <2>2. after = [update EXCEPT !.timings = t]
    BY <1>0, <2>3 DEF t
  <2> HIDE DEF after
  <2> QED BY <2>1, <2>2, <1>1, <1>3, Fields DEF GraphState, Node
<1> HIDE DEF after
<1>6. Shape(g) /\ Counts(g) /\ Contents(g)
  BY DEF OneRun
<1>7. Shape(after)
  BY <1>5, <1>6 DEF Shape, Preparing
<1>8. Counts(after)
  <2>1. /\ Len(g.drafts) = g.iteration /\ Len(g.trustReports) = g.iteration
        /\ Len(g.atsReports) = g.iteration /\ Done(g) = 3 + 4 * g.iteration
        /\ g.iteration \in Nat
    BY <1>6, Fields DEF Counts, Drafted, TrustScored, AtsScored, Done
  <2>2. /\ Drafted(after) = g.iteration + 1 /\ TrustScored(after) = g.iteration
        /\ AtsScored(after) = g.iteration /\ Done(after) = 4 + 4 * g.iteration
    BY <1>5, <2>1 DEF Drafted, TrustScored, AtsScored, Done
  <2>4. Len(t) = Done(g) + 1 /\ Len(d) = Len(g.drafts) + 1
    BY <1>1, <1>3
  <2>3. /\ Len(after.drafts) = g.iteration + 1 /\ Len(after.trustReports) = g.iteration
        /\ Len(after.atsReports) = g.iteration /\ Len(after.timings) = 4 + 4 * g.iteration
    BY <1>5, <2>1, <2>4
  <2> QED BY <2>2, <2>3 DEF Counts
<1>9. Contents(after)
  <2>1. Len(g.drafts) = g.iteration /\ g.iteration \in Nat
    BY <1>6, Fields DEF Counts, Drafted
  <2>2. g.feedback = FeedbackFor(g.iteration + 1)
    BY <1>6 DEF Shape
  <2>3. ASSUME NEW k \in 1..Len(d)
        PROVE  d[k].iteration = k - 1 /\ d[k].feedback = FeedbackFor(k)
    <3>1. CASE k = Len(g.drafts) + 1
      BY <1>3, <2>1, <2>2, <3>1
    <3>2. CASE k \in 1..Len(g.drafts)
      BY <1>3, <1>6, <3>2 DEF Contents
    <3> QED BY <1>3, <2>1, <3>1, <3>2
  <2> QED BY <1>1, <1>5, <1>6, <2>3 DEF Contents
<1>10. Advances(g, after)
  <2>1. Len(after.timings) = Len(g.timings) + 1
    BY <1>1, <1>5, <1>6 DEF Counts
  <2> QED BY <1>4, <1>5, <2>1, Fields, PrefixFacts DEF Advances, Extends, IsPrefixOf
<1> QED BY <1>7, <1>8, <1>9, <1>10 DEF OneRun, after

\* A report grades the last draft, and that is the one of this iteration.
LEMMA LastDraft ==
    ASSUME NEW g, OneRun(g), g.next \in {"score_trust", "score_ats"}
    PROVE  Last(g.drafts).iteration = g.iteration
<1>1. Len(g.drafts) = g.iteration + 1 /\ g.iteration \in Nat
  BY Fields DEF OneRun, Counts, Drafted
<1> QED BY <1>1 DEF Last, OneRun, Contents

\* score_trust appends the Trust Report of the last draft.
LEMMA TrustKeepsRun ==
    ASSUME NEW g, OneRun(g), g.next = "score_trust", NEW score \in TrustScore
    PROVE  LET after == [ScoreTrustUpdate(g, score) EXCEPT !.timings = Append(@, "score_trust")]
           IN  OneRun(after) /\ Advances(g, after)
<1> DEFINE after == [ScoreTrustUpdate(g, score) EXCEPT !.timings = Append(@, "score_trust")]
           t == Append(g.timings, g.next)
           report == [iteration |-> Last(g.drafts).iteration, score |-> score]
           r == Append(g.trustReports, report)
<1>1. t \in Seq(Node) /\ Len(t) = Done(g) + 1 /\ \A p \in 1..Len(t) : t[p] = NodeAt(p)
  BY TimingKept
<1>2. report \in TrustReport /\ report.iteration = g.iteration
  BY Fields, LastDraft DEF TrustReport
<1>3. /\ r \in Seq(TrustReport) /\ Len(r) = Len(g.trustReports) + 1
      /\ \A k \in 1..Len(g.trustReports) : r[k] = g.trustReports[k]
      /\ r[Len(g.trustReports) + 1].iteration = g.iteration
  BY <1>2, Fields, AppendFacts
<1>4. IsPrefixOf(g.timings, t) /\ IsPrefixOf(g.trustReports, r)
  BY <1>2, Fields, PrefixFacts DEF Node
<1>0. ScoreTrustUpdate(g, score) = [g EXCEPT !.trustReports = r, !.next = "score_ats"]
  BY DEF ScoreTrustUpdate
<1> HIDE DEF t, r
<1>5. /\ after \in GraphState /\ after.timings = t
      /\ after.drafts = g.drafts /\ after.trustReports = r
      /\ after.atsReports = g.atsReports
      /\ after.iteration = g.iteration /\ after.feedback = g.feedback
      /\ after.job = g.job /\ after.evidence = g.evidence /\ after.next = "score_ats"
  <2> DEFINE update == [g EXCEPT !.trustReports = r, !.next = "score_ats"]
  <2>0. "score_ats" \in Node \cup {"end"}
    BY DEF Node
  <2>5. g \in GraphState /\ r \in Seq(TrustReport)
    BY <1>3, Fields
  <2>1. update \in GraphState
    BY <2>0, <2>5 DEF GraphState
  <2>3. update.timings = g.timings
    BY Fields DEF GraphState
  <2>2. after = [update EXCEPT !.timings = t]
    BY <1>0, <2>3 DEF t
  <2> HIDE DEF after
  <2> QED BY <2>1, <2>2, <1>1, <1>3, Fields DEF GraphState, Node
<1> HIDE DEF after
<1>6. Shape(g) /\ Counts(g) /\ Contents(g)
  BY DEF OneRun
<1>7. Shape(after)
  BY <1>5, <1>6 DEF Shape, Preparing
<1>8. Counts(after)
  <2>1. /\ Len(g.drafts) = g.iteration + 1 /\ Len(g.trustReports) = g.iteration
        /\ Len(g.atsReports) = g.iteration /\ Done(g) = 4 + 4 * g.iteration
        /\ g.iteration \in Nat
    BY <1>6, Fields DEF Counts, Drafted, TrustScored, AtsScored, Done
  <2>2. /\ Drafted(after) = g.iteration + 1 /\ TrustScored(after) = g.iteration + 1
        /\ AtsScored(after) = g.iteration /\ Done(after) = 5 + 4 * g.iteration
    BY <1>5, <2>1 DEF Drafted, TrustScored, AtsScored, Done
  <2>4. Len(t) = Done(g) + 1 /\ Len(r) = Len(g.trustReports) + 1
    BY <1>1, <1>3
  <2>3. /\ Len(after.drafts) = g.iteration + 1 /\ Len(after.trustReports) = g.iteration + 1
        /\ Len(after.atsReports) = g.iteration /\ Len(after.timings) = 5 + 4 * g.iteration
    BY <1>5, <2>1, <2>4
  <2> QED BY <2>2, <2>3 DEF Counts
<1>9. Contents(after)
  <2>1. Len(g.trustReports) = g.iteration /\ g.iteration \in Nat
    BY <1>6, Fields DEF Counts, TrustScored
  <2>2. ASSUME NEW k \in 1..Len(r) PROVE r[k].iteration = k - 1
    <3>1. CASE k = Len(g.trustReports) + 1
      BY <1>3, <2>1, <3>1
    <3>2. CASE k \in 1..Len(g.trustReports)
      BY <1>3, <1>6, <3>2 DEF Contents
    <3> QED BY <1>3, <2>1, <3>1, <3>2
  <2> QED BY <1>1, <1>5, <1>6, <2>2 DEF Contents
<1>10. Advances(g, after)
  <2>1. Len(after.timings) = Len(g.timings) + 1
    BY <1>1, <1>5, <1>6 DEF Counts
  <2> QED BY <1>4, <1>5, <2>1, Fields, PrefixFacts DEF Advances, Extends, IsPrefixOf
<1> QED BY <1>7, <1>8, <1>9, <1>10 DEF OneRun, after

\* score_ats appends the ATS Report of the last draft and ends the run or loops.
LEMMA AtsKeepsRun ==
    ASSUME NEW g, OneRun(g), g.next = "score_ats", NEW score \in AtsScore
    PROVE  LET after == [ScoreAtsUpdate(g, score) EXCEPT !.timings = Append(@, "score_ats")]
           IN  OneRun(after) /\ Advances(g, after)
<1> DEFINE after == [ScoreAtsUpdate(g, score) EXCEPT !.timings = Append(@, "score_ats")]
           t == Append(g.timings, g.next)
           report == [iteration |-> Last(g.drafts).iteration, score |-> score]
           r == Append(g.atsReports, report)
<1>1. t \in Seq(Node) /\ Len(t) = Done(g) + 1 /\ \A p \in 1..Len(t) : t[p] = NodeAt(p)
  BY TimingKept
<1>2. report \in ATSReport /\ report.iteration = g.iteration
  BY Fields, LastDraft DEF ATSReport
<1>3. /\ r \in Seq(ATSReport) /\ Len(r) = Len(g.atsReports) + 1
      /\ \A k \in 1..Len(g.atsReports) : r[k] = g.atsReports[k]
      /\ r[Len(g.atsReports) + 1].iteration = g.iteration
  BY <1>2, Fields, AppendFacts
<1>4. IsPrefixOf(g.timings, t) /\ IsPrefixOf(g.atsReports, r)
  BY <1>2, Fields, PrefixFacts DEF Node
<1>0. ScoreAtsUpdate(g, score) = [g EXCEPT !.atsReports = r, !.next = Route(g)]
  BY DEF ScoreAtsUpdate
<1> HIDE DEF t, r
<1>5. /\ after \in GraphState /\ after.timings = t
      /\ after.drafts = g.drafts /\ after.trustReports = g.trustReports
      /\ after.atsReports = r
      /\ after.iteration = g.iteration /\ after.feedback = g.feedback
      /\ after.job = g.job /\ after.evidence = g.evidence
      /\ after.next = IF g.iteration >= MaxIterations THEN "end" ELSE "prepare_rewrite"
  <2> DEFINE update == [g EXCEPT !.atsReports = r, !.next = Route(g)]
  <2>0. Route(g) \in Node \cup {"end"}
    BY DEF Node, Route
  <2>5. g \in GraphState /\ r \in Seq(ATSReport)
    BY <1>3, Fields
  <2>1. update \in GraphState
    BY <2>0, <2>5 DEF GraphState
  <2>3. update.timings = g.timings
    BY Fields DEF GraphState
  <2>2. after = [update EXCEPT !.timings = t]
    BY <1>0, <2>3 DEF t
  <2> HIDE DEF after
  <2>4. Route(g) = IF g.iteration >= MaxIterations THEN "end" ELSE "prepare_rewrite"
    BY DEF Route
  <2> QED BY <2>0, <2>1, <2>2, <2>4, <1>1, <1>3, Fields DEF GraphState, Node
<1> HIDE DEF after
<1>6. Shape(g) /\ Counts(g) /\ Contents(g)
  BY DEF OneRun
<1>7. Shape(after)
  BY <1>5, <1>6, Fields DEF Shape, Preparing
<1>8. Counts(after)
  <2>1. /\ Len(g.drafts) = g.iteration + 1 /\ Len(g.trustReports) = g.iteration + 1
        /\ Len(g.atsReports) = g.iteration /\ Done(g) = 5 + 4 * g.iteration
        /\ g.iteration \in Nat
    BY <1>6, Fields DEF Counts, Drafted, TrustScored, AtsScored, Done
  <2>2. /\ Drafted(after) = g.iteration + 1 /\ TrustScored(after) = g.iteration + 1
        /\ AtsScored(after) = g.iteration + 1 /\ Done(after) = 6 + 4 * g.iteration
    BY <1>5, <2>1 DEF Drafted, TrustScored, AtsScored, Done
  <2>4. Len(t) = Done(g) + 1 /\ Len(r) = Len(g.atsReports) + 1
    BY <1>1, <1>3
  <2>3. /\ Len(after.drafts) = g.iteration + 1 /\ Len(after.trustReports) = g.iteration + 1
        /\ Len(after.atsReports) = g.iteration + 1 /\ Len(after.timings) = 6 + 4 * g.iteration
    BY <1>5, <2>1, <2>4
  <2> QED BY <2>2, <2>3 DEF Counts
<1>9. Contents(after)
  <2>1. Len(g.atsReports) = g.iteration /\ g.iteration \in Nat
    BY <1>6, Fields DEF Counts, AtsScored
  <2>2. ASSUME NEW k \in 1..Len(r) PROVE r[k].iteration = k - 1
    <3>1. CASE k = Len(g.atsReports) + 1
      BY <1>3, <2>1, <3>1
    <3>2. CASE k \in 1..Len(g.atsReports)
      BY <1>3, <1>6, <3>2 DEF Contents
    <3> QED BY <1>3, <2>1, <3>1, <3>2
  <2> QED BY <1>1, <1>5, <1>6, <2>2 DEF Contents
<1>10. Advances(g, after)
  <2>1. Len(after.timings) = Len(g.timings) + 1
    BY <1>1, <1>5, <1>6 DEF Counts
  <2> QED BY <1>4, <1>5, <2>1, Fields, PrefixFacts DEF Advances, Extends, IsPrefixOf
<1> QED BY <1>7, <1>8, <1>9, <1>10 DEF OneRun, after

\* prepare_rewrite names the two reports on the last draft as the feedback.
LEMMA RewriteKeepsRun ==
    ASSUME NEW g, OneRun(g), g.next = "prepare_rewrite"
    PROVE  LET after == [PrepareRewriteUpdate(g) EXCEPT
                            !.timings = Append(@, "prepare_rewrite")]
           IN  OneRun(after) /\ Advances(g, after)
<1> DEFINE after == [PrepareRewriteUpdate(g) EXCEPT !.timings = Append(@, "prepare_rewrite")]
           t == Append(g.timings, g.next)
<1>1. t \in Seq(Node) /\ Len(t) = Done(g) + 1 /\ \A p \in 1..Len(t) : t[p] = NodeAt(p)
  BY TimingKept
<1>2. IsPrefixOf(g.timings, t)
  BY Fields, PrefixFacts DEF Node
<1>3. Shape(g) /\ Counts(g) /\ Contents(g)
  BY DEF OneRun
<1>4. /\ Last(g.trustReports).iteration = g.iteration
      /\ Last(g.atsReports).iteration = g.iteration
  <2>1. /\ Len(g.trustReports) = g.iteration + 1 /\ Len(g.atsReports) = g.iteration + 1
        /\ g.iteration \in Nat
    BY <1>3, Fields DEF Counts, TrustScored, AtsScored
  <2> QED BY <1>3, <2>1 DEF Last, Contents
<1>0. PrepareRewriteUpdate(g) = [g EXCEPT
            !.feedback = <<Last(g.trustReports).iteration, Last(g.atsReports).iteration>>,
            !.iteration = g.iteration + 1, !.next = "write_resume"]
  BY DEF PrepareRewriteUpdate
<1> HIDE DEF t
<1>5. /\ after \in GraphState /\ after.timings = t
      /\ after.drafts = g.drafts /\ after.trustReports = g.trustReports
      /\ after.atsReports = g.atsReports
      /\ after.iteration = g.iteration + 1
      /\ after.feedback = <<g.iteration, g.iteration>>
      /\ after.job = g.job /\ after.evidence = g.evidence /\ after.next = "write_resume"
  <2> DEFINE update == [g EXCEPT
            !.feedback = <<Last(g.trustReports).iteration, Last(g.atsReports).iteration>>,
            !.iteration = g.iteration + 1, !.next = "write_resume"]
  <2>0. /\ "write_resume" \in Node \cup {"end"} /\ g.iteration + 1 \in Nat
        /\ <<Last(g.trustReports).iteration, Last(g.atsReports).iteration>> \in Feedback
    BY <1>4, Fields DEF Node, Feedback
  <2>5. g \in GraphState
    BY Fields
  <2>1. update \in GraphState
    BY <2>0, <2>5 DEF GraphState
  <2>3. update.timings = g.timings
    BY Fields DEF GraphState
  <2>2. after = [update EXCEPT !.timings = t]
    BY <1>0, <2>3 DEF t
  <2> HIDE DEF after
  <2> QED BY <2>1, <2>2, <1>1, <1>4, Fields DEF GraphState, Node, Feedback
<1> HIDE DEF after
<1>6. Shape(after)
  <2>1. after.feedback = FeedbackFor(after.iteration + 1)
    BY <1>5, Fields DEF FeedbackFor
  <2>2. after.iteration <= MaxIterations
    BY <1>3, <1>5, Fields DEF Shape
  <2> QED BY <1>3, <1>5, <2>1, <2>2, Fields DEF Shape, Preparing
<1>7. Counts(after)
  <2>1. /\ Len(g.drafts) = g.iteration + 1 /\ Len(g.trustReports) = g.iteration + 1
        /\ Len(g.atsReports) = g.iteration + 1 /\ Done(g) = 6 + 4 * g.iteration
        /\ g.iteration \in Nat
    BY <1>3, Fields DEF Counts, Drafted, TrustScored, AtsScored, Done
  <2>2. /\ Drafted(after) = g.iteration + 1 /\ TrustScored(after) = g.iteration + 1
        /\ AtsScored(after) = g.iteration + 1 /\ Done(after) = 7 + 4 * g.iteration
    BY <1>5, <2>1 DEF Drafted, TrustScored, AtsScored, Done
  <2>4. Len(t) = Done(g) + 1
    BY <1>1
  <2>3. /\ Len(after.drafts) = g.iteration + 1 /\ Len(after.trustReports) = g.iteration + 1
        /\ Len(after.atsReports) = g.iteration + 1 /\ Len(after.timings) = 7 + 4 * g.iteration
    BY <1>5, <2>1, <2>4
  <2> QED BY <2>2, <2>3 DEF Counts
<1>8. Contents(after)
  BY <1>1, <1>3, <1>5 DEF Contents
<1>9. Advances(g, after)
  <2>1. Len(after.timings) = Len(g.timings) + 1
    BY <1>1, <1>3, <1>5 DEF Counts
  <2> QED BY <1>2, <1>5, <2>1, Fields, PrefixFacts DEF Advances, Extends, IsPrefixOf
<1> QED BY <1>6, <1>7, <1>8, <1>9 DEF OneRun, after

-----------------------------------------------------------------------------
(* Every action keeps the history.                                         *)

\* A run starts as the empty beginning of itself.
LEMMA InitialIsRun ==
    ASSUME NEW job \in BOOLEAN
    PROVE  OneRun(Initial(job))
<1> DEFINE g == Initial(job)
<1>1. /\ g.next = "analyze_job" /\ g.job \in BOOLEAN /\ g.iteration = 0
      /\ g.drafts = <<>> /\ g.trustReports = <<>> /\ g.atsReports = <<>>
      /\ g.timings = <<>> /\ g.feedback = None
  BY DEF Initial
<1>2. g \in GraphState
  BY DEF Initial, GraphState, Node, Feedback
<1> HIDE DEF g
<1>3. Shape(g)
  BY <1>1, <1>2, OrchestratorAssumption DEF Shape, Preparing, FeedbackFor
<1>4. Counts(g) /\ Contents(g)
  BY <1>1 DEF Counts, Drafted, TrustScored, AtsScored, Done, Contents
<1> QED BY <1>3, <1>4 DEF OneRun, g

LEMMA InitHistory == Init => HistoryInv
<1> SUFFICES ASSUME Init PROVE HistoryInv
  OBVIOUS
<1>1. PICK job \in BOOLEAN : graph = [i \in Invocation |-> Initial(job)]
  BY DEF Init
<1>2. OneRun(Initial(job)) /\ Initial(job) \in GraphState
  BY InitialIsRun DEF OneRun, Shape
<1>3. GraphInv
  BY <1>1, <1>2 DEF GraphInv
<1>4. Initial(job).timings = <<>>
  BY DEF Initial
<1>5. StepInv
  BY <1>1, <1>4 DEF Init, StepInv, Statuses
<1>6. QueueInv /\ DiskInv
  BY DEF Init, QueueInv, DiskInv
<1> QED BY <1>3, <1>5, <1>6 DEF HistoryInv

\* A node that ran to its end, whatever it updated, if the update goes on with the run.
LEMMA CompleteKeepsHistory ==
    ASSUME HistoryInv, NEW i \in Invocation, NEW n, NEW update,
           Complete(i, n, update),
           LET after == [update EXCEPT !.timings = Append(@, n)]
           IN  OneRun(after) /\ Advances(graph[i], after)
    PROVE  HistoryInv'
<1> DEFINE after == [update EXCEPT !.timings = Append(@, n)]
<1>1. /\ OneRun(after) /\ Advances(graph[i], after) /\ after \in GraphState
      /\ graph' = [graph EXCEPT ![i] = after]
      /\ queue' = IF Durable THEN [queue EXCEPT ![i] = Append(@, after)] ELSE queue
      /\ steps' = [steps EXCEPT ![i] = steps[i] + 1]
      /\ status' = status /\ disk' = disk /\ status[i] = "running"
  BY DEF Complete, OneRun, Shape
<1> HIDE DEF after
<1>2. GraphInv'
  BY <1>1 DEF HistoryInv, GraphInv
<1>3. QueueInv'
  <2>1. CASE ~Durable
    BY <1>1, <2>1 DEF HistoryInv, QueueInv
  <2>2. CASE Durable
    <3>1. /\ Append(queue[i], after) \in Seq(GraphState)
          /\ \A k \in 1..Len(Append(queue[i], after)) : OneRun(Append(queue[i], after)[k])
      <4>1. /\ queue[i] \in Seq(GraphState)
            /\ \A k \in 1..Len(queue[i]) : OneRun(queue[i][k])
        BY DEF HistoryInv, QueueInv
      <4> QED BY <1>1, <4>1, AppendFacts
    <3> QED BY <1>1, <2>2, <3>1 DEF HistoryInv, QueueInv
  <2> QED BY <2>1, <2>2
<1>4. DiskInv'
  BY <1>1 DEF HistoryInv, DiskInv
<1>5. StepInv'
  <2>1. /\ steps[i] \in Nat /\ steps[i] <= Len(graph[i].timings)
        /\ graph[i].timings \in Seq(Node)
    BY Fields DEF HistoryInv, StepInv, GraphInv
  <2>2. steps[i] + 1 <= Len(after.timings)
    BY <1>1, <2>1 DEF Advances
  <2> QED BY <1>1, <2>1, <2>2 DEF HistoryInv, StepInv, GraphInv
<1> QED BY <1>2, <1>3, <1>4, <1>5 DEF HistoryInv

\* What every node does, by name: it advances the run, and score_ats alone adds to
\* the ATS Reports.
LEMMA NodeAdvances ==
    ASSUME HistoryInv, NEW i \in Invocation, ExecuteNode(i)
    PROVE  \E n : \E update :
              LET after == [update EXCEPT !.timings = Append(@, n)]
              IN  /\ Complete(i, n, update)
                  /\ OneRun(after) /\ Advances(graph[i], after)
                  /\ \/ after.atsReports = graph[i].atsReports
                     \/ /\ graph[i].next = "score_ats"
                        /\ \E report \in ATSReport :
                              after.atsReports = Append(graph[i].atsReports, report)
<1>1. OneRun(graph[i]) /\ graph[i] \in GraphState
  BY DEF HistoryInv, GraphInv, OneRun, Shape
<1>2. CASE AnalyzeJob(i)
  <2>1. graph[i].next = "analyze_job"
    BY <1>2 DEF AnalyzeJob, Complete
  <2>2. [AnalyzeJobUpdate(graph[i]) EXCEPT !.timings = Append(@, "analyze_job")].atsReports
           = graph[i].atsReports
    BY <1>1 DEF AnalyzeJobUpdate, GraphState
  <2> QED BY <1>1, <1>2, <2>1, <2>2, PreparationKeepsRun DEF AnalyzeJob, Preparing
<1>3. CASE LoadCandidateProfile(i)
  <2>1. graph[i].next = "load_candidate_profile"
    BY <1>3 DEF LoadCandidateProfile, Complete
  <2>2. [LoadCandidateProfileUpdate(graph[i])
            EXCEPT !.timings = Append(@, "load_candidate_profile")].atsReports
           = graph[i].atsReports
    BY <1>1 DEF LoadCandidateProfileUpdate, GraphState
  <2> QED BY <1>1, <1>3, <2>1, <2>2, PreparationKeepsRun DEF LoadCandidateProfile, Preparing
<1>4. CASE RetrieveEvidence(i)
  <2>1. graph[i].next = "retrieve_evidence"
    BY <1>4 DEF RetrieveEvidence, Complete
  <2>2. [RetrieveEvidenceUpdate(graph[i])
            EXCEPT !.timings = Append(@, "retrieve_evidence")].atsReports
           = graph[i].atsReports
    BY <1>1 DEF RetrieveEvidenceUpdate, GraphState
  <2> QED BY <1>1, <1>4, <2>1, <2>2, PreparationKeepsRun DEF RetrieveEvidence, Preparing
<1>5. CASE WriteResume(i)
  <2>1. graph[i].next = "write_resume"
    BY <1>5 DEF WriteResume, Complete
  <2>2. [WriteResumeUpdate(graph[i]) EXCEPT !.timings = Append(@, "write_resume")].atsReports
           = graph[i].atsReports
    BY <1>1 DEF WriteResumeUpdate, GraphState
  <2> QED BY <1>1, <1>5, <2>1, <2>2, WriteKeepsRun DEF WriteResume
<1>6. CASE ScoreTrust(i)
  <2>1. PICK score \in TrustScore :
            Complete(i, "score_trust", ScoreTrustUpdate(graph[i], score))
    BY <1>6 DEF ScoreTrust
  <2>2. graph[i].next = "score_trust"
    BY <2>1 DEF Complete
  <2>3. [ScoreTrustUpdate(graph[i], score)
            EXCEPT !.timings = Append(@, "score_trust")].atsReports = graph[i].atsReports
    BY <1>1 DEF ScoreTrustUpdate, GraphState
  <2> QED BY <1>1, <2>1, <2>2, <2>3, TrustKeepsRun
<1>7. CASE ScoreAts(i)
  <2>1. PICK score \in AtsScore :
            Complete(i, "score_ats", ScoreAtsUpdate(graph[i], score))
    BY <1>7 DEF ScoreAts
  <2>2. graph[i].next = "score_ats"
    BY <2>1 DEF Complete
  <2> DEFINE report == [iteration |-> Last(graph[i].drafts).iteration, score |-> score]
  <2>3. report \in ATSReport
    BY <1>1, <2>2, LastDraft, Fields DEF ATSReport
  <2>4. [ScoreAtsUpdate(graph[i], score) EXCEPT !.timings = Append(@, "score_ats")].atsReports
           = Append(graph[i].atsReports, report)
    BY <1>1 DEF ScoreAtsUpdate, GraphState
  <2> QED BY <1>1, <2>1, <2>2, <2>3, <2>4, AtsKeepsRun
<1>8. CASE PrepareRewrite(i)
  <2>1. graph[i].next = "prepare_rewrite"
    BY <1>8 DEF PrepareRewrite, Complete
  <2>2. [PrepareRewriteUpdate(graph[i])
            EXCEPT !.timings = Append(@, "prepare_rewrite")].atsReports = graph[i].atsReports
    BY <1>1 DEF PrepareRewriteUpdate, GraphState
  <2> QED BY <1>1, <1>8, <2>1, <2>2, RewriteKeepsRun DEF PrepareRewrite
<1> QED BY <1>2, <1>3, <1>4, <1>5, <1>6, <1>7, <1>8 DEF ExecuteNode

LEMMA NodeKeepsHistory ==
    ASSUME HistoryInv, NEW i \in Invocation, ExecuteNode(i)
    PROVE  HistoryInv'
BY NodeAdvances, CompleteKeepsHistory

\* A run starts, or goes on from what is on disk.
LEMMA EntryKeepsHistory ==
    ASSUME HistoryInv, NEW i \in Invocation, Run(i) \/ Resume(i)
    PROVE  HistoryInv'
<1>1. CASE Run(i)
  <2>1. QueueInv'
    <3>1. /\ (IF Durable THEN <<graph[i]>> ELSE <<>>) \in Seq(GraphState)
          /\ \A k \in 1..Len(IF Durable THEN <<graph[i]>> ELSE <<>>) :
                OneRun((IF Durable THEN <<graph[i]>> ELSE <<>>)[k])
      BY DEF HistoryInv, GraphInv
    <3> QED BY <1>1, <3>1 DEF Run, HistoryInv, QueueInv
  <2>2. StepInv'
    BY <1>1 DEF Run, HistoryInv, StepInv, Statuses
  <2> QED BY <1>1, <2>1, <2>2 DEF Run, HistoryInv, GraphInv, DiskInv
<1>2. CASE Resume(i)
  <2>1. /\ QueueInv' /\ DiskInv'
        /\ status[i] = "idle" /\ steps[i] = 0 /\ UNCHANGED steps
    BY <1>2 DEF Resume, HistoryInv, QueueInv, DiskInv, StepInv
  <2>2. CASE /\ status' = [status EXCEPT ![i] = "not_found"]
             /\ UNCHANGED graph
    BY <2>1, <2>2 DEF HistoryInv, GraphInv, StepInv, Statuses
  <2>3. CASE /\ disk # None
             /\ status' = [status EXCEPT ![i] = "running"]
             /\ graph' = [graph EXCEPT ![i] = disk]
    <3>1. OneRun(disk) /\ disk \in GraphState
      BY <2>3 DEF HistoryInv, DiskInv, OneRun, Shape
    <3>2. 0 <= Len(disk.timings)
      BY <3>1, Fields
    <3> QED BY <2>1, <2>3, <3>1, <3>2 DEF HistoryInv, GraphInv, StepInv, Statuses
  <2> QED BY <1>2, <2>2, <2>3 DEF Resume
<1> QED BY <1>1, <1>2

\* The first checkpoint of a queue reaches the disk.
LEMMA PersistKeepsHistory ==
    ASSUME HistoryInv, NEW i \in Invocation, Persist(i)
    PROVE  HistoryInv'
<1>1. queue[i] \in Seq(GraphState) /\ \A k \in 1..Len(queue[i]) : OneRun(queue[i][k])
  BY DEF HistoryInv, QueueInv
<1>2. /\ OneRun(Head(queue[i]))
      /\ Tail(queue[i]) \in Seq(GraphState)
      /\ \A k \in 1..Len(Tail(queue[i])) : OneRun(Tail(queue[i])[k])
  BY <1>1 DEF Persist
<1> QED BY <1>2 DEF Persist, HistoryInv, GraphInv, QueueInv, DiskInv, StepInv

\* An invocation that returns or raises leaves a state of the run on disk.
LEMMA LeaveKeepsHistory ==
    ASSUME HistoryInv, NEW i \in Invocation, NEW how \in {"ended", "failed"},
           Leave(i, how), how = "ended" => graph[i].next = "end"
    PROVE  HistoryInv'
<1>1. queue[i] \in Seq(GraphState) /\ \A k \in 1..Len(queue[i]) : OneRun(queue[i][k])
  BY DEF HistoryInv, QueueInv
<1>2. Flushed(i) = disk \/ OneRun(Flushed(i))
  BY <1>1 DEF Flushed, Last
<1>3. DiskInv'
  BY <1>2 DEF Leave, HistoryInv, DiskInv
<1>4. QueueInv'
  BY DEF Leave, HistoryInv, QueueInv
<1>5. StepInv'
  BY DEF Leave, HistoryInv, StepInv, Statuses
<1> QED BY <1>3, <1>4, <1>5 DEF Leave, HistoryInv, GraphInv

\* No invocation runs out of supersteps: the limit lets the whole flow through.
LEMMA NoRecursionError ==
    ASSUME HistoryInv, NEW i \in Invocation, graph[i].next # "end"
    PROVE  ~(steps[i] >= RecursionLimit)
<1>1. OneRun(graph[i]) /\ steps[i] \in Nat /\ steps[i] <= Len(graph[i].timings)
  BY DEF HistoryInv, GraphInv, StepInv
<1>2. Len(graph[i].timings) \in Nat /\ Len(graph[i].timings) < 6 + 4 * MaxIterations
  BY <1>1, NextNode
<1> QED BY <1>1, <1>2, OrchestratorAssumption DEF RecursionLimit

LEMMA FinishKeepsHistory ==
    ASSUME HistoryInv, NEW i \in Invocation, Finish(i) \/ NodeFails(i)
    PROVE  HistoryInv'
<1>1. CASE Finish(i)
  <2>1. graph[i].next = "end"
    BY <1>1, NoRecursionError DEF Finish
  <2> QED BY <1>1, <2>1, LeaveKeepsHistory DEF Finish
<1>2. CASE NodeFails(i)
  BY <1>2, LeaveKeepsHistory DEF NodeFails
<1> QED BY <1>1, <1>2

LEMMA NextHistory == HistoryInv /\ [Next]_vars => HistoryInv'
<1> SUFFICES ASSUME HistoryInv, [Next]_vars PROVE HistoryInv'
  OBVIOUS
<1>1. ASSUME NEW i \in Invocation, Run(i) \/ Resume(i) \/ Proceed(i)
      PROVE  HistoryInv'
  BY <1>1, EntryKeepsHistory, NodeKeepsHistory, PersistKeepsHistory, FinishKeepsHistory
     DEF Proceed
<1>2. CASE Crash
  BY <1>2 DEF Crash, HistoryInv, GraphInv, QueueInv, DiskInv, StepInv, Statuses
<1>3. CASE UNCHANGED vars
  BY <1>3 DEF vars, HistoryInv, GraphInv, QueueInv, DiskInv, StepInv
<1> QED BY <1>1, <1>2, <1>3 DEF Next

\* Every graph state anywhere is a state of one uninterrupted run, always.
THEOREM OneHistory == Spec => []HistoryInv
BY InitHistory, NextHistory, PTL DEF Spec

-----------------------------------------------------------------------------
(* What follows from the one history.                                      *)

\* Every reachable state has the right types: a checkpoint is a whole graph state.
THEOREM TypeCorrect == Spec => []TypeOK
<1>1. HistoryInv => TypeOK
  BY DEF HistoryInv, GraphInv, QueueInv, DiskInv, StepInv, Statuses, TypeOK, OneRun, Shape
<1> QED BY <1>1, OneHistory, PTL

\* A finished run has executed every node once and in order, for every cap and
\* through every crash, failure, resume and overlap.
THEOREM NodesOnce == Spec => []EveryNodeOnce
<1>1. HistoryInv => EveryNodeOnce
  <2> SUFFICES ASSUME HistoryInv, NEW i \in Invocation, status[i] = "ended"
               PROVE  /\ Len(graph[i].timings) = 6 + 4 * MaxIterations
                      /\ \A p \in 1..Len(graph[i].timings) : graph[i].timings[p] = NodeAt(p)
    BY DEF EveryNodeOnce
  <2>1. OneRun(graph[i]) /\ graph[i].next = "end"
    BY DEF HistoryInv, GraphInv, StepInv
  <2> QED BY <2>1 DEF OneRun, Shape, Counts, Done, Contents
<1> QED BY <1>1, OneHistory, PTL

\* A finished run has max_iterations + 1 drafts, each written from the reports on
\* the one before it and graded by its own.
THEOREM HistoryWhole == Spec => []WholeHistory
<1>1. HistoryInv => WholeHistory
  <2> SUFFICES ASSUME HistoryInv, NEW i \in Invocation, status[i] = "ended"
               PROVE  LET g == graph[i]
                      IN  /\ Len(g.drafts) = MaxIterations + 1
                          /\ Len(g.trustReports) = Len(g.drafts)
                          /\ Len(g.atsReports) = Len(g.drafts)
                          /\ \A k \in 1..Len(g.drafts) :
                                /\ g.drafts[k].iteration = k - 1
                                /\ g.drafts[k].feedback =
                                      IF k = 1 THEN None ELSE <<k - 2, k - 2>>
                                /\ g.trustReports[k].iteration = k - 1
                                /\ g.atsReports[k].iteration = k - 1
    BY DEF WholeHistory
  <2>1. OneRun(graph[i]) /\ graph[i].next = "end"
    BY DEF HistoryInv, GraphInv, StepInv
  <2>2. /\ Len(graph[i].drafts) = MaxIterations + 1
        /\ Len(graph[i].trustReports) = MaxIterations + 1
        /\ Len(graph[i].atsReports) = MaxIterations + 1
    BY <2>1 DEF OneRun, Shape, Counts, Drafted, TrustScored, AtsScored
  <2> QED BY <2>1, <2>2 DEF OneRun, Contents, FeedbackFor
<1> QED BY <1>1, OneHistory, PTL

\* The inputs a node asserts are there whenever it is the next one.
THEOREM InputsThere == Spec => []InputsPresent
<1>1. HistoryInv => InputsPresent
  <2> SUFFICES ASSUME HistoryInv, NEW i \in Running PROVE OneRun(graph[i])
    BY DEF InputsPresent, OneRun, Shape, Counts, Drafted, TrustScored, AtsScored,
       Preparing, Node, GraphState
  <2> QED BY DEF HistoryInv, GraphInv, Running
<1> QED BY <1>1, OneHistory, PTL

\* A run has the history of one run, for every cap and any number of overlapping
\* invocations: at its end each node once and each draft with its own reports, on the
\* way all that a node asserts.
THEOREM HistoryProper == Spec => []HistoryOfOneRun
BY NodesOnce, HistoryWhole, InputsThere, PTL DEF HistoryOfOneRun

\* A run has never executed more nodes than the flow has.
LEMMA WithinFlow ==
    ASSUME NEW g, OneRun(g)
    PROVE  Len(g.timings) \in Nat /\ Len(g.timings) <= 6 + 4 * MaxIterations
<1>1. CASE g.next # "end"
  BY <1>1, NextNode, OrchestratorAssumption
<1>2. CASE g.next = "end"
  <2>1. g.iteration = MaxIterations /\ Done(g) = 6 + 4 * g.iteration
    BY <1>2 DEF OneRun, Shape, Done
  <2>2. Len(g.timings) = 6 + 4 * MaxIterations
    BY <2>1 DEF OneRun, Counts
  <2> QED BY <2>2, OrchestratorAssumption
<1> QED BY <1>1, <1>2

\* L of F nodes were run and Q checkpoints are in the queue.
LEMMA FewerLeft ==
    ASSUME NEW F \in Nat, NEW L \in Nat, NEW Q \in Nat, NEW L2 \in Nat, NEW Q2 \in Nat,
           L <= F, L2 <= F
    PROVE  /\ 0 < 1 + 2 * (F - L) + Q
           /\ (L2 = L + 1 /\ Q2 <= Q + 1) \/ (L2 = L /\ Q2 = Q - 1) =>
                 1 + 2 * (F - L2) + Q2 < 1 + 2 * (F - L) + Q
OBVIOUS

\* A step by which invocation i runs a node, has a checkpoint written, or returns.
LEMMA ProceedCounts ==
    ASSUME HistoryInv, HistoryInv', NEW i \in Invocation, Proceed(i), status[i] = "running"
    PROVE  StepsLeft(i)' < StepsLeft(i)
<1> DEFINE L == Len(graph[i].timings)
           Q == Len(queue[i])
           F == 6 + 4 * MaxIterations
<1>1. /\ L \in Nat /\ L <= F /\ L' \in Nat /\ L' <= F /\ F \in Nat
      /\ Q \in Nat /\ Q' \in Nat /\ F' = F
  <2>1. OneRun(graph[i]) /\ OneRun(graph'[i])
    BY DEF HistoryInv, GraphInv
  <2>2. queue[i] \in Seq(GraphState) /\ queue'[i] \in Seq(GraphState)
    BY DEF HistoryInv, QueueInv
  <2> QED BY <2>1, <2>2, WithinFlow, OrchestratorAssumption
<1>2. StepsLeft(i) = 1 + 2 * (F - L) + Q
  BY DEF StepsLeft
<1>3. StepsLeft(i)' = IF status'[i] = "running" THEN 1 + 2 * (F - L') + Q' ELSE 0
  BY DEF StepsLeft
<1>4. CASE ExecuteNode(i)
  <2>1. PICK n, update :
            LET after == [update EXCEPT !.timings = Append(@, n)]
            IN  Complete(i, n, update) /\ Advances(graph[i], after)
    BY <1>4, NodeAdvances
  <2> DEFINE after == [update EXCEPT !.timings = Append(@, n)]
  <2>2. /\ graph' = [graph EXCEPT ![i] = after] /\ status' = status
        /\ queue' = IF Durable THEN [queue EXCEPT ![i] = Append(@, after)] ELSE queue
        /\ Len(after.timings) = L + 1
    BY <2>1 DEF Complete, Advances
  <2> HIDE DEF after
  <2>3. L' = L + 1
    BY <2>2 DEF HistoryInv, GraphInv
  <2>4. Q' <= Q + 1
    <3>1. CASE Durable
      <4>1. queue'[i] = Append(queue[i], after) /\ queue[i] \in Seq(GraphState)
        BY <2>2, <3>1 DEF HistoryInv, QueueInv
      <4>2. after \in GraphState
        BY <2>2 DEF HistoryInv, GraphInv
      <4> QED BY <4>1, <4>2, AppendFacts
    <3>2. CASE ~Durable
      BY <2>2, <3>2, <1>1
    <3> QED BY <3>1, <3>2
  <2>5. status'[i] = "running"
    BY <2>2
  <2> HIDE DEF L, Q, F
  <2>6. StepsLeft(i)' = 1 + 2 * (F - L') + Q'
    BY <1>3, <2>5
  <2>7. 1 + 2 * (F - L') + Q' < 1 + 2 * (F - L) + Q
    BY <1>1, <2>3, <2>4, FewerLeft
  <2> QED BY <1>2, <2>6, <2>7
<1>5. CASE Persist(i)
  <2>1. graph' = graph /\ status' = status /\ queue[i] # <<>> /\ queue'[i] = Tail(queue[i])
    BY <1>5 DEF Persist, HistoryInv, QueueInv
  <2>2. queue[i] \in Seq(GraphState)
    BY DEF HistoryInv, QueueInv
  <2>3. Q' = Q - 1 /\ L' = L
    BY <2>1, <2>2
  <2> HIDE DEF L, Q, F
  <2> QED BY <1>1, <1>2, <1>3, <2>1, <2>3, FewerLeft
<1>6. CASE Finish(i) \/ NodeFails(i)
  <2>1. status'[i] # "running"
    BY <1>6 DEF Finish, NodeFails, Leave, HistoryInv, StepInv
  <2> HIDE DEF L, Q, F
  <2> QED BY <1>1, <1>2, <1>3, <2>1, FewerLeft
<1> QED BY <1>4, <1>5, <1>6 DEF Proceed

\* Every step of a running invocation brings it nearer to its return, for every cap,
\* whatever it was resumed from and however invocations overlap: it can take at most
\* twice as many steps as it has nodes left, and one more, on top of what is queued.
THEOREM StepsCount == Spec => EveryStepCounts
<1> DEFINE Counted ==
        \A i \in Invocation : status[i] = "running" =>
            /\ Len(graph[i].timings) <= 6 + 4 * MaxIterations
            /\ <<graph[i], queue[i], status[i]>>' # <<graph[i], queue[i], status[i]>> =>
                  StepsLeft(i)' < StepsLeft(i)
<1>1. HistoryInv /\ HistoryInv' /\ [Next]_vars => Counted
  <2> SUFFICES ASSUME HistoryInv, HistoryInv', [Next]_vars,
                      NEW i \in Invocation, status[i] = "running"
               PROVE  /\ Len(graph[i].timings) <= 6 + 4 * MaxIterations
                      /\ <<graph[i], queue[i], status[i]>>' # <<graph[i], queue[i], status[i]>>
                            => StepsLeft(i)' < StepsLeft(i)
    OBVIOUS
  <2>1. Len(graph[i].timings) \in Nat /\ Len(graph[i].timings) <= 6 + 4 * MaxIterations
    BY WithinFlow DEF HistoryInv, GraphInv
  <2>2. CASE Proceed(i)
    BY <2>1, <2>2, ProceedCounts
  <2>3. ASSUME NEW j \in Invocation, j # i, Proceed(j)
        PROVE  UNCHANGED <<graph[i], queue[i], status[i]>>
    <3>1. CASE ExecuteNode(j)
      <4>1. PICK n, update : Complete(j, n, update)
        BY <3>1, NodeAdvances
      <4> QED BY <2>3, <4>1 DEF Complete, HistoryInv, GraphInv, QueueInv
    <3>2. CASE Persist(j) \/ Finish(j) \/ NodeFails(j)
      BY <2>3, <3>2 DEF Persist, Finish, NodeFails, Leave, HistoryInv, QueueInv, StepInv
    <3> QED BY <2>3, <3>1, <3>2 DEF Proceed
  <2>4. ASSUME NEW j \in Invocation, Run(j) \/ Resume(j)
        PROVE  UNCHANGED <<graph[i], queue[i], status[i]>>
    <3>1. j # i
      BY <2>4 DEF Run, Resume
    <3> QED BY <2>4, <3>1 DEF Run, Resume, HistoryInv, GraphInv, QueueInv, StepInv
  <2>5. CASE Crash
    <3>1. status'[i] # "running"
      BY <2>5 DEF Crash, Running
    <3>2. Len(queue[i]) \in Nat
      BY DEF HistoryInv, QueueInv
    <3>3. 6 + 4 * MaxIterations \in Nat
      BY OrchestratorAssumption
    <3>4. 0 < 1 + 2 * ((6 + 4 * MaxIterations) - Len(graph[i].timings)) + Len(queue[i])
      BY <2>1, <3>2, <3>3, FewerLeft
    <3>5. StepsLeft(i)' = 0 /\ 0 < StepsLeft(i)
      BY <3>1, <3>4 DEF StepsLeft
    <3> QED BY <2>1, <3>5
  <2> QED BY <2>1, <2>2, <2>3, <2>4, <2>5 DEF Next, vars
<1>2. Spec => [][Counted]_vars
  BY OneHistory, <1>1, PTL DEF Spec
<1> QED BY <1>2 DEF EveryStepCounts

-----------------------------------------------------------------------------
(* The draft that is shipped.                                              *)

\* A set of numbers that is not empty has a least one.
LEMMA LeastNumber ==
    ASSUME NEW S, S \subseteq Nat, S # {}
    PROVE  \E m \in S : \A k \in S : m <= k
<1> DEFINE Below == OpToRel(<, Nat)
<1>1. ASSUME NEW x \in Nat, NEW y \in Nat, x < y
      PROVE  <<x, y>> \in Below
  BY <1>1 DEF OpToRel
<1>2. IsWellFoundedOn(Below, Nat)
  BY NatLessThanWellFounded
<1>3. PICK m \in S : \A y \in S : ~(<<y, m>> \in Below)
  BY <1>2, WFMin
<1> HIDE DEF Below
<1>4. ASSUME NEW k \in S PROVE m <= k
  <2>1. m \in Nat /\ k \in Nat
    OBVIOUS
  <2>2. ~(k < m)
    BY <1>1, <1>3, <2>1
  <2> QED BY <2>1, <2>2
<1> QED BY <1>4

\* The ATS scores of the first L drafts are there to be compared.
Comparable(g, L) == \A k \in 1..L : g.atsReports[k].score \in Nat

\* final_index compares any two drafts, and no three of them in a circle.
LEMMA RankIsOrder ==
    ASSUME NEW g, NEW L \in Nat, Comparable(g, L),
           NEW j \in 1..L, NEW k \in 1..L, NEW l \in 1..L
    PROVE  /\ j # k => RankedBelow(g, j, k) \/ RankedBelow(g, k, j)
           /\ RankedBelow(g, j, k) /\ RankedBelow(g, k, l) => RankedBelow(g, j, l)
           /\ ~RankedBelow(g, j, j)
<1>1. /\ g.atsReports[j].score \in Nat /\ g.atsReports[k].score \in Nat
      /\ g.atsReports[l].score \in Nat /\ j \in Nat /\ k \in Nat /\ l \in Nat
  BY DEF Comparable
<1>2. /\ PassesAt(g, j) \in BOOLEAN /\ PassesAt(g, k) \in BOOLEAN
      /\ PassesAt(g, l) \in BOOLEAN
  BY DEF PassesAt, Passes
<1> QED BY <1>1, <1>2 DEF RankedBelow

\* Of the drafts there are, one ranks above all others.
LEMMA BestExists ==
    ASSUME NEW g, NEW L \in Nat \ {0}, Comparable(g, L)
    PROVE  \E k \in 1..L : \A j \in (1..L) \ {k} : RankedBelow(g, j, k)
<1> DEFINE Best(n) == \E k \in 1..n : \A j \in (1..n) \ {k} : RankedBelow(g, j, k)
           Without == {n \in 1..L : ~Best(n)}
<1>1. ASSUME Without # {} PROVE FALSE
  <2>1. PICK n \in Without : \A m \in Without : n <= m
    <3>1. Without \subseteq Nat
      OBVIOUS
    <3> HIDE DEF Without
    <3> QED BY <1>1, <3>1, LeastNumber
  <2>2. n \in 1..L /\ ~Best(n)
    BY <2>1
  <2>3. n # 1
    <3>1. \A j \in (1..1) \ {1} : RankedBelow(g, j, 1)
      OBVIOUS
    <3>2. Best(1)
      BY <3>1
    <3> QED BY <2>2, <3>2
  <2>4. n - 1 \in 1..L /\ n - 1 \notin Without
    <3>1. n - 1 \in 1..L /\ ~(n <= n - 1)
      BY <2>2, <2>3
    <3> HIDE DEF Without
    <3> QED BY <2>1, <3>1
  <2>5. PICK k \in 1..(n - 1) : \A j \in (1..(n - 1)) \ {k} : RankedBelow(g, j, k)
    BY <2>4
  <2>6. /\ k \in 1..L /\ n \in 1..L /\ k # n /\ k \in 1..n /\ n \in 1..n
        /\ \A j \in (1..n) \ {n} : j \in 1..(n - 1) /\ j \in 1..L
    BY <2>2, <2>4, <2>5
  <2>7. CASE RankedBelow(g, n, k)
    <3>1. \A j \in (1..n) \ {k} : RankedBelow(g, j, k)
      BY <2>5, <2>6, <2>7
    <3> QED BY <2>2, <2>6, <3>1
  <2>8. CASE RankedBelow(g, k, n)
    <3>1. ASSUME NEW j \in (1..n) \ {n} PROVE RankedBelow(g, j, n)
      <4>1. j = k \/ RankedBelow(g, j, k)
        BY <2>5, <2>6
      <4> QED BY <2>6, <2>8, <4>1, RankIsOrder
    <3> QED BY <2>2, <2>6, <3>1
  <2> QED BY <2>6, <2>7, <2>8, RankIsOrder
<1>2. L \in 1..L
  OBVIOUS
<1> QED BY <1>1, <1>2

\* final_index ships a passing draft if there is one, no draft of the same side
\* scores higher with the ATS, and of equals it is the latest: for every number of
\* drafts, all scores and both thresholds.
THEOREM BestShipped == Spec => []BestDraftShipped
<1>1. HistoryInv => BestDraftShipped
  <2> SUFFICES ASSUME HistoryInv, NEW i \in Invocation, status[i] = "ended"
               PROVE  LET g == graph[i]
                          best == FinalIndex(g)
                          sameSide == {k \in Scored(g) : PassesAt(g, k) = PassesAt(g, best)}
                      IN  /\ best \in Scored(g)
                          /\ (\E k \in Scored(g) : PassesAt(g, k)) => PassesAt(g, best)
                          /\ \A k \in sameSide :
                                g.atsReports[k].score <= g.atsReports[best].score
                          /\ \A k \in sameSide :
                                k > best => g.atsReports[k].score < g.atsReports[best].score
    BY DEF BestDraftShipped
  <2> DEFINE g == graph[i]
             best == FinalIndex(g)
             L == MaxIterations + 1
  <2>1. OneRun(g) /\ g.next = "end"
    BY DEF HistoryInv, GraphInv, StepInv
  <2> HIDE DEF g
  <2>2. /\ L \in Nat \ {0} /\ Len(g.drafts) = L
        /\ Len(g.trustReports) = L /\ Len(g.atsReports) = L
    BY <2>1, OrchestratorAssumption DEF OneRun, Shape, Counts, Drafted, TrustScored, AtsScored
  <2> HIDE DEF L
  <2>3. Scored(g) = 1..L
    BY <2>2 DEF Scored
  <2>4. Comparable(g, L)
    <3>1. g.atsReports \in Seq(ATSReport)
      BY <2>1, Fields
    <3>2. \A k \in 1..L : g.atsReports[k] \in ATSReport
      BY <2>2, <3>1
    <3>3. \A r \in ATSReport : r.score \in Nat
      BY OrchestratorAssumption DEF ATSReport
    <3> QED BY <3>2, <3>3 DEF Comparable
  <2>5. \E k \in Scored(g) : \A j \in Scored(g) \ {k} : RankedBelow(g, j, k)
    BY <2>2, <2>3, <2>4, BestExists
  <2>6. best \in Scored(g) /\ \A j \in Scored(g) \ {best} : RankedBelow(g, j, best)
    BY <2>5 DEF FinalIndex
  <2> HIDE DEF best
  <2>7. ASSUME NEW k \in Scored(g)
        PROVE  /\ PassesAt(g, k) => PassesAt(g, best)
               /\ PassesAt(g, k) = PassesAt(g, best) =>
                     /\ g.atsReports[k].score <= g.atsReports[best].score
                     /\ k > best => g.atsReports[k].score < g.atsReports[best].score
    <3>1. /\ k \in Nat /\ best \in Nat
          /\ g.atsReports[k].score \in Nat /\ g.atsReports[best].score \in Nat
      BY <2>2, <2>3, <2>4, <2>6 DEF Comparable
    <3>2. CASE k = best
      BY <3>1, <3>2
    <3>3. CASE k # best
      <4>1. RankedBelow(g, k, best)
        BY <2>6, <3>3
      <4> QED BY <3>1, <4>1 DEF RankedBelow
    <3> QED BY <3>2, <3>3
  <2> QED BY <2>6, <2>7 DEF g, best
<1> QED BY <1>1, OneHistory, PTL


-----------------------------------------------------------------------------
(***************************************************************************)
(* One invocation at a time: then a checkpoint on disk is never given up,   *)
(* and the graph with its nodes and its checkpoint queue implements what    *)
(* DurableRun promises.  LoopResume shows the orchestrator with overlapping *)
(* invocations, of which neither is claimed.                                *)
(***************************************************************************)

Scores == TrustScore \X AtsScore

\* The checkpoints of an invocation that runs: each has what the ones before it
\* have, the disk has no more than the first, and the last is where it stands.
Saving(i) ==
    /\ Flushed(i) = graph[i]
    /\ \A k \in 1..Len(queue[i]) :
          /\ Extends(queue[i][k], graph[i])
          /\ disk # None => Extends(disk, queue[i][k])
          /\ \A j \in 1..k : Extends(queue[i][j], queue[i][k])
    /\ disk # None => Extends(disk, graph[i])

OneAtATime ==
    /\ \A i \in Invocation : \A j \in Invocation :
          status[i] = "running" /\ status[j] = "running" => i = j
    /\ (\A i \in Invocation : status[i] = "idle") => disk = None
    /\ ~Durable => disk = None
    /\ \A i \in Invocation : (status[i] # "running" \/ ~Durable) => queue[i] = <<>>
    /\ \A i \in Invocation : status[i] = "running" /\ Durable => Saving(i)

SoleInv == HistoryInv /\ OneAtATime

-----------------------------------------------------------------------------
(* Prefixes.                                                               *)

\* What extends an extension of a list extends the list.
LEMMA PrefixTransitive ==
    ASSUME NEW S, NEW s \in Seq(S), NEW t \in Seq(S), NEW u \in Seq(S),
           IsPrefixOf(s, t), IsPrefixOf(t, u)
    PROVE  IsPrefixOf(s, u)
<1>1. Len(s) \in Nat /\ Len(t) \in Nat /\ Len(u) \in Nat
  BY LenFacts
<1> QED BY <1>1 DEF IsPrefixOf

LEMMA ExtendsTransitive ==
    ASSUME NEW f, NEW g, NEW h, OneRun(f), OneRun(g), OneRun(h),
           Extends(f, g), Extends(g, h)
    PROVE  Extends(f, h)
<1>1. IsPrefixOf(f.drafts, h.drafts)
  BY Fields, PrefixTransitive DEF Extends
<1>2. IsPrefixOf(f.trustReports, h.trustReports)
  BY Fields, PrefixTransitive DEF Extends
<1>3. IsPrefixOf(f.atsReports, h.atsReports)
  BY Fields, PrefixTransitive DEF Extends
<1>4. IsPrefixOf(f.timings, h.timings)
  BY Fields, PrefixTransitive DEF Extends
<1> QED BY <1>1, <1>2, <1>3, <1>4 DEF Extends

LEMMA ExtendsReflexive ==
    ASSUME NEW g, OneRun(g)
    PROVE  Extends(g, g)
BY Fields, LenFacts DEF Extends, IsPrefixOf

-----------------------------------------------------------------------------
(* One at a time, every action keeps the checkpoints in order.             *)

\* The checkpoints of invocation i are states of the run.
LEMMA Queued ==
    ASSUME HistoryInv, NEW i \in Invocation
    PROVE  /\ queue[i] \in Seq(GraphState) /\ OneRun(graph[i])
           /\ \A k \in 1..Len(queue[i]) : OneRun(queue[i][k])
           /\ disk # None => OneRun(disk)
BY DEF HistoryInv, GraphInv, QueueInv, DiskInv

LEMMA InitAlone == Init => OneAtATime
BY DEF Init, OneAtATime

LEMMA CompleteKeepsAlone ==
    ASSUME SoleInv, NEW i \in Invocation, NEW n, NEW update, Complete(i, n, update),
           LET after == [update EXCEPT !.timings = Append(@, n)]
           IN  OneRun(after) /\ Advances(graph[i], after)
    PROVE  OneAtATime'
<1> DEFINE after == [update EXCEPT !.timings = Append(@, n)]
           q == queue[i]
<1>1. /\ OneRun(after) /\ Extends(graph[i], after) /\ after \in GraphState
      /\ graph' = [graph EXCEPT ![i] = after]
      /\ queue' = IF Durable THEN [queue EXCEPT ![i] = Append(q, after)] ELSE queue
      /\ status' = status /\ disk' = disk /\ status[i] = "running"
  BY DEF Complete, OneRun, Shape, Advances
<1> HIDE DEF after
<1>2. /\ q \in Seq(GraphState) /\ OneRun(graph[i])
      /\ \A k \in 1..Len(q) : OneRun(q[k])
      /\ disk # None => OneRun(disk)
      /\ graph \in [Invocation -> GraphState] /\ queue \in [Invocation -> Seq(GraphState)]
  BY Queued DEF SoleInv, HistoryInv, GraphInv, QueueInv
<1>3. ASSUME Durable PROVE Saving(i)'
  <2>1. Saving(i)
    BY <1>1, <1>3 DEF SoleInv, OneAtATime
  <2>2. graph'[i] = after /\ queue'[i] = Append(q, after)
    BY <1>1, <1>2, <1>3
  <2>3. ASSUME NEW k \in 1..Len(q) PROVE Extends(q[k], after)
    BY <1>1, <1>2, <2>1, ExtendsTransitive DEF Saving
  <2>4. disk # None => Extends(disk, after)
    BY <1>1, <1>2, <2>1, ExtendsTransitive DEF Saving
  <2>5. Extends(after, after)
    BY <1>1, ExtendsReflexive
  <2> DEFINE r == Append(q, after)
  <2>6. /\ Len(r) = Len(q) + 1 /\ Len(q) \in Nat
        /\ \A k \in 1..Len(q) : r[k] = q[k]
        /\ r[Len(q) + 1] = after /\ r # <<>>
    <3>1. q \in Seq(GraphState) /\ after \in GraphState
      BY <1>1, <1>2
    <3> HIDE DEF q
    <3> QED BY <3>1, AppendFacts
  <2> HIDE DEF r, q
  <2>7. ASSUME NEW k \in 1..Len(r)
        PROVE  /\ Extends(r[k], after)
               /\ disk # None => Extends(disk, r[k])
               /\ \A j \in 1..k : Extends(r[j], r[k])
    <3>1. CASE k = Len(q) + 1
      BY <2>3, <2>4, <2>5, <2>6, <3>1
    <3>2. CASE k \in 1..Len(q)
      <4>1. /\ disk # None => Extends(disk, q[k])
            /\ \A j \in 1..k : Extends(q[j], q[k])
        BY <2>1, <3>2 DEF Saving, q
      <4> QED BY <2>3, <2>6, <3>2, <4>1
    <3> QED BY <2>6, <3>1, <3>2
  <2>8. queue'[i] = r /\ Last(r) = after
    BY <2>2, <2>6 DEF r, Last
  <2> QED BY <1>1, <2>2, <2>4, <2>6, <2>7, <2>8 DEF Saving, Flushed
<1> HIDE DEF q
<1>4. ASSUME NEW j \in Invocation, j # i
      PROVE  status[j] # "running" /\ queue'[j] = queue[j]
  BY <1>1, <1>2, <1>4 DEF SoleInv, OneAtATime
<1>5. ~Durable => queue' = queue
  BY <1>1
<1> QED BY <1>1, <1>3, <1>4, <1>5 DEF SoleInv, OneAtATime

LEMMA PersistKeepsAlone ==
    ASSUME SoleInv, NEW i \in Invocation, Persist(i)
    PROVE  OneAtATime'
<1> DEFINE q == queue[i]
           t == Tail(q)
<1>1. /\ q \in Seq(GraphState) /\ q # <<>> /\ queue \in [Invocation -> Seq(GraphState)]
      /\ disk' = q[1] /\ queue' = [queue EXCEPT ![i] = t]
      /\ UNCHANGED <<graph, status, steps>>
  BY Queued DEF Persist, SoleInv, HistoryInv, QueueInv
<1>2. status[i] = "running" /\ Durable /\ Saving(i)
  BY <1>1 DEF SoleInv, OneAtATime
<1>3. /\ Len(q) \in Nat \ {0} /\ t \in Seq(GraphState) /\ Len(t) = Len(q) - 1
      /\ \A k \in 1..Len(t) : t[k] = q[k + 1]
  BY <1>1
<1>4. /\ queue'[i] = t /\ graph'[i] = graph[i] /\ Last(q) = graph[i]
      /\ \A k \in 1..Len(q) : /\ Extends(q[k], graph[i])
                               /\ \A j \in 1..k : Extends(q[j], q[k])
  BY <1>1, <1>2 DEF Saving, Flushed
<1> HIDE DEF t, q
<1>5. Flushed(i)' = graph'[i]
  <2>1. CASE t = <<>>
    <3>1. Len(q) = 1
      BY <1>3, <2>1
    <3>2. disk' = graph'[i]
      BY <1>1, <1>4, <3>1 DEF Last
    <3> QED BY <1>4, <2>1, <3>2 DEF Flushed
  <2>2. CASE t # <<>>
    <3>1. Len(t) \in Nat \ {0}
      BY <1>3, <2>2, EmptySeq
    <3>2. t[Len(t)] = q[Len(q)]
      BY <1>3, <3>1
    <3>3. Last(t) = graph'[i]
      BY <1>4, <3>2 DEF Last
    <3> QED BY <1>4, <2>2, <3>3 DEF Flushed
  <2> QED BY <2>1, <2>2
<1>6. ASSUME NEW k \in 1..Len(t)
      PROVE  /\ Extends(t[k], graph[i])
             /\ Extends(q[1], t[k])
             /\ \A j \in 1..k : Extends(t[j], t[k])
  <2>1. k + 1 \in 1..Len(q) /\ 1 \in 1..(k + 1) /\ t[k] = q[k + 1]
    BY <1>3
  <2>2. ASSUME NEW j \in 1..k PROVE j + 1 \in 1..(k + 1) /\ t[j] = q[j + 1]
    BY <1>3
  <2> QED BY <1>4, <2>1, <2>2
<1>7. Extends(q[1], graph[i])
  BY <1>3, <1>4
<1>8. Saving(i)'
  BY <1>1, <1>4, <1>5, <1>6, <1>7 DEF Saving
<1>9. ASSUME NEW j \in Invocation, j # i
      PROVE  status[j] # "running" /\ queue'[j] = queue[j]
  BY <1>1, <1>2, <1>9 DEF SoleInv, OneAtATime
<1> QED BY <1>1, <1>2, <1>8, <1>9 DEF SoleInv, OneAtATime

LEMMA LeaveKeepsAlone ==
    ASSUME SoleInv, NEW i \in Invocation, NEW how \in {"ended", "failed"},
           status[i] = "running", Leave(i, how)
    PROVE  OneAtATime'
<1>1. /\ status' = [status EXCEPT ![i] = how] /\ queue' = [queue EXCEPT ![i] = <<>>]
      /\ status \in [Invocation -> Statuses] /\ queue \in [Invocation -> Seq(GraphState)]
  BY DEF Leave, SoleInv, HistoryInv, StepInv, QueueInv
<1>2. \A j \in Invocation : status'[j] # "running" /\ queue'[j] = <<>>
  BY <1>1 DEF SoleInv, OneAtATime
<1>3. ~(\A j \in Invocation : status'[j] = "idle")
  BY <1>1
<1>4. ~Durable => disk' = None
  BY DEF Leave, Flushed, SoleInv, OneAtATime
<1> QED BY <1>2, <1>3, <1>4 DEF OneAtATime

\* A resume of a run that nobody is running is the only one that runs.
LEMMA NobodyRuns ==
    ASSUME SoleInv, MaxRunning = 1, Cardinality(Running) < MaxRunning
    PROVE  Running = {}
<1>1. ASSUME NEW i \in Running PROVE FALSE
  <2>1. Running = {i}
    BY DEF Running, SoleInv, OneAtATime
  <2> QED BY <2>1, FS_Singleton
<1> QED BY <1>1

LEMMA EntryKeepsAlone ==
    ASSUME SoleInv, MaxRunning = 1, NEW i \in Invocation, Run(i) \/ Resume(i)
    PROVE  OneAtATime'
<1>1. /\ status \in [Invocation -> Statuses] /\ queue \in [Invocation -> Seq(GraphState)]
      /\ graph \in [Invocation -> GraphState] /\ OneRun(graph[i])
      /\ disk # None => OneRun(disk)
  BY Queued DEF SoleInv, HistoryInv, StepInv, QueueInv, GraphInv
<1>2. \A j \in Invocation : status[j] # "running" /\ queue[j] = <<>>
  <2>1. CASE Run(i)
    BY <2>1 DEF Run, SoleInv, OneAtATime
  <2>2. CASE Resume(i)
    BY <2>2, NobodyRuns DEF Resume, Running, SoleInv, OneAtATime
  <2> QED BY <2>1, <2>2
<1>3. CASE Run(i)
  <2>1. /\ disk = None /\ disk' = None /\ graph' = graph
        /\ status' = [status EXCEPT ![i] = "running"]
        /\ queue' = [queue EXCEPT ![i] = IF Durable THEN <<graph[i]>> ELSE <<>>]
    BY <1>3 DEF Run, SoleInv, OneAtATime
  <2>2. ASSUME Durable PROVE Saving(i)'
    <3>1. queue'[i] = <<graph[i]>>
      BY <1>1, <2>1, <2>2
    <3>2. Extends(graph[i], graph[i])
      BY <1>1, ExtendsReflexive
    <3> QED BY <2>1, <3>1, <3>2 DEF Saving, Flushed, Last
  <2> QED BY <1>1, <1>2, <2>1, <2>2 DEF OneAtATime
<1>4. CASE Resume(i)
  <2>1. queue' = queue /\ disk' = disk /\ Durable
    BY <1>4 DEF Resume
  <2>2. CASE /\ disk = None
             /\ status' = [status EXCEPT ![i] = "not_found"]
    BY <1>1, <1>2, <2>1, <2>2 DEF OneAtATime
  <2>3. CASE /\ disk # None
             /\ status' = [status EXCEPT ![i] = "running"]
             /\ graph' = [graph EXCEPT ![i] = disk]
    <3>1. graph'[i] = disk /\ queue'[i] = <<>> /\ Extends(disk, disk)
      BY <1>1, <1>2, <2>1, <2>3, ExtendsReflexive
    <3>2. Saving(i)'
      BY <2>1, <3>1 DEF Saving, Flushed
    <3> QED BY <1>1, <1>2, <2>1, <2>3, <3>2 DEF OneAtATime
  <2> QED BY <1>4, <2>2, <2>3 DEF Resume
<1> QED BY <1>3, <1>4

LEMMA NextAlone ==
    ASSUME MaxRunning = 1
    PROVE  SoleInv /\ [Next]_vars => SoleInv'
<1> SUFFICES ASSUME SoleInv, [Next]_vars PROVE OneAtATime'
  BY NextHistory DEF SoleInv
<1>1. ASSUME NEW i \in Invocation, ExecuteNode(i)
      PROVE  OneAtATime'
  BY <1>1, NodeAdvances, CompleteKeepsAlone DEF SoleInv
<1>2. ASSUME NEW i \in Invocation, Finish(i) \/ NodeFails(i)
      PROVE  OneAtATime'
  <2>1. CASE Finish(i)
    BY <2>1, NoRecursionError, LeaveKeepsAlone DEF Finish, SoleInv
  <2>2. CASE NodeFails(i)
    BY <2>2, LeaveKeepsAlone DEF NodeFails
  <2> QED BY <1>2, <2>1, <2>2
<1>3. CASE Crash
  BY <1>3 DEF Crash, Running, SoleInv, OneAtATime
<1>4. CASE UNCHANGED vars
  BY <1>4 DEF vars, SoleInv, OneAtATime, Saving, Flushed
<1> QED BY <1>1, <1>2, <1>3, <1>4, EntryKeepsAlone, PersistKeepsAlone DEF Next, Proceed

\* With one invocation at a time, checkpoints are in order, in the queue and on disk.
THEOREM CheckpointsInOrder ==
    ASSUME MaxRunning = 1
    PROVE  Spec => []SoleInv
<1>1. Init => SoleInv
  BY InitHistory, InitAlone DEF SoleInv
<1>2. SoleInv /\ [Next]_vars => SoleInv'
  BY NextAlone
<1> QED BY <1>1, <1>2, PTL DEF Spec

-----------------------------------------------------------------------------
(* Paid work is kept.                                                      *)

\* What a step may do to the disk: nothing, or replace the checkpoint by one that
\* has all that it has.
LEMMA DiskGrows ==
    ASSUME SoleInv, [Next]_vars, disk' # disk
    PROVE  disk' # None /\ (disk # None => Extends(disk, disk'))
<1>1. ASSUME NEW i \in Invocation, Persist(i)
      PROVE  disk' # None /\ (disk # None => Extends(disk, disk'))
  <2>1. queue[i] \in Seq(GraphState) /\ queue[i] # <<>> /\ Saving(i)
    BY <1>1, Queued DEF Persist, SoleInv, OneAtATime
  <2>2. disk' = queue[i][1] /\ 1 \in 1..Len(queue[i])
    BY <1>1, <2>1 DEF Persist
  <2>3. disk' \in GraphState
    BY <2>1, <2>2
  <2> QED BY <2>1, <2>2, <2>3, NoneAssumption DEF Saving
<1>2. ASSUME NEW i \in Invocation, NEW how, status[i] = "running", Leave(i, how)
      PROVE  disk' # None /\ (disk # None => Extends(disk, disk'))
  <2>1. CASE Durable
    <3>1. Saving(i) /\ disk' = graph[i] /\ graph[i] \in GraphState
      BY <1>2, <2>1 DEF Leave, Saving, SoleInv, OneAtATime, HistoryInv, GraphInv
    <3> QED BY <3>1, NoneAssumption DEF Saving
  <2>2. CASE ~Durable
    BY <1>2, <2>2 DEF Leave, Flushed, SoleInv, OneAtATime
  <2> QED BY <2>1, <2>2
<1>3. \E i \in Invocation : Persist(i) \/ Finish(i) \/ NodeFails(i)
  <2>1. ASSUME NEW i \in Invocation, Run(i) \/ Resume(i) \/ ExecuteNode(i)
        PROVE  UNCHANGED disk
    BY Zenon, <2>1 DEF Run, Resume, ExecuteNode, AnalyzeJob, LoadCandidateProfile,
       RetrieveEvidence, WriteResume, ScoreTrust, ScoreAts, PrepareRewrite, Complete
  <2>2. ~Crash /\ ~UNCHANGED vars
    BY DEF Crash, vars
  <2> QED BY SMTT(30), <2>1, <2>2 DEF Next, Proceed
<1> QED BY <1>1, <1>2, <1>3 DEF Finish, NodeFails

\* "Every completed, already paid-for node" is kept: with one invocation at a time
\* no later checkpoint drops a draft, a report or a timing of an earlier one.
THEOREM PaidWorkStays ==
    ASSUME MaxRunning = 1
    PROVE  Spec => PaidWorkKept
<1>1. SoleInv /\ [Next]_vars =>
        [disk # None =>
            /\ disk' # None
            /\ IsPrefixOf(disk.drafts, disk'.drafts)
            /\ IsPrefixOf(disk.trustReports, disk'.trustReports)
            /\ IsPrefixOf(disk.atsReports, disk'.atsReports)
            /\ IsPrefixOf(disk.timings, disk'.timings)]_disk
  BY DiskGrows DEF Extends
<1> QED BY <1>1, CheckpointsInOrder, PTL DEF Spec, PaidWorkKept

-----------------------------------------------------------------------------
(* The refinement mapping.                                                 *)

\* The scores of a state of the run are a list of DurableRun.
LEMMA ScoredIsList ==
    ASSUME NEW g, OneRun(g)
    PROVE  /\ ScoredDrafts(g) \in Seq(Scores)
           /\ Len(ScoredDrafts(g)) = Len(g.atsReports)
           /\ Len(g.atsReports) \in Nat
           /\ \A k \in 1..Len(g.atsReports) :
                 ScoredDrafts(g)[k] = <<g.trustReports[k].score, g.atsReports[k].score>>
<1> DEFINE n == Len(g.atsReports)
<1>1. n \in Nat /\ Len(g.trustReports) \in Nat /\ n <= Len(g.trustReports)
  BY Fields, LenFacts DEF OneRun, Counts, TrustScored, AtsScored
<1>2. ASSUME NEW k \in 1..n
      PROVE  <<g.trustReports[k].score, g.atsReports[k].score>> \in Scores
  <2>1. g.trustReports[k] \in TrustReport
    BY <1>1, Fields
  <2>2. g.atsReports[k] \in ATSReport
    BY <1>1, Fields
  <2> QED BY <2>1, <2>2 DEF TrustReport, ATSReport, Scores
<1>3. ScoredDrafts(g) \in [1..n -> Scores]
  BY <1>2 DEF ScoredDrafts
<1>4. ScoredDrafts(g) \in Seq(Scores)
  BY <1>1, <1>3, SeqDef
<1>5. Len(ScoredDrafts(g)) = n
  <2>1. DOMAIN ScoredDrafts(g) = 1..n
    BY DEF ScoredDrafts
  <2>2. /\ DOMAIN ScoredDrafts(g) = 1..Len(ScoredDrafts(g))
        /\ Len(ScoredDrafts(g)) \in Nat
    BY <1>4, LenProperties
  <2> QED BY <1>1, <2>1, <2>2
<1> QED BY <1>1, <1>4, <1>5 DEF ScoredDrafts

\* The scores of a beginning of the run agree with those of the run.
LEMMA ScoredAgrees ==
    ASSUME NEW g, NEW h, OneRun(g), OneRun(h), Extends(g, h)
    PROVE  /\ Len(ScoredDrafts(g)) <= Len(ScoredDrafts(h))
           /\ \A k \in 1..Len(ScoredDrafts(g)) : ScoredDrafts(h)[k] = ScoredDrafts(g)[k]
<1> DEFINE n == Len(g.atsReports)
<1>1. /\ n \in Nat /\ Len(ScoredDrafts(g)) = n
      /\ Len(ScoredDrafts(h)) = Len(h.atsReports) /\ Len(h.atsReports) \in Nat
  BY ScoredIsList
<1>2. /\ n <= Len(h.atsReports) /\ n <= Len(g.trustReports) /\ Len(g.trustReports) \in Nat
      /\ \A k \in 1..n : h.atsReports[k] = g.atsReports[k]
      /\ \A k \in 1..Len(g.trustReports) : h.trustReports[k] = g.trustReports[k]
  BY SMTT(30), <1>1, Fields, LenFacts DEF Extends, IsPrefixOf, OneRun, Counts, TrustScored, AtsScored
<1> HIDE DEF n
<1>3. ASSUME NEW k \in 1..n
      PROVE  ScoredDrafts(h)[k] = ScoredDrafts(g)[k]
  <2>1. k \in 1..Len(h.atsReports) /\ k \in 1..Len(g.trustReports)
    BY <1>1, <1>2
  <2>2. ScoredDrafts(g)[k] = <<g.trustReports[k].score, g.atsReports[k].score>>
    BY ScoredIsList DEF n
  <2>3. ScoredDrafts(h)[k] = <<h.trustReports[k].score, h.atsReports[k].score>>
    BY SMTT(30), <2>1, ScoredIsList
  <2> QED BY <1>2, <2>1, <2>2, <2>3
<1> QED BY <1>1, <1>2, <1>3

\* Of a beginning of the run, the scores are a beginning.
LEMMA ScoredIsBeginning ==
    ASSUME NEW g, NEW h, OneRun(g), OneRun(h), Extends(g, h)
    PROVE  ScoredDrafts(g) \in DurableRunOf!Beginnings(ScoredDrafts(h))
<1> DEFINE s == ScoredDrafts(g)
           t == ScoredDrafts(h)
           n == Len(s)
<1>1. /\ s \in Seq(Scores) /\ t \in Seq(Scores) /\ n \in 0..Len(t)
      /\ \A k \in 1..n : t[k] = s[k]
  BY ScoredIsList, ScoredAgrees
<1> HIDE DEF s, t
<1>2. n \in Nat /\ \A k \in 1..n : t[k] \in Scores
  BY <1>1
<1>3. /\ SubSeq(t, 1, n) \in Seq(Scores) /\ Len(SubSeq(t, 1, n)) = n
      /\ \A k \in 1..n : SubSeq(t, 1, n)[k] = t[k]
  BY <1>2, SubSeqProperties
<1>4. s = SubSeq(t, 1, n)
  BY <1>1, <1>3, SeqEqual
<1> QED BY <1>1, <1>4 DEF DurableRunOf!Beginnings, s, t

\* A node adds the scores of one draft, or none.
LEMMA ScoredGrows ==
    ASSUME NEW g, NEW h, OneRun(g), OneRun(h), Extends(g, h)
    PROVE  /\ h.atsReports = g.atsReports => ScoredDrafts(h) = ScoredDrafts(g)
           /\ \A report \in ATSReport :
                 g.next = "score_ats" /\ h.atsReports = Append(g.atsReports, report)
                 => /\ Len(ScoredDrafts(g)) < MaxIterations + 1
                    /\ \E score \in Scores : ScoredDrafts(h) = Append(ScoredDrafts(g), score)
<1> DEFINE s == ScoredDrafts(g)
           t == ScoredDrafts(h)
           n == Len(s)
<1>1. /\ s \in Seq(Scores) /\ t \in Seq(Scores) /\ n \in Nat
      /\ n = Len(g.atsReports) /\ Len(t) = Len(h.atsReports)
      /\ \A k \in 1..n : t[k] = s[k]
  BY ScoredIsList, ScoredAgrees
<1> HIDE DEF s, t
<1>2. ASSUME h.atsReports = g.atsReports PROVE t = s
  <2>1. Len(t) = Len(s)
    BY <1>1, <1>2
  <2> QED BY <1>1, <2>1, SeqEqual
<1>3. ASSUME NEW report \in ATSReport, g.next = "score_ats",
             h.atsReports = Append(g.atsReports, report)
      PROVE  /\ n < MaxIterations + 1
             /\ \E score \in Scores : t = Append(s, score)
  <2>1. n < MaxIterations + 1
    <3>1. n = g.iteration
      BY <1>1, <1>3 DEF OneRun, Counts, AtsScored
    <3>2. g.iteration <= MaxIterations /\ g.iteration \in Nat /\ MaxIterations \in Nat
      BY Fields DEF OneRun, Shape
    <3> QED BY <3>1, <3>2
  <2>2. Len(t) = n + 1
    BY <1>1, <1>3, Fields
  <2>3. PICK score \in Scores : score = t[n + 1]
    BY <1>1, <2>2
  <2> DEFINE u == Append(s, score)
  <2>4. /\ u \in Seq(Scores) /\ Len(u) = n + 1
        /\ \A k \in 1..n : u[k] = s[k]
        /\ u[n + 1] = score
    <3> HIDE DEF n
    <3> QED BY <1>1, AppendFacts DEF n
  <2> HIDE DEF u
  <2>5. \A k \in 1..(n + 1) : t[k] = u[k]
    BY SMTT(30), <1>1, <2>3, <2>4
  <2>6. t = u
    BY <1>1, <2>2, <2>4, <2>5, SeqEqual
  <2> QED BY <2>1, <2>6 DEF u
<1> QED BY <1>2, <1>3 DEF s, t

-----------------------------------------------------------------------------
(* Every step of the graph is a step of DurableRun, or none.               *)

\* The variables of DurableRun.
Drafts == [i \in Invocation |-> ScoredDrafts(graph[i])]
Saved == IF disk = None THEN None ELSE ScoredDrafts(disk)

\* What is saved is None exactly when there is no checkpoint.
LEMMA SavedIsNone ==
    ASSUME NEW g, OneRun(g)
    PROVE  g # None /\ ScoredDrafts(g) # None
BY ScoredIsList, NoneAssumption DEF OneRun, Shape, Scores

LEMMA InitRefines == Init => DurableRunOf!Init
<1> SUFFICES ASSUME Init PROVE DurableRunOf!Init
  OBVIOUS
<1>1. PICK job \in BOOLEAN : graph = [i \in Invocation |-> Initial(job)]
  BY DEF Init
<1>2. ScoredDrafts(Initial(job)) = <<>>
  <2>1. Initial(job).atsReports = <<>>
    BY DEF Initial
  <2>2. Len(ScoredDrafts(Initial(job))) = 0 /\ ScoredDrafts(Initial(job)) \in Seq(Scores)
    BY <2>1, InitialIsRun, ScoredIsList
  <2> QED BY <2>2, EmptySeq
<1> QED BY <1>1, <1>2 DEF Init, DurableRunOf!Init

LEMMA EntryRefines ==
    ASSUME SoleInv, NEW i \in Invocation, Run(i) \/ Resume(i)
    PROVE  DurableRunOf!Next
<1>1. /\ graph \in [Invocation -> GraphState] /\ (disk # None => OneRun(disk))
  BY Queued DEF SoleInv, HistoryInv, GraphInv
<1>2. CASE Run(i)
  BY <1>2 DEF Run, DurableRunOf!Next, DurableRunOf!Begin
<1>3. CASE Resume(i)
  <2>1. status[i] = "idle" /\ disk' = disk
    BY <1>3 DEF Resume
  <2>2. CASE /\ disk = None
             /\ status' = [status EXCEPT ![i] = "not_found"]
             /\ UNCHANGED graph
    BY <2>1, <2>2 DEF DurableRunOf!Next, DurableRunOf!Continue
  <2>3. CASE /\ disk # None
             /\ status' = [status EXCEPT ![i] = "running"]
             /\ graph' = [graph EXCEPT ![i] = disk]
    <3>1. Saved # None /\ Saved = ScoredDrafts(disk)
      BY <1>1, <2>3, SavedIsNone DEF Saved
    <3>2. Drafts' = [Drafts EXCEPT ![i] = Saved]
      BY <1>1, <2>3, <3>1 DEF Drafts
    <3> QED BY <2>1, <2>3, <3>1, <3>2
            DEF DurableRunOf!Next, DurableRunOf!Continue, Drafts, Saved
  <2> QED BY <1>3, <2>2, <2>3 DEF Resume
<1> QED BY <1>2, <1>3

LEMMA NodeRefines ==
    ASSUME SoleInv, NEW i \in Invocation, ExecuteNode(i)
    PROVE  DurableRunOf!Next \/ UNCHANGED <<Drafts, status, Saved>>
<1>1. PICK n, update :
        LET after == [update EXCEPT !.timings = Append(@, n)]
        IN  /\ Complete(i, n, update)
            /\ OneRun(after) /\ Advances(graph[i], after)
            /\ \/ after.atsReports = graph[i].atsReports
               \/ /\ graph[i].next = "score_ats"
                  /\ \E report \in ATSReport :
                        after.atsReports = Append(graph[i].atsReports, report)
  BY NodeAdvances DEF SoleInv
<1> DEFINE after == [update EXCEPT !.timings = Append(@, n)]
<1>2. /\ status' = status /\ disk' = disk /\ status[i] = "running"
      /\ graph' = [graph EXCEPT ![i] = after] /\ OneRun(after) /\ Extends(graph[i], after)
      /\ OneRun(graph[i]) /\ graph \in [Invocation -> GraphState]
  BY <1>1 DEF Complete, Advances, SoleInv, HistoryInv, GraphInv
<1>3. \/ after.atsReports = graph[i].atsReports
      \/ /\ graph[i].next = "score_ats"
         /\ \E report \in ATSReport : after.atsReports = Append(graph[i].atsReports, report)
  BY <1>1
<1> HIDE DEF after
<1>4. Drafts' = [Drafts EXCEPT ![i] = ScoredDrafts(after)] /\ Drafts[i] = ScoredDrafts(graph[i])
  BY <1>2 DEF Drafts
<1>5. Saved' = Saved
  BY <1>2 DEF Saved
<1>6. CASE after.atsReports = graph[i].atsReports
  <2>1. ScoredDrafts(after) = Drafts[i]
    BY <1>2, <1>4, <1>6, ScoredGrows
  <2>2. Drafts' = Drafts
    BY <1>4, <2>1 DEF Drafts
  <2> QED BY <1>2, <1>5, <2>2
<1>7. CASE /\ graph[i].next = "score_ats"
           /\ \E report \in ATSReport : after.atsReports = Append(graph[i].atsReports, report)
  <2>1. PICK score \in Scores : ScoredDrafts(after) = Append(ScoredDrafts(graph[i]), score)
    BY <1>2, <1>7, ScoredGrows
  <2>2. Len(ScoredDrafts(graph[i])) < MaxIterations + 1
    BY <1>2, <1>7, ScoredGrows
  <2>3. DurableRunOf!AddDraft(i)
    BY <1>2, <1>4, <1>5, <2>1, <2>2 DEF DurableRunOf!AddDraft, Drafts, Saved, Scores
  <2> QED BY <2>3 DEF DurableRunOf!Next
<1> QED BY <1>3, <1>6, <1>7

LEMMA PersistRefines ==
    ASSUME SoleInv, NEW i \in Invocation, Persist(i)
    PROVE  DurableRunOf!Next
<1>1. /\ queue[i] \in Seq(GraphState) /\ queue[i] # <<>> /\ OneRun(graph[i])
      /\ \A k \in 1..Len(queue[i]) : OneRun(queue[i][k])
  BY Queued DEF Persist, SoleInv
<1>2. status[i] = "running" /\ Durable /\ Saving(i)
  BY <1>1 DEF SoleInv, OneAtATime
<1>3. disk' = queue[i][1] /\ 1 \in 1..Len(queue[i]) /\ UNCHANGED <<graph, status>>
  BY <1>1 DEF Persist
<1>4. OneRun(queue[i][1]) /\ Extends(queue[i][1], graph[i])
  BY <1>1, <1>2, <1>3 DEF Saving
<1>5. Saved' = ScoredDrafts(queue[i][1])
  BY <1>3, <1>4, SavedIsNone DEF Saved
<1>6. Saved' \in DurableRunOf!Beginnings(Drafts[i])
  BY <1>1, <1>4, <1>5, ScoredIsBeginning DEF Drafts
<1>7. Drafts' = Drafts
  BY <1>3 DEF Drafts
<1> QED BY <1>2, <1>3, <1>6, <1>7 DEF DurableRunOf!Next, DurableRunOf!Save, Drafts, Saved

LEMMA LeaveRefines ==
    ASSUME SoleInv, NEW i \in Invocation, Finish(i) \/ NodeFails(i)
    PROVE  DurableRunOf!Next
<1>1. \E how \in {"ended", "failed"} :
         Leave(i, how) /\ (how = "ended" => graph[i].next = "end")
  BY NoRecursionError DEF Finish, NodeFails, SoleInv
<1>2. PICK how \in {"ended", "failed"} :
         Leave(i, how) /\ (how = "ended" => graph[i].next = "end")
  BY <1>1
<1>3. status[i] = "running" /\ OneRun(graph[i])
  BY DEF Finish, NodeFails, SoleInv, HistoryInv, GraphInv
<1>4. /\ status' = [status EXCEPT ![i] = how] /\ disk' = Flushed(i) /\ graph' = graph
  BY <1>2 DEF Leave
<1>5. Saved' = IF Durable THEN Drafts[i] ELSE Saved
  <2>1. CASE Durable
    <3>1. disk' = graph[i]
      BY <1>3, <1>4, <2>1 DEF SoleInv, OneAtATime, Saving
    <3> QED BY <1>3, <2>1, <3>1, SavedIsNone DEF Saved, Drafts
  <2>2. CASE ~Durable
    BY <1>4, <2>2 DEF Saved, Flushed, SoleInv, OneAtATime
  <2> QED BY <2>1, <2>2
<1>6. Drafts' = Drafts
  BY <1>4 DEF Drafts
<1>7. how = "ended" => Len(Drafts[i]) = MaxIterations + 1
  <2>1. Len(Drafts[i]) = Len(graph[i].atsReports)
    BY <1>3, ScoredIsList DEF Drafts
  <2> QED BY <1>2, <1>3, <2>1 DEF OneRun, Shape, Counts, AtsScored
<1> QED BY <1>2, <1>3, <1>4, <1>5, <1>6, <1>7
        DEF DurableRunOf!Next, DurableRunOf!Leave, Drafts, Saved

LEMMA NextRefines ==
    SoleInv /\ [Next]_vars => [DurableRunOf!Next]_(DurableRunOf!runVars)
<1> SUFFICES ASSUME SoleInv, [Next]_vars
             PROVE  DurableRunOf!Next \/ UNCHANGED <<Drafts, status, Saved>>
  BY DEF DurableRunOf!runVars, Drafts, Saved
<1>1. CASE Crash
  BY <1>1 DEF Crash, Running, DurableRunOf!Next, DurableRunOf!Crash
<1>2. CASE UNCHANGED vars
  BY <1>2 DEF vars, Drafts, Saved
<1>3. ASSUME NEW i \in Invocation, Run(i) \/ Resume(i) \/ Proceed(i)
      PROVE  DurableRunOf!Next \/ UNCHANGED <<Drafts, status, Saved>>
  BY <1>3, EntryRefines, NodeRefines, PersistRefines, LeaveRefines DEF Proceed
<1> QED BY <1>1, <1>2, <1>3 DEF Next

\* With one invocation at a time the orchestrator implements DurableRun, for every cap,
\* all scores, with and without a checkpoint file: a run that is left unfinished failed
\* or was lost, and a resume goes on with scored drafts that were saved.
THEOREM Implements ==
    ASSUME MaxRunning = 1
    PROVE  Spec => ImplementsDurableRun
<1>1. Init => DurableRunOf!Init
  BY InitRefines
<1>2. SoleInv /\ [Next]_vars => [DurableRunOf!Next]_(DurableRunOf!runVars)
  BY NextRefines
<1> QED BY <1>1, <1>2, CheckpointsInOrder, PTL
        DEF Spec, ImplementsDurableRun, DurableRunOf!Spec

=============================================================================
