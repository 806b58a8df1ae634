---------------------------- MODULE RunReportProofs ----------------------------
(***************************************************************************)
(* What metrics.json says of a run, proved of RunReport for every number   *)
(* of rewrites, attempts and resumes, every pricing file and every         *)
(* configuration of the models.                                            *)
(*                                                                         *)
(* The steps join two lists that nothing but counting relates: the n-th    *)
(* execution of a node takes the n-th call of that node.  In a run that    *)
(* was not resumed and whose answers all parsed, a node that must call a   *)
(* model has completed exactly as often as its calls were counted          *)
(* (Attributed), so the counts of the two lists agree at every position,   *)
(* and not at the end only.                                                *)
(*                                                                         *)
(* RowsPriceOne is about the names of models and rows: where a row that    *)
(* fits an id begins and ends.                                             *)
(***************************************************************************)
EXTENDS RunReport, FoldLemmas

\* Where n occurs among the first p elements of list s, and how often.
Occurs(s, n, p) == {q \in 1..p : s[q] = n}
Count(s, n, p) == Cardinality(Occurs(s, n, p))

\* The nodes of _node_calls, one per counted call.
CallNodes == [i \in 1..Len(nodeCalls) |-> nodeCalls[i].node]

-----------------------------------------------------------------------------
(* The invariant.                                                          *)

\* A call under way is the latest one, made by the execution that runs now, and
\* on_chat_model_start has noted its node and nothing else under its id.
UnderWay ==
    /\ calling =>
          /\ status = "running" /\ node \in Always \cup Sometimes /\ attempt > 0
          /\ Len(madeBy) > 0 /\ madeBy[Len(madeBy)] = Len(timings) + 1
          /\ <<Len(madeBy), node>> \in nodeByRun
          /\ \A e \in nodeByRun : e[1] = Len(madeBy) => e = <<Len(madeBy), node>>
    /\ status = "running" /\ ~calling => attempt < Attempts
    /\ status = "reported" => node = "end"
    /\ \A e \in nodeByRun : e[1] <= Len(madeBy)

\* Every counted call was made, and is counted once.
Counted ==
    \A i \in 1..Len(nodeCalls) :
        /\ nodeCalls[i].call \in 1..Len(madeBy)
        /\ calling => nodeCalls[i].call # Len(madeBy)
        /\ \A j \in 1..Len(nodeCalls) : nodeCalls[i].call = nodeCalls[j].call => i = j

\* The calls counted by node and the models counted by name tell the same prices.
Priced ==
    /\ \A i \in 1..Len(nodeCalls) : \E m \in DOMAIN byModel :
          nodeCalls[i].priced = (PriceFor(m, setup.pricing) # None)
    /\ \A m \in DOMAIN byModel : \E i \in 1..Len(nodeCalls) :
          nodeCalls[i].priced = (PriceFor(m, setup.pricing) # None)

\* The nodes before the loop run once, in this order.
Prepared ==
    /\ node = "analyze_job" => Len(timings) = 0
    /\ node = "load_candidate_profile" => Len(timings) = 1
    /\ node = "retrieve_evidence" => Len(timings) = 2
    /\ node \notin {"analyze_job", "load_candidate_profile", "retrieve_evidence"} =>
          Len(timings) >= 3
    /\ \A p \in 1..Len(timings) :
          /\ timings[p] = "analyze_job" <=> p = 1
          /\ timings[p] = "load_candidate_profile" <=> p = 2
          /\ timings[p] = "retrieve_evidence" <=> p = 3

Rewritten(p) == Count(timings, "prepare_rewrite", p)
Written(p) == Count(timings, "write_resume", p)

Loop == {"write_resume", "score_trust", "score_ats", "prepare_rewrite"}

\* A draft is written once per rewrite, the first one without.
Alternating ==
    /\ node \in {"analyze_job", "load_candidate_profile", "retrieve_evidence", "write_resume"} =>
          Written(Len(timings)) = Rewritten(Len(timings))
    /\ node \in {"score_trust", "score_ats", "prepare_rewrite", "end"} =>
          Written(Len(timings)) = Rewritten(Len(timings)) + 1
    /\ \A p \in 1..Len(timings) :
          timings[p] \in Loop => Written(p) = Rewritten(p - 1) + 1

\* Without a resume and an unusable answer, each counted call belongs to a completed
\* execution of its node, at the same place in the one list as in the other, and
\* the executions that need a call have one.
Attributed ==
    resumed = 0 /\ ~unusable =>
        /\ \A i \in 1..Len(nodeCalls) :
              LET p == madeBy[nodeCalls[i].call]
              IN  /\ p \in 1..Len(timings)
                  /\ timings[p] = nodeCalls[i].node
                  /\ Count(CallNodes, nodeCalls[i].node, i) = Count(timings, timings[p], p)
        /\ \A n \in Always :
              Count(CallNodes, n, Len(nodeCalls)) = Count(timings, n, Len(timings))
        /\ \A p \in 1..Len(timings) :
              timings[p] \in Always =>
                  \E i \in 1..Len(nodeCalls) : madeBy[nodeCalls[i].call] = p

ReportInv ==
    TypeOK /\ UnderWay /\ Counted /\ Priced /\ Prepared /\ Alternating /\ Attributed

-----------------------------------------------------------------------------
(* Counting.                                                               *)

LEMMA CountNothing ==
    ASSUME NEW s, NEW n
    PROVE  Count(s, n, 0) = 0
<1>1. Occurs(s, n, 0) = {}
  BY DEF Occurs
<1> QED BY <1>1, FS_EmptySet DEF Count

LEMMA CountFinite ==
    ASSUME NEW s, NEW n, NEW p \in Nat
    PROVE  IsFiniteSet(Occurs(s, n, p)) /\ Count(s, n, p) \in Nat
<1>1. IsFiniteSet(1..p) /\ Occurs(s, n, p) \in SUBSET (1..p)
  BY FS_Interval DEF Occurs
<1>2. IsFiniteSet(Occurs(s, n, p))
  BY <1>1, FS_Subset
<1> QED BY <1>2, FS_CardinalityType DEF Count

\* One element further there is one occurrence more, or none.
LEMMA CountNext ==
    ASSUME NEW s, NEW n, NEW p \in Nat
    PROVE  Count(s, n, p + 1) = IF s[p + 1] = n THEN Count(s, n, p) + 1 ELSE Count(s, n, p)
<1>1. CASE s[p + 1] = n
  <2>1. Occurs(s, n, p + 1) = Occurs(s, n, p) \cup {p + 1} /\ p + 1 \notin Occurs(s, n, p)
    BY <1>1 DEF Occurs
  <2> QED BY <1>1, <2>1, CountFinite, FS_AddElement DEF Count
<1>2. CASE s[p + 1] # n
  <2>1. Occurs(s, n, p + 1) = Occurs(s, n, p)
    BY <1>2 DEF Occurs
  <2> QED BY <1>2, <2>1 DEF Count
<1> QED BY <1>1, <1>2

\* Lists with the same beginning count the same there.
LEMMA CountSame ==
    ASSUME NEW s, NEW t, NEW n, NEW p \in Nat, \A q \in 1..p : s[q] = t[q]
    PROVE  Count(s, n, p) = Count(t, n, p)
<1>1. Occurs(s, n, p) = Occurs(t, n, p)
  BY DEF Occurs
<1> QED BY <1>1 DEF Count

\* A later occurrence counts more, so a count tells the place of an occurrence.
LEMMA CountLater ==
    ASSUME NEW s, NEW n, NEW p \in Nat, NEW r \in Nat, p < r, s[r] = n
    PROVE  Count(s, n, p) < Count(s, n, r)
<1>0. IsFiniteSet(Occurs(s, n, r))
  BY CountFinite
<1>1. /\ Occurs(s, n, p) \in SUBSET Occurs(s, n, r)
      /\ r \in Occurs(s, n, r) /\ r \notin Occurs(s, n, p)
  BY DEF Occurs
<1>2. /\ Count(s, n, p) <= Count(s, n, r)
      /\ Count(s, n, r) = Count(s, n, p) => Occurs(s, n, r) = Occurs(s, n, p)
  BY <1>0, <1>1, FS_Subset DEF Count
<1>3. Count(s, n, p) \in Nat /\ Count(s, n, r) \in Nat
  BY CountFinite
<1> QED BY <1>1, <1>2, <1>3

LEMMA CountPlaces ==
    ASSUME NEW s, NEW n, NEW p \in Nat, NEW r \in Nat, s[p] = n, s[r] = n,
           Count(s, n, p) = Count(s, n, r)
    PROVE  p = r
<1>1. Count(s, n, p) \in Nat /\ Count(s, n, r) \in Nat
  BY CountFinite
<1>2. ~(p < r) /\ ~(r < p)
  BY <1>1, CountLater
<1> QED BY <1>2

\* An element that is not in the list is counted zero times.
LEMMA CountAbsent ==
    ASSUME NEW s, NEW n, NEW p \in Nat, \A q \in 1..p : s[q] # n
    PROVE  Count(s, n, p) = 0
<1>1. Occurs(s, n, p) = {}
  BY DEF Occurs
<1> QED BY <1>1, FS_EmptySet DEF Count

\* Appending to a list changes nothing before its end.
LEMMA CountAppended ==
    ASSUME NEW S, NEW s \in Seq(S), NEW e \in S, NEW n
    PROVE  /\ \A p \in 0..Len(s) : Count(Append(s, e), n, p) = Count(s, n, p)
           /\ Count(Append(s, e), n, Len(s) + 1) =
                 IF e = n THEN Count(s, n, Len(s)) + 1 ELSE Count(s, n, Len(s))
<1> DEFINE t == Append(s, e)
<1>1. /\ Len(s) \in Nat /\ t[Len(s) + 1] = e
      /\ \A q \in 1..Len(s) : s[q] = t[q]
  OBVIOUS
<1> HIDE DEF t
<1>2. ASSUME NEW p \in 0..Len(s) PROVE Count(t, n, p) = Count(s, n, p)
  <2>1. p \in Nat /\ \A q \in 1..p : t[q] = s[q]
    BY <1>1
  <2> QED BY <2>1, CountSame
<1>3. Count(t, n, Len(s) + 1) = IF e = n THEN Count(t, n, Len(s)) + 1 ELSE Count(t, n, Len(s))
  BY <1>1, CountNext
<1> QED BY <1>1, <1>2, <1>3 DEF t

LEMMA CountBefore ==
    ASSUME NEW S, NEW s \in Seq(S), NEW e \in S, NEW n, NEW p \in 0..Len(s)
    PROVE  Count(Append(s, e), n, p) = Count(s, n, p)
BY CountAppended

-----------------------------------------------------------------------------
(* The parts that several actions share.                                   *)

\* The nodes that call a model, and the order of the graph.
LEMMA NodeFacts ==
    ASSUME NEW n \in Node, NEW t
    PROVE  /\ NextNode(n, t) \in (Node \ {"analyze_job"}) \cup {"end"}
           /\ n = "analyze_job" => NextNode(n, t) = "load_candidate_profile"
           /\ n = "load_candidate_profile" => NextNode(n, t) = "retrieve_evidence"
           /\ n \in {"retrieve_evidence", "prepare_rewrite"} => NextNode(n, t) = "write_resume"
           /\ n = "write_resume" => NextNode(n, t) = "score_trust"
           /\ n = "score_trust" => NextNode(n, t) = "score_ats"
           /\ n = "score_ats" => NextNode(n, t) \in {"end", "prepare_rewrite"}
BY DEF NextNode, Node

LEMMA ModelFacts ==
    ASSUME TypeOK, node \in Always \cup Sometimes
    PROVE  /\ setup.model[Role(node)] \in ModelId
           /\ node \in Node
<1>1. Role(node) \in {"extraction", "writer", "verifier"}
  BY DEF Role, Always, Sometimes
<1> QED BY <1>1, RunReportAssumption DEF TypeOK, Always, Sometimes, Node

\* A node that completes keeps the order and the alternation of the graph.
LEMMA CompleteKeeps ==
    ASSUME TypeOK, Prepared, Alternating, node \in Node, Complete
    PROVE  /\ timings' \in Seq(Node) /\ Len(timings') = Len(timings) + 1
           /\ timings'[Len(timings) + 1] = node
           /\ \A p \in 1..Len(timings) : timings'[p] = timings[p]
           /\ node' \in Node \cup {"end"} /\ attempt' = 0
           /\ Prepared' /\ Alternating'
<1> DEFINE L == Len(timings)
<1>1. /\ timings \in Seq(Node) /\ L \in Nat
      /\ timings' = Append(timings, node) /\ node' = NextNode(node, timings') /\ attempt' = 0
  BY DEF TypeOK, Complete
<1>2. /\ timings' \in Seq(Node) /\ Len(timings') = L + 1 /\ timings'[L + 1] = node
      /\ \A p \in 1..L : timings'[p] = timings[p]
  BY <1>1
<1>3. node' \in Node \cup {"end"}
  BY <1>1, NodeFacts
<1>4. Prepared'
  <2>1. \A p \in 1..Len(timings') : p \in 1..L \/ (p = L + 1 /\ timings'[p] = node)
    BY <1>1, <1>2
  <2>2. ASSUME NEW p \in 1..Len(timings')
        PROVE  /\ timings'[p] = "analyze_job" <=> p = 1
               /\ timings'[p] = "load_candidate_profile" <=> p = 2
               /\ timings'[p] = "retrieve_evidence" <=> p = 3
    <3>1. CASE p \in 1..L
      BY <1>2, <3>1 DEF Prepared
    <3>2. CASE p = L + 1 /\ timings'[p] = node
      BY <1>1, <3>2 DEF Prepared, Node
    <3> QED BY <2>1, <3>1, <3>2
  <2>3. /\ node' = "analyze_job" => L + 1 = 0
        /\ node' = "load_candidate_profile" => L + 1 = 1
        /\ node' = "retrieve_evidence" => L + 1 = 2
        /\ node' \notin {"analyze_job", "load_candidate_profile", "retrieve_evidence"} =>
              L + 1 >= 3
    BY <1>1, NodeFacts DEF Prepared, Node
  <2> QED BY <1>2, <2>2, <2>3 DEF Prepared
<1>5. Alternating'
  <2> DEFINE W(p) == Count(timings, "write_resume", p)
             R(p) == Count(timings, "prepare_rewrite", p)
             W2(p) == Count(timings', "write_resume", p)
             R2(p) == Count(timings', "prepare_rewrite", p)
  <2>1. \A p \in 0..L : W2(p) = W(p) /\ R2(p) = R(p)
    BY <1>1, CountAppended
  <2>2. /\ W2(L + 1) = IF node = "write_resume" THEN W(L) + 1 ELSE W(L)
        /\ R2(L + 1) = IF node = "prepare_rewrite" THEN R(L) + 1 ELSE R(L)
    BY <1>1, CountAppended
  <2>3. W(L) \in Nat /\ R(L) \in Nat
    BY <1>1, CountFinite
  <2>4. /\ node \in {"analyze_job", "load_candidate_profile", "retrieve_evidence",
                     "write_resume"} => W(L) = R(L)
        /\ node \in {"score_trust", "score_ats", "prepare_rewrite", "end"} => W(L) = R(L) + 1
        /\ \A p \in 1..L : timings[p] \in Loop => W(p) = R(p - 1) + 1
    BY DEF Alternating, Written, Rewritten
  <2>5. R2(L) = R(L)
    BY <1>1, <2>1
  <2> HIDE DEF W, R, W2, R2
  <2>6. ASSUME NEW p \in 1..Len(timings'), timings'[p] \in Loop
        PROVE  W2(p) = R2(p - 1) + 1
    <3>1. CASE p \in 1..L
      <4>1. p \in 0..L /\ p - 1 \in 0..L
        BY <1>1, <3>1
      <4> QED BY <1>2, <2>1, <2>4, <2>6, <3>1, <4>1
    <3>2. CASE p = L + 1
      <4>1. node \in Loop /\ p - 1 = L
        BY <1>1, <1>2, <2>6, <3>2
      <4> QED BY <2>2, <2>3, <2>4, <2>5, <3>2, <4>1 DEF Loop
    <3> QED BY <1>1, <1>2, <3>1, <3>2
  <2>7. /\ node' \in {"analyze_job", "load_candidate_profile", "retrieve_evidence",
                      "write_resume"} => W2(L + 1) = R2(L + 1)
        /\ node' \in {"score_trust", "score_ats", "prepare_rewrite", "end"} =>
              W2(L + 1) = R2(L + 1) + 1
    BY <1>1, <2>2, <2>3, <2>4, NodeFacts DEF Node
  <2> QED BY <1>2, <2>6, <2>7 DEF Alternating, Written, Rewritten, W2, R2
<1> QED BY <1>1, <1>2, <1>3, <1>4, <1>5

\* What on_llm_end appends: the node that on_chat_model_start noted for this call.
Usage(model) == [node |-> node, call |-> Len(madeBy),
                 priced |-> PriceFor(model, setup.pricing) # None]

\* An answer is counted once, by its node and by its model, and the call is forgotten.
LEMMA AnswerCounted ==
    ASSUME TypeOK, UnderWay, Counted, Priced, calling, ~calling', OnLlmEnd,
           UNCHANGED <<setup, madeBy>>
    PROVE  LET model == setup.model[Role(node)]
           IN  /\ nodeCalls' = Append(nodeCalls, Usage(model))
               /\ Usage(model) \in [node : Node, call : Nat, priced : BOOLEAN]
               /\ nodeByRun' \subseteq nodeByRun
               /\ DOMAIN byModel' \subseteq ModelId
               /\ \A m \in DOMAIN byModel' : byModel'[m] \in Nat
               /\ Counted' /\ Priced'
<1> DEFINE model == setup.model[Role(node)]
           mine == {e \in nodeByRun : e[1] = Len(madeBy)}
           counted == IF model \in DOMAIN byModel THEN byModel[model] ELSE 0
           U == [node : Node, call : Nat, priced : BOOLEAN]
           u == Usage(model)
<1>1. /\ node \in Always \cup Sometimes /\ Len(madeBy) > 0 /\ Len(madeBy) \in Nat
      /\ model \in ModelId /\ node \in Node
      /\ nodeCalls \in Seq(U) /\ Len(nodeCalls) \in Nat
  BY ModelFacts DEF UnderWay, TypeOK
<1>2. mine = {<<Len(madeBy), node>>}
  BY DEF UnderWay
<1>3. mine # {} /\ (CHOOSE e \in mine : TRUE)[2] = node
  <2>1. (CHOOSE e \in mine : TRUE) \in mine
    BY <1>2
  <2>2. (CHOOSE e \in mine : TRUE) = <<Len(madeBy), node>>
    BY <1>2, <2>1
  <2> QED BY <1>2, <2>2
<1>4. /\ nodeCalls' = Append(nodeCalls, u)
      /\ nodeByRun' \subseteq nodeByRun
      /\ byModel' = [m \in DOMAIN byModel \cup {model} |->
                        IF m = model THEN counted + 1 ELSE byModel[m]]
  BY <1>3 DEF OnLlmEnd, Call, Usage
<1>5. u \in U /\ u.call = Len(madeBy) /\ u.priced = (PriceFor(model, setup.pricing) # None)
  BY <1>1 DEF Usage
<1>6. /\ DOMAIN byModel' = DOMAIN byModel \cup {model}
      /\ DOMAIN byModel' \subseteq ModelId /\ \A m \in DOMAIN byModel' : byModel'[m] \in Nat
  BY <1>1, <1>4 DEF TypeOK
<1> HIDE DEF u, mine, counted, model
<1>7. /\ Len(nodeCalls') = Len(nodeCalls) + 1 /\ nodeCalls'[Len(nodeCalls) + 1] = u
      /\ \A i \in 1..Len(nodeCalls) : nodeCalls'[i] = nodeCalls[i]
      /\ \A i \in 1..Len(nodeCalls') : i \in 1..Len(nodeCalls) \/ i = Len(nodeCalls) + 1
  BY <1>1, <1>4, <1>5
<1>8. Counted'
  <2>1. ASSUME NEW i \in 1..Len(nodeCalls)
        PROVE  nodeCalls'[i].call \in 1..Len(madeBy) /\ nodeCalls'[i].call # Len(madeBy)
    BY <1>7, <2>1 DEF Counted
  <2>2. nodeCalls'[Len(nodeCalls) + 1].call = Len(madeBy)
    BY <1>5, <1>7
  <2>3. ASSUME NEW i \in 1..Len(nodeCalls'), NEW j \in 1..Len(nodeCalls'),
               nodeCalls'[i].call = nodeCalls'[j].call
        PROVE  i = j
    <3>1. CASE i \in 1..Len(nodeCalls) /\ j \in 1..Len(nodeCalls)
      BY <1>7, <2>3, <3>1 DEF Counted
    <3> QED BY <1>7, <2>1, <2>2, <2>3, <3>1
  <2>4. ASSUME NEW i \in 1..Len(nodeCalls')
        PROVE  nodeCalls'[i].call \in 1..Len(madeBy)
    BY <1>1, <1>7, <2>1, <2>2
  <2>5. madeBy' = madeBy
    OBVIOUS
  <2> QED BY <2>3, <2>4, <2>5 DEF Counted
<1>9. Priced'
  <2>1. ASSUME NEW i \in 1..Len(nodeCalls')
        PROVE  \E m \in DOMAIN byModel' :
                  nodeCalls'[i].priced = (PriceFor(m, setup.pricing) # None)
    <3>1. CASE i \in 1..Len(nodeCalls)
      BY <1>6, <1>7, <3>1 DEF Priced
    <3>2. CASE i = Len(nodeCalls) + 1
      BY <1>5, <1>6, <1>7, <3>2
    <3> QED BY <1>7, <3>1, <3>2
  <2>2. ASSUME NEW m \in DOMAIN byModel'
        PROVE  \E i \in 1..Len(nodeCalls') :
                  nodeCalls'[i].priced = (PriceFor(m, setup.pricing) # None)
    <3>1. CASE m \in DOMAIN byModel
      <4>1. PICK i \in 1..Len(nodeCalls) :
                nodeCalls[i].priced = (PriceFor(m, setup.pricing) # None)
        BY <3>1 DEF Priced
      <4>2. i \in 1..Len(nodeCalls') /\ nodeCalls'[i] = nodeCalls[i]
        BY <1>1, <1>7
      <4> QED BY <4>1, <4>2
    <3>2. CASE m = model
      <4>1. Len(nodeCalls) + 1 \in 1..Len(nodeCalls')
        BY <1>1, <1>7
      <4> QED BY <1>5, <1>7, <3>2, <4>1
    <3> QED BY <1>6, <3>1, <3>2
  <2>3. setup' = setup
    OBVIOUS
  <2> QED BY <2>1, <2>2, <2>3 DEF Priced
<1> QED BY <1>4, <1>5, <1>6, <1>8, <1>9 DEF u, model

\* An execution that completes without a call leaves the attribution as it was.
LEMMA SilentAttributed ==
    ASSUME TypeOK, Counted, Prepared, Alternating, Attributed, node \in Node \ Always, Complete,
           UNCHANGED <<nodeCalls, madeBy, resumed, unusable>>
    PROVE  Attributed'
<1> SUFFICES ASSUME resumed = 0, ~unusable
             PROVE  Attributed'
  BY DEF Attributed
<1>1. /\ Len(timings) \in Nat /\ timings \in Seq(Node) /\ timings' = Append(timings, node)
      /\ Len(timings') = Len(timings) + 1 /\ timings'[Len(timings) + 1] = node
      /\ \A p \in 1..Len(timings) : timings'[p] = timings[p]
  BY CompleteKeeps DEF TypeOK, Complete
<1>2. ASSUME NEW n, NEW p \in 0..Len(timings)
      PROVE  Count(timings', n, p) = Count(timings, n, p)
  BY <1>1, CountBefore
<1>3. \A n \in Always : Count(timings', n, Len(timings')) = Count(timings, n, Len(timings))
  BY <1>1, CountAppended
<1>4. CallNodes' = CallNodes
  BY DEF CallNodes
<1>5. ASSUME NEW i \in 1..Len(nodeCalls)
      PROVE  LET p == madeBy[nodeCalls[i].call]
             IN  /\ p \in 1..Len(timings')
                 /\ timings'[p] = nodeCalls[i].node
                 /\ Count(CallNodes, nodeCalls[i].node, i) = Count(timings', timings'[p], p)
  <2> DEFINE p == madeBy[nodeCalls[i].call]
  <2>1. /\ p \in 1..Len(timings) /\ timings[p] = nodeCalls[i].node
        /\ Count(CallNodes, nodeCalls[i].node, i) = Count(timings, timings[p], p)
    BY DEF Attributed
  <2> HIDE DEF p
  <2>2. p \in 0..Len(timings)
    BY <1>1, <2>1
  <2>3. Count(timings', timings[p], p) = Count(timings, timings[p], p)
    BY <1>2, <2>2
  <2>4. p \in 1..Len(timings') /\ timings'[p] = timings[p]
    BY <1>1, <2>1
  <2> QED BY <2>1, <2>3, <2>4 DEF p
<1>6. \A n \in Always :
          Count(CallNodes, n, Len(nodeCalls)) = Count(timings', n, Len(timings'))
  BY <1>3 DEF Attributed
<1>7. ASSUME NEW p \in 1..Len(timings'), timings'[p] \in Always
      PROVE  \E i \in 1..Len(nodeCalls) : madeBy[nodeCalls[i].call] = p
  <2>1. p \in 1..Len(timings) /\ timings[p] \in Always
    BY <1>1, <1>7
  <2> QED BY <2>1 DEF Attributed
<1>8. /\ nodeCalls' = nodeCalls /\ madeBy' = madeBy /\ resumed' = resumed
      /\ unusable' = unusable
  OBVIOUS
<1> QED BY <1>4, <1>5, <1>6, <1>7, <1>8 DEF Attributed

\* An execution that completes with the answer to its call adds one to both counts.
LEMMA AnswerAttributed ==
    ASSUME TypeOK, UnderWay, Counted, Priced, Prepared, Alternating, Attributed,
           calling, ~calling', OnLlmEnd, Complete,
           UNCHANGED <<setup, madeBy, resumed, unusable>>
    PROVE  Attributed'
<1> SUFFICES ASSUME resumed = 0, ~unusable
             PROVE  Attributed'
  BY DEF Attributed
<1> DEFINE L == Len(timings)
           C == Len(nodeCalls)
           M == Len(madeBy)
           U == [node : Node, call : Nat, priced : BOOLEAN]
<1>0. PICK u \in U : nodeCalls' = Append(nodeCalls, u) /\ u.node = node /\ u.call = M
  BY AnswerCounted DEF Usage
<1>1. /\ L \in Nat /\ timings \in Seq(Node) /\ timings' = Append(timings, node)
      /\ Len(timings') = L + 1 /\ timings'[L + 1] = node
      /\ \A p \in 1..L : timings'[p] = timings[p]
      /\ node \in Node /\ node \in Always \cup Sometimes
      /\ M \in Nat /\ M > 0 /\ madeBy[M] = L + 1
  BY CompleteKeeps, ModelFacts DEF TypeOK, Complete, UnderWay
<1>2. /\ nodeCalls \in Seq(U) /\ C \in Nat
      /\ Len(nodeCalls') = C + 1 /\ nodeCalls'[C + 1] = u
      /\ \A i \in 1..C : nodeCalls'[i] = nodeCalls[i]
  BY <1>0 DEF TypeOK
<1>3. /\ CallNodes \in Seq(Node) /\ Len(CallNodes) = C
      /\ CallNodes' = Append(CallNodes, node)
  <2>1. /\ CallNodes \in Seq(Node) /\ Len(CallNodes) = C
        /\ CallNodes = [i \in 1..C |-> nodeCalls[i].node]
    <3>1. ASSUME NEW i \in 1..C PROVE nodeCalls[i].node \in Node
      <4>1. nodeCalls[i] \in U
        <5> HIDE DEF U
        <5> QED BY <1>2
      <4> QED BY <4>1
    <3> QED BY <1>2, <3>1 DEF CallNodes
  <2>2. CallNodes' = [i \in 1..(C + 1) |-> nodeCalls'[i].node]
    BY <1>2 DEF CallNodes
  <2>3. \A i \in 1..(C + 1) : nodeCalls'[i].node = IF i = C + 1 THEN node ELSE CallNodes[i]
    BY <1>0, <1>2, <2>1
  <2>4. Append(CallNodes, node) = [i \in 1..(C + 1) |-> IF i = C + 1 THEN node ELSE CallNodes[i]]
    BY <1>1, <2>1
  <2>5. CallNodes' = Append(CallNodes, node)
    BY <2>2, <2>3, <2>4
  <2> QED BY <2>1, <2>5
<1>4. ASSUME NEW n, NEW p \in 0..L PROVE Count(timings', n, p) = Count(timings, n, p)
  BY <1>1, CountBefore
<1>5. \A n : Count(timings', n, L + 1) = IF node = n THEN Count(timings, n, L) + 1
                                                   ELSE Count(timings, n, L)
  BY <1>1, CountAppended
<1>6. ASSUME NEW n, NEW i \in 0..C PROVE Count(CallNodes', n, i) = Count(CallNodes, n, i)
  BY SMTT(30), <1>1, <1>3, CountBefore
<1>7. \A n : Count(CallNodes', n, C + 1) = IF node = n THEN Count(CallNodes, n, C) + 1
                                                     ELSE Count(CallNodes, n, C)
  BY <1>1, <1>3, CountAppended
<1>8. Count(CallNodes, node, C) = Count(timings, node, L)
  <2>1. CASE node \in Always
    BY <2>1 DEF Attributed
  <2>2. CASE node \in Sometimes
    <3>1. \A p \in 1..L : timings[p] # node
      BY <1>1, <2>2 DEF Prepared, Sometimes
    <3>2. \A i \in 1..C : CallNodes[i] # node
      <4> SUFFICES ASSUME NEW i \in 1..C, nodeCalls[i].node = node PROVE FALSE
        BY <1>2 DEF CallNodes
      <4> QED BY <3>1 DEF Attributed
    <3> QED BY <1>1, <1>2, <3>1, <3>2, CountAbsent
  <2> QED BY <1>1, <2>1, <2>2
<1>9. ASSUME NEW i \in 1..Len(nodeCalls')
      PROVE  LET p == madeBy[nodeCalls'[i].call]
             IN  /\ p \in 1..Len(timings')
                 /\ timings'[p] = nodeCalls'[i].node
                 /\ Count(CallNodes', nodeCalls'[i].node, i) = Count(timings', timings'[p], p)
  <2>1. CASE i \in 1..C
    <3> DEFINE p == madeBy[nodeCalls[i].call]
    <3>1. /\ p \in 1..L /\ timings[p] = nodeCalls[i].node
          /\ Count(CallNodes, nodeCalls[i].node, i) = Count(timings, timings[p], p)
      BY <2>1 DEF Attributed
    <3> HIDE DEF p
    <3>2. p \in 0..L /\ i \in 0..C
      BY <1>1, <1>2, <2>1, <3>1
    <3>3. Count(CallNodes', nodeCalls[i].node, i) = Count(timings', timings[p], p)
      BY <1>4, <1>6, <3>1, <3>2
    <3>4. p \in 1..Len(timings') /\ timings'[p] = timings[p]
      BY <1>1, <3>1
    <3>5. nodeCalls'[i] = nodeCalls[i]
      BY <1>2, <2>1
    <3> QED BY <3>1, <3>3, <3>4, <3>5 DEF p
  <2>2. CASE i = C + 1
    <3>1. nodeCalls'[i].call = M /\ nodeCalls'[i].node = node
      BY <1>0, <1>2, <2>2
    <3>2. madeBy[nodeCalls'[i].call] = L + 1
      BY <1>1, <3>1
    <3>3. Count(CallNodes', node, C + 1) = Count(timings', node, L + 1)
      BY <1>5, <1>7, <1>8
    <3> QED BY <1>1, <2>2, <3>1, <3>2, <3>3
  <2> QED BY <1>2, <2>1, <2>2
<1>10. ASSUME NEW n \in Always
       PROVE  Count(CallNodes', n, Len(nodeCalls')) = Count(timings', n, Len(timings'))
  <2>1. Count(CallNodes, n, C) = Count(timings, n, L)
    BY DEF Attributed
  <2> QED BY <1>1, <1>2, <1>5, <1>7, <2>1
<1>11. ASSUME NEW p \in 1..Len(timings'), timings'[p] \in Always
       PROVE  \E i \in 1..Len(nodeCalls') : madeBy[nodeCalls'[i].call] = p
  <2>1. CASE p \in 1..L
    <3>1. PICK i \in 1..C : madeBy[nodeCalls[i].call] = p
      BY <1>1, <1>11, <2>1 DEF Attributed
    <3>2. i \in 1..Len(nodeCalls') /\ nodeCalls'[i] = nodeCalls[i]
      BY <1>2
    <3> QED BY <3>1, <3>2
  <2>2. CASE p = L + 1
    <3>1. C + 1 \in 1..Len(nodeCalls')
      BY <1>2
    <3> QED BY <1>0, <1>1, <1>2, <2>2, <3>1
  <2> QED BY <1>1, <2>1, <2>2
<1>12. madeBy' = madeBy
  OBVIOUS
<1> HIDE DEF L, C, M, U
<1> QED BY <1>9, <1>10, <1>11, <1>12 DEF Attributed

-----------------------------------------------------------------------------
(* Every action keeps the invariant.                                       *)

LEMMA InitReport == Init => ReportInv
<1> SUFFICES ASSUME Init PROVE ReportInv
  OBVIOUS
<1>1. /\ setup \in Setup /\ timings = <<>> /\ node = "analyze_job" /\ attempt = 0 /\ calling = FALSE
      /\ nodeByRun = {} /\ nodeCalls = <<>> /\ byModel = <<>> /\ status = "running"
      /\ resumed = 0 /\ madeBy = <<>> /\ unusable = FALSE
      /\ Len(timings) = 0 /\ Len(nodeCalls) = 0 /\ Len(madeBy) = 0
  BY DEF Init
<1>2. DOMAIN byModel = {}
  BY <1>1
<1>3. TypeOK
  <2>1. /\ timings \in Seq(Node) /\ madeBy \in Seq(Nat \ {0})
        /\ nodeCalls \in Seq([node : Node, call : Nat, priced : BOOLEAN])
    BY <1>1
  <2>2. node \in Node
    BY <1>1 DEF Node
  <2>3. attempt \in 0..Attempts /\ resumed \in 0..MaxResumes
    BY <1>1, RunReportAssumption
  <2>4. nodeByRun \subseteq (Nat \X Node)
    BY <1>1
  <2>5. DOMAIN byModel \subseteq ModelId /\ \A m \in DOMAIN byModel : byModel[m] \in Nat
    BY <1>2
  <2>6. /\ calling \in BOOLEAN /\ unusable \in BOOLEAN
        /\ status \in {"running", "failed", "reported"} /\ setup \in Setup
    BY <1>1
  <2> QED BY <2>1, <2>2, <2>3, <2>4, <2>5, <2>6 DEF TypeOK
<1>4. UnderWay /\ Counted /\ Priced /\ Prepared
  BY <1>1, <1>2, RunReportAssumption DEF UnderWay, Counted, Priced, Prepared
<1>5. \A s, n : Count(s, n, Len(timings)) = 0 /\ Count(s, n, Len(nodeCalls)) = 0
  BY <1>1, CountNothing
<1>6. Alternating
  BY <1>1, <1>5 DEF Alternating, Written, Rewritten
<1>7. Attributed
  BY <1>1, <1>5 DEF Attributed
<1> QED BY <1>3, <1>4, <1>6, <1>7 DEF ReportInv

LEMMA StartKeeps == ReportInv /\ OnChatModelStart => ReportInv'
<1> SUFFICES ASSUME ReportInv, OnChatModelStart PROVE ReportInv'
  OBVIOUS
<1> USE DEF ReportInv
<1> DEFINE M == Len(madeBy)
<1>1. /\ status = "running" /\ node \in Always \cup Sometimes /\ ~calling
      /\ calling' = TRUE /\ attempt' = attempt + 1
      /\ madeBy' = Append(madeBy, Len(timings) + 1)
      /\ nodeByRun' = nodeByRun \cup {<<Len(madeBy'), node>>}
      /\ UNCHANGED <<setup, timings, node, nodeCalls, byModel, status, resumed, unusable>>
  BY DEF OnChatModelStart
<1>2. /\ M \in Nat /\ Len(timings) \in Nat /\ madeBy \in Seq(Nat \ {0})
      /\ node \in Node /\ attempt \in 0..Attempts /\ attempt < Attempts
      /\ Attempts \in Nat /\ nodeByRun \subseteq Nat \X Node
      /\ \A e \in nodeByRun : e[1] <= M
  BY <1>1, RunReportAssumption DEF TypeOK, UnderWay, Always, Sometimes, Node
<1>3. /\ madeBy' \in Seq(Nat \ {0}) /\ Len(madeBy') = M + 1
      /\ madeBy'[M + 1] = Len(timings) + 1
      /\ \A c \in 1..M : madeBy'[c] = madeBy[c]
  BY <1>1, <1>2
<1>4. TypeOK'
  <2>1. nodeByRun' \subseteq Nat \X Node
    BY <1>1, <1>2, <1>3
  <2>2. attempt' \in 0..Attempts
    BY <1>1, <1>2
  <2> QED BY <1>1, <1>3, <2>1, <2>2 DEF TypeOK
<1>5. UnderWay'
  <2>1. nodeByRun' = nodeByRun \cup {<<M + 1, node>>}
    BY <1>1, <1>3
  <2>2. ASSUME NEW e \in nodeByRun'
        PROVE  e[1] <= M + 1 /\ (e[1] = M + 1 => e = <<M + 1, node>>)
    <3>1. CASE e \in nodeByRun
      <4>1. e[1] <= M /\ e[1] \in Nat
        BY <1>2, <3>1
      <4> QED BY <1>2, <4>1
    <3>2. CASE e = <<M + 1, node>>
      BY <1>2, <3>2
    <3> QED BY <2>1, <3>1, <3>2
  <2> QED BY <1>1, <1>2, <1>3, <2>1, <2>2 DEF UnderWay
<1>6. Counted'
  <2>1. ASSUME NEW i \in 1..Len(nodeCalls)
        PROVE  nodeCalls[i].call \in 1..(M + 1) /\ nodeCalls[i].call # M + 1
    <3>1. nodeCalls[i].call \in 1..M
      BY DEF Counted
    <3> QED BY <1>2, <3>1
  <2> QED BY <1>1, <1>3, <2>1 DEF Counted
<1>7. Priced' /\ Prepared'
  BY <1>1 DEF Priced, Prepared
<1>8. Alternating'
  BY <1>1 DEF Alternating, Written, Rewritten
<1>9. Attributed'
  <2>1. ASSUME NEW i \in 1..Len(nodeCalls)
        PROVE  madeBy'[nodeCalls[i].call] = madeBy[nodeCalls[i].call]
    <3>1. nodeCalls[i].call \in 1..M
      BY DEF Counted
    <3> QED BY <1>3, <3>1
  <2>2. CallNodes' = CallNodes
    BY <1>1 DEF CallNodes
  <2>3. \A i \in 1..Len(nodeCalls) : madeBy'[nodeCalls[i].call] = madeBy[nodeCalls[i].call]
    BY <2>1
  <2>4. /\ nodeCalls' = nodeCalls /\ timings' = timings /\ resumed' = resumed
        /\ unusable' = unusable
    BY <1>1
  <2>5. Attributed
    OBVIOUS
  <2> QED BY ZenonT(60), <2>2, <2>3, <2>4, <2>5 DEF Attributed
<1> QED BY <1>4, <1>5, <1>6, <1>7, <1>8, <1>9

LEMMA AnsweredKeeps == ReportInv /\ Answered => ReportInv'
<1> SUFFICES ASSUME ReportInv, Answered PROVE ReportInv'
  OBVIOUS
<1>0. TypeOK /\ UnderWay /\ Counted /\ Priced /\ Prepared /\ Alternating /\ Attributed
  BY DEF ReportInv
<1>1. /\ calling /\ calling' = FALSE /\ OnLlmEnd /\ Complete
      /\ UNCHANGED <<setup, status, resumed, madeBy, unusable>>
  BY DEF Answered
<1>2. node \in Node
  BY <1>0, <1>1, ModelFacts DEF UnderWay
<1> DEFINE U == [node : Node, call : Nat, priced : BOOLEAN]
<1>3. /\ timings' \in Seq(Node) /\ node' \in Node \cup {"end"} /\ attempt' = 0
      /\ Prepared' /\ Alternating'
  BY <1>0, <1>1, <1>2, CompleteKeeps
<1>4. /\ nodeByRun' \subseteq nodeByRun
      /\ \E u \in U : nodeCalls' = Append(nodeCalls, u)
      /\ DOMAIN byModel' \subseteq ModelId
      /\ \A m \in DOMAIN byModel' : byModel'[m] \in Nat
      /\ Counted' /\ Priced'
  BY <1>0, <1>1, AnswerCounted
<1>5. nodeCalls' \in Seq(U)
  <2>1. nodeCalls \in Seq(U)
    BY <1>0 DEF TypeOK
  <2> HIDE DEF U
  <2> QED BY <1>4, <2>1
<1>6. TypeOK'
  <2>1. attempt' \in 0..Attempts
    BY <1>3, RunReportAssumption
  <2>2. nodeByRun' \subseteq Nat \X Node
    BY <1>0, <1>4 DEF TypeOK
  <2> QED BY <1>0, <1>1, <1>3, <1>4, <1>5, <2>1, <2>2 DEF TypeOK
<1>7. UnderWay'
  <2>1. status = "running" /\ status' = "running"
    BY <1>0, <1>1 DEF UnderWay
  <2> QED BY <1>0, <1>1, <1>3, <1>4, <2>1, RunReportAssumption DEF UnderWay
<1>8. Attributed'
  BY <1>0, <1>1, AnswerAttributed
<1> QED BY <1>3, <1>4, <1>6, <1>7, <1>8 DEF ReportInv

\* What with_structured_retry leaves alone.
LEMMA RetryKeeps ==
    ASSUME ReportInv, calling, Retry
    PROVE  /\ ~calling' /\ status' \in {"running", "failed"}
           /\ status' = "running" => attempt < Attempts
           /\ Prepared' /\ Alternating'
<1>1. /\ calling' = FALSE
      /\ status' = IF attempt = Attempts THEN "failed" ELSE "running"
      /\ UNCHANGED <<timings, node>>
  BY DEF Retry
<1>2. attempt \in 0..Attempts /\ Attempts \in Nat
  BY RunReportAssumption DEF ReportInv, TypeOK
<1>3. Prepared' /\ Alternating'
  BY <1>1 DEF ReportInv, Prepared, Alternating, Written, Rewritten
<1> QED BY <1>1, <1>2, <1>3

LEMMA UnparsableKeeps == ReportInv /\ Unparsable => ReportInv'
<1> SUFFICES ASSUME ReportInv, Unparsable PROVE ReportInv'
  OBVIOUS
<1>0. TypeOK /\ UnderWay /\ Counted /\ Priced /\ Prepared /\ Alternating /\ Attributed
  BY DEF ReportInv
<1>1. /\ calling /\ OnLlmEnd /\ unusable' = TRUE /\ Retry
      /\ UNCHANGED <<setup, timings, node, attempt, resumed, madeBy>>
  BY DEF Unparsable, Retry
<1> DEFINE U == [node : Node, call : Nat, priced : BOOLEAN]
<1>3. /\ ~calling' /\ status' \in {"running", "failed"}
      /\ status' = "running" => attempt < Attempts
      /\ Prepared' /\ Alternating'
  BY <1>1, RetryKeeps
<1>4. /\ nodeByRun' \subseteq nodeByRun
      /\ \E u \in U : nodeCalls' = Append(nodeCalls, u)
      /\ DOMAIN byModel' \subseteq ModelId
      /\ \A m \in DOMAIN byModel' : byModel'[m] \in Nat
      /\ Counted' /\ Priced'
  BY <1>0, <1>1, <1>3, AnswerCounted
<1>5. nodeCalls' \in Seq(U)
  <2>1. nodeCalls \in Seq(U)
    BY <1>0 DEF TypeOK
  <2> HIDE DEF U
  <2> QED BY <1>4, <2>1
<1>9. calling' = FALSE
  BY <1>1 DEF Retry
<1>6. TypeOK'
  BY <1>0, <1>1, <1>3, <1>4, <1>5, <1>9 DEF TypeOK
<1>7. UnderWay'
  BY <1>0, <1>1, <1>3, <1>4, <1>9 DEF UnderWay
<1>8. Attributed'
  BY <1>1 DEF Attributed
<1> QED BY <1>3, <1>4, <1>6, <1>7, <1>8 DEF ReportInv

LEMMA NoAnswerKeeps == ReportInv /\ NoAnswer => ReportInv'
<1> SUFFICES ASSUME ReportInv, NoAnswer PROVE ReportInv'
  OBVIOUS
<1>0. TypeOK /\ UnderWay /\ Counted /\ Priced /\ Attributed
  BY DEF ReportInv
<1>1. /\ calling /\ calling' = FALSE /\ Retry
      /\ UNCHANGED <<nodeByRun, nodeCalls, byModel>> /\ unusable' = unusable
      /\ UNCHANGED <<setup, timings, node, attempt, resumed, madeBy>>
  BY DEF NoAnswer, Retry, tracker
<1>3. /\ status' \in {"running", "failed"}
      /\ status' = "running" => attempt < Attempts
      /\ Prepared' /\ Alternating'
  BY <1>1, RetryKeeps
<1>4. TypeOK'
  BY <1>0, <1>1, <1>3 DEF TypeOK
<1>5. UnderWay'
  BY <1>0, <1>1, <1>3 DEF UnderWay
<1>6. Counted' /\ Priced'
  BY <1>0, <1>1 DEF Counted, Priced
<1>7. Attributed'
  <2>1. CallNodes' = CallNodes
    BY <1>1 DEF CallNodes
  <2> QED BY <1>0, <1>1, <2>1 DEF Attributed
<1> QED BY <1>3, <1>4, <1>5, <1>6, <1>7 DEF ReportInv

LEMMA RunNodeKeeps == ReportInv /\ RunNode => ReportInv'
<1> SUFFICES ASSUME ReportInv, RunNode PROVE ReportInv'
  OBVIOUS
<1>0. TypeOK /\ UnderWay /\ Counted /\ Priced /\ Prepared /\ Alternating /\ Attributed
  BY DEF ReportInv
<1>1. /\ status = "running" /\ node \in Node \ Always /\ attempt = 0 /\ Complete
      /\ UNCHANGED <<nodeByRun, nodeCalls, byModel>>
      /\ UNCHANGED <<setup, calling, status, resumed, madeBy, unusable>>
  BY DEF RunNode, tracker
<1>2. /\ timings' \in Seq(Node) /\ node' \in Node \cup {"end"} /\ attempt' = 0
      /\ Prepared' /\ Alternating'
  BY <1>0, <1>1, CompleteKeeps
<1>3. TypeOK'
  BY <1>0, <1>1, <1>2, RunReportAssumption DEF TypeOK
<1>4. ~calling
  BY <1>0, <1>1 DEF UnderWay
<1>5. UnderWay'
  BY <1>0, <1>1, <1>2, <1>4, RunReportAssumption DEF UnderWay
<1>6. Counted' /\ Priced'
  BY <1>0, <1>1 DEF Counted, Priced
<1>7. Attributed'
  BY <1>0, <1>1, SilentAttributed
<1> QED BY <1>2, <1>3, <1>5, <1>6, <1>7 DEF ReportInv

\* finalize and a step that changes nothing.
LEMMA ReportedKeeps ==
    ASSUME ReportInv, Finalize \/ UNCHANGED vars
    PROVE  ReportInv'
<1>0. TypeOK /\ UnderWay /\ Counted /\ Priced /\ Prepared /\ Alternating /\ Attributed
  BY DEF ReportInv
<1>1. /\ UNCHANGED <<nodeByRun, nodeCalls, byModel>>
      /\ UNCHANGED <<setup, timings, node, attempt, calling, resumed, madeBy, unusable>>
      /\ status' = status \/ (node = "end" /\ status = "running" /\ status' = "reported")
  BY DEF Finalize, vars, tracker
<1>2. TypeOK'
  BY <1>0, <1>1 DEF TypeOK
<1>3. UnderWay'
  BY <1>0, <1>1 DEF UnderWay, Always, Sometimes
<1>4. Counted' /\ Priced' /\ Prepared'
  BY <1>0, <1>1 DEF Counted, Priced, Prepared
<1>5. Alternating'
  BY <1>0, <1>1 DEF Alternating, Written, Rewritten
<1>6. Attributed'
  <2>1. CallNodes' = CallNodes
    BY <1>1 DEF CallNodes
  <2> QED BY <1>0, <1>1, <2>1 DEF Attributed
<1> QED BY <1>2, <1>3, <1>4, <1>5, <1>6 DEF ReportInv

LEMMA ResumeKeeps == ReportInv /\ Resume => ReportInv'
<1> SUFFICES ASSUME ReportInv, Resume PROVE ReportInv'
  OBVIOUS
<1>0. TypeOK /\ UnderWay /\ Prepared /\ Alternating
  BY DEF ReportInv
<1>1. /\ status = "failed" /\ resumed < MaxResumes /\ status' = "running" /\ attempt' = 0
      /\ nodeByRun' = {} /\ nodeCalls' = <<>> /\ byModel' = <<>> /\ resumed' = resumed + 1
      /\ UNCHANGED <<setup, timings, node, calling, madeBy, unusable>>
  BY DEF Resume
<1>2. /\ ~calling /\ resumed \in 0..MaxResumes /\ MaxResumes \in Nat /\ Attempts \in Nat \ {0}
      /\ Len(nodeCalls') = 0 /\ DOMAIN byModel' = {}
  BY <1>0, <1>1, RunReportAssumption DEF UnderWay, TypeOK
<1>3. TypeOK'
  BY <1>0, <1>1, <1>2 DEF TypeOK
<1>4. UnderWay'
  BY <1>0, <1>1, <1>2 DEF UnderWay
<1>5. Counted' /\ Priced' /\ Prepared'
  BY <1>0, <1>1, <1>2 DEF Counted, Priced, Prepared
<1>6. Alternating'
  BY <1>0, <1>1 DEF Alternating, Written, Rewritten
<1>7. Attributed'
  BY <1>1, <1>2 DEF Attributed
<1> QED BY <1>3, <1>4, <1>5, <1>6, <1>7 DEF ReportInv

\* The invariant holds in every reachable state.
THEOREM ReportHolds == Spec => []ReportInv
<1>1. Init => ReportInv
  BY InitReport
<1>2. ReportInv /\ [Next]_vars => ReportInv'
  BY StartKeeps, AnsweredKeeps, UnparsableKeeps, NoAnswerKeeps, RunNodeKeeps, ReportedKeeps,
     ResumeKeeps DEF Next
<1> QED BY <1>1, <1>2, PTL DEF Spec

-----------------------------------------------------------------------------
(* The steps of metrics.json.                                              *)

\* The steps, by the counts of the invariant.
LEMMA StepIteration ==
    ASSUME TypeOK, NEW p \in 1..Len(timings)
    PROVE  Steps[p].iteration = Rewritten(p - 1)
<1> DEFINE s == SubSeq(timings, 1, p - 1)
<1>1. timings \in Seq(Node) /\ Len(timings) \in Nat /\ p \in Nat /\ p - 1 \in 0..Len(timings)
  BY DEF TypeOK
<1>2. Len(s) = p - 1 /\ \A q \in 1..(p - 1) : s[q] = timings[q]
  BY <1>1
<1> HIDE DEF s
<1>3. Rewrites(s) = Count(s, "prepare_rewrite", p - 1)
  BY <1>2 DEF Rewrites, Count, Occurs
<1>4. Count(s, "prepare_rewrite", p - 1) = Count(timings, "prepare_rewrite", p - 1)
  <2>1. p - 1 \in Nat
    BY <1>1
  <2> QED BY <1>2, <2>1, CountSame
<1>5. Steps[p].iteration = Rewrites(s)
  BY DEF Steps, Step, s
<1> QED BY <1>3, <1>4, <1>5 DEF Rewritten

\* The positions in _node_calls of what a step may pop.
Popped(p) == {i \in Queue(timings[p]) : Place(i) = Nth(p)}

LEMMA StepCall ==
    ASSUME ReportInv, NEW p \in 1..Len(timings)
    PROVE  /\ Popped(p) = {} => Steps[p].call = 0
           /\ Popped(p) # {} => \E i \in Popped(p) : Steps[p].call = nodeCalls[i].call
           /\ \A i \in Popped(p) : i \in 1..Len(nodeCalls) /\ nodeCalls[i].call # 0
<1>1. Steps[p].call = IF Popped(p) = {} THEN 0
                      ELSE nodeCalls[CHOOSE i \in Popped(p) : TRUE].call
  BY DEF Steps, Step, Popped
<1>2. DOMAIN nodeCalls = 1..Len(nodeCalls)
  BY DEF ReportInv, TypeOK
<1>3. \A i \in Popped(p) : i \in 1..Len(nodeCalls)
  BY <1>2 DEF Popped, Queue
<1>4. \A i \in 1..Len(nodeCalls) : nodeCalls[i].call # 0
  <2> SUFFICES ASSUME NEW i \in 1..Len(nodeCalls) PROVE nodeCalls[i].call # 0
    OBVIOUS
  <2>1. nodeCalls[i].call \in 1..Len(madeBy)
    BY DEF ReportInv, Counted
  <2> QED BY <2>1
<1>5. Popped(p) # {} => (CHOOSE i \in Popped(p) : TRUE) \in Popped(p)
  OBVIOUS
<1> QED BY <1>1, <1>3, <1>4, <1>5

LEMMA PlaceIsCount ==
    ASSUME NEW i \in 1..Len(nodeCalls), Len(nodeCalls) \in Nat
    PROVE  Place(i) = Count(CallNodes, nodeCalls[i].node, i)
<1>1. \A j \in 1..i : CallNodes[j] = nodeCalls[j].node
  BY DEF CallNodes
<1>2. {j \in 1..i : nodeCalls[j].node = nodeCalls[i].node} = Occurs(CallNodes, nodeCalls[i].node, i)
  BY <1>1 DEF Occurs
<1> QED BY <1>2 DEF Place, Count

\* Where nothing was resumed and every answer parsed, a step pops the calls of its
\* own execution.
LEMMA PoppedIsOwn ==
    ASSUME ReportInv, resumed = 0, ~unusable, NEW p \in 1..Len(timings)
    PROVE  Popped(p) = {i \in 1..Len(nodeCalls) : madeBy[nodeCalls[i].call] = p}
<1>1. /\ Len(timings) \in Nat /\ p \in Nat /\ Len(nodeCalls) \in Nat
      /\ DOMAIN nodeCalls = 1..Len(nodeCalls)
  BY DEF ReportInv, TypeOK
<1>2. Nth(p) = Count(timings, timings[p], p)
  BY DEF Nth, Count, Occurs
<1>3. ASSUME NEW i \in 1..Len(nodeCalls)
      PROVE  (nodeCalls[i].node = timings[p] /\ Place(i) = Nth(p)) <=>
                 madeBy[nodeCalls[i].call] = p
  <2> DEFINE q == madeBy[nodeCalls[i].call]
  <2>1. /\ q \in 1..Len(timings) /\ timings[q] = nodeCalls[i].node
        /\ Place(i) = Count(timings, timings[q], q)
    BY <1>1, PlaceIsCount DEF ReportInv, Attributed
  <2> HIDE DEF q
  <2>2. CASE q = p
    BY <1>2, <2>1, <2>2 DEF q
  <2>3. ASSUME nodeCalls[i].node = timings[p], Place(i) = Nth(p) PROVE q = p
    <3>1. q \in Nat
      BY <1>1, <2>1
    <3>2. timings[q] = timings[p] /\ Count(timings, timings[p], q) = Count(timings, timings[p], p)
      BY <1>2, <2>1, <2>3
    <3> QED BY <1>1, <3>1, <3>2, CountPlaces
  <2> QED BY <2>2, <2>3 DEF q
<1> QED BY <1>1, <1>3 DEF Popped, Queue

\* So a step shows the call of its execution, if it has one.
LEMMA StepShows ==
    ASSUME ReportInv, resumed = 0, ~unusable, NEW p \in 1..Len(timings)
    PROVE  /\ Steps[p].call # 0 => madeBy[Steps[p].call] = p
           /\ \A i \in 1..Len(nodeCalls) :
                 madeBy[nodeCalls[i].call] = p => Steps[p].call # 0
           /\ \A i \in 1..Len(nodeCalls) :
                 madeBy[nodeCalls[i].call] = p => Steps[p].call = nodeCalls[i].call
<1>1. Steps[p].call # 0 =>
        \E i \in 1..Len(nodeCalls) : Steps[p].call = nodeCalls[i].call
                                     /\ madeBy[nodeCalls[i].call] = p
  BY StepCall, PoppedIsOwn
<1>2. ASSUME NEW i \in 1..Len(nodeCalls), madeBy[nodeCalls[i].call] = p
      PROVE  Steps[p].call # 0 /\ Steps[p].call = nodeCalls[i].call
  <2>1. i \in Popped(p)
    BY <1>2, PoppedIsOwn
  <2>2. PICK j \in Popped(p) : Steps[p].call = nodeCalls[j].call
    BY <2>1, StepCall
  <2>3. /\ j \in 1..Len(nodeCalls) /\ nodeCalls[j].call # 0
        /\ madeBy[nodeCalls[j].call] = p
    BY <2>2, StepCall, PoppedIsOwn
  <2>4. /\ nodeCalls[i].node = timings[p] /\ Place(i) = Nth(p)
        /\ nodeCalls[j].node = timings[p] /\ Place(j) = Nth(p)
    BY <2>1, <2>2 DEF Popped, Queue
  <2>5. Len(nodeCalls) \in Nat
    BY DEF ReportInv, TypeOK
  <2>6. Count(CallNodes, timings[p], i) = Count(CallNodes, timings[p], j)
    BY <2>3, <2>4, <2>5, PlaceIsCount
  <2>7. CallNodes[i] = timings[p] /\ CallNodes[j] = timings[p] /\ i \in Nat /\ j \in Nat
    BY <2>3, <2>4, <2>5 DEF CallNodes
  <2>8. i = j
    BY <2>6, <2>7, CountPlaces
  <2> QED BY <2>2, <2>3, <2>8
<1> QED BY <1>1, <1>2

-----------------------------------------------------------------------------
(* The totals.                                                             *)

\* The models' counts add up to the calls listed by node: on_llm_end adds one to
\* both, and a resume empties both.
Totalled == IsFiniteSet(DOMAIN byModel) /\ Total(byModel) = Len(nodeCalls)

LEMMA InitTotalled == Init => Totalled
<1> SUFFICES ASSUME Init PROVE Totalled
  OBVIOUS
<1>1. byModel = <<>> /\ DOMAIN byModel = {} /\ Len(nodeCalls) = 0
  BY DEF Init
<1>2. IsFiniteSet(DOMAIN byModel)
  BY <1>1, FS_EmptySet
<1>3. Total(byModel) = 0
  BY <1>1, SumNothing
<1> QED BY <1>1, <1>2, <1>3 DEF Totalled

LEMMA AnswerTotalled ==
    ASSUME ReportInv, Totalled, Answered \/ Unparsable
    PROVE  Totalled'
<1> DEFINE model == setup.model[Role(node)]
<1>1. /\ TypeOK /\ UnderWay /\ Counted /\ Priced
      /\ calling /\ calling' = FALSE /\ OnLlmEnd /\ UNCHANGED <<setup, madeBy>>
  BY DEF ReportInv, Answered, Unparsable, Retry
<1>2. nodeCalls' = Append(nodeCalls, Usage(model))
  BY <1>1, AnswerCounted
<1>3. nodeCalls \in Seq([node : Node, call : Nat, priced : BOOLEAN])
  BY <1>1 DEF TypeOK
<1>4. Len(nodeCalls') = Len(nodeCalls) + 1
  BY <1>2, <1>3
<1>5. byModel' = [m \in DOMAIN byModel \cup {model} |->
                    IF m = model
                    THEN (IF model \in DOMAIN byModel THEN byModel[model] ELSE 0) + 1
                    ELSE byModel[m]]
  BY <1>1 DEF OnLlmEnd
<1> HIDE DEF model
<1>6. /\ IsFiniteSet(DOMAIN byModel) /\ \A m \in DOMAIN byModel : byModel[m] \in Nat
      /\ DOMAIN byModel' = DOMAIN byModel \cup {model}
      /\ \A m \in DOMAIN byModel \ {model} : byModel'[m] = byModel[m]
      /\ byModel'[model] = (IF model \in DOMAIN byModel THEN byModel[model] ELSE 0) + 1
  BY <1>1, <1>5 DEF Totalled, TypeOK
<1>7. PICK f : f = byModel
  OBVIOUS
<1>8. PICK e : e = byModel'
  OBVIOUS
<1>9. /\ IsFiniteSet(DOMAIN e)
      /\ Total(e) = Total(f) + 1
  BY <1>6, <1>7, <1>8, SumOneMore
<1> QED BY <1>4, <1>7, <1>8, <1>9 DEF Totalled

LEMMA TotalledKept == ReportInv /\ Totalled /\ [Next]_vars => Totalled'
<1> SUFFICES ASSUME ReportInv, Totalled, [Next]_vars PROVE Totalled'
  OBVIOUS
<1>1. CASE Answered \/ Unparsable
  BY <1>1, AnswerTotalled
<1>2. CASE OnChatModelStart \/ NoAnswer \/ RunNode \/ Finalize \/ UNCHANGED vars
  <2>1. byModel' = byModel /\ nodeCalls' = nodeCalls
    BY <1>2 DEF OnChatModelStart, NoAnswer, RunNode, Finalize, vars, tracker
  <2> QED BY <2>1 DEF Totalled
<1>3. CASE Resume
  <2>1. byModel' = <<>> /\ DOMAIN byModel' = {} /\ Len(nodeCalls') = 0
    BY <1>3 DEF Resume
  <2>2. IsFiniteSet(DOMAIN byModel')
    BY <2>1, FS_EmptySet
  <2>3. Total(byModel') = 0
    BY <2>1, SumNothing
  <2> QED BY <2>1, <2>2, <2>3 DEF Totalled
<1> QED BY <1>1, <1>2, <1>3 DEF Next

\* A plain report shows as many calls as it lists: the step of a call is the
\* position that madeBy gives, and no two calls share it.
LEMMA ShownAreListed ==
    ASSUME ReportInv, resumed = 0, ~unusable
    PROVE  Cardinality({p \in 1..Len(timings) : Steps[p].call # 0}) = Len(nodeCalls)
<1> DEFINE shown == {p \in 1..Len(timings) : Steps[p].call # 0}
           at == [i \in 1..Len(nodeCalls) |-> madeBy[nodeCalls[i].call]]
<1>1. Len(nodeCalls) \in Nat
  BY DEF ReportInv, TypeOK
<1>2. ASSUME NEW i \in 1..Len(nodeCalls)
      PROVE  at[i] \in shown /\ Steps[at[i]].call = nodeCalls[i].call
  <2>1. madeBy[nodeCalls[i].call] \in 1..Len(timings)
    BY DEF ReportInv, Attributed
  <2> QED BY <2>1, StepShows
<1>3. ASSUME NEW i \in 1..Len(nodeCalls), NEW j \in 1..Len(nodeCalls), at[i] = at[j]
      PROVE  i = j
  <2>1. nodeCalls[i].call = nodeCalls[j].call
    BY <1>2, <1>3
  <2> QED BY <2>1 DEF ReportInv, Counted
<1>4. ASSUME NEW p \in shown PROVE \E i \in 1..Len(nodeCalls) : at[i] = p
  <2>1. p \in 1..Len(timings) /\ Popped(p) # {}
    BY <1>4, StepCall
  <2> QED BY <2>1, PoppedIsOwn
<1>5. at \in Bijection(1..Len(nodeCalls), shown)
  <2>1. at \in [1..Len(nodeCalls) -> shown]
    BY <1>2
  <2> HIDE DEF at, shown
  <2> QED BY <1>3, <1>4, <2>1 DEF Bijection, Injection, Surjection, IsInjective
<1>6. ExistsBijection(1..Len(nodeCalls), shown)
  BY <1>5 DEF ExistsBijection
<1>7. IsFiniteSet(1..Len(nodeCalls)) /\ Cardinality(1..Len(nodeCalls)) = Len(nodeCalls)
  <2>1. PICK n \in Nat : n = Len(nodeCalls)
    BY <1>1
  <2>2. IsFiniteSet(1..n) /\ Cardinality(1..n) = n
    BY FS_Interval
  <2> QED BY <2>1, <2>2
<1> HIDE DEF at, shown
<1>8. Cardinality(shown) = Len(nodeCalls)
  BY <1>6, <1>7, FS_Bijection
<1> QED BY <1>8 DEF shown

-----------------------------------------------------------------------------
(* The theorems.                                                           *)

\* TypeOK of RunReport: the tracker's lists hold what their readers expect, and no
\* execution makes more calls than with_structured_retry allows.
THEOREM TypeCorrect == Spec => []TypeOK
<1>1. ReportInv => TypeOK
  BY DEF ReportInv
<1> QED BY <1>1, ReportHolds, PTL

\* IterationOfDraft: counting prepare_rewrite in the timings gives every step of the
\* loop the iteration of its draft, whatever failed and was resumed.
THEOREM IterationsRight == Spec => []IterationOfDraft
<1>1. ReportInv => IterationOfDraft
  <2> SUFFICES ASSUME ReportInv, NEW p \in 1..Len(timings), timings[p] \in Loop
               PROVE  Steps[p].iteration + 1 =
                         Cardinality({q \in 1..p : timings[q] = "write_resume"})
    BY DEF IterationOfDraft, Loop
  <2>1. Written(p) = Rewritten(p - 1) + 1
    BY DEF ReportInv, Alternating
  <2>2. Steps[p].iteration = Rewritten(p - 1)
    BY StepIteration DEF ReportInv
  <2> QED BY <2>1, <2>2 DEF Written, Count, Occurs
<1> QED BY <1>1, ReportHolds, PTL

\* StepsAttributed: the steps of a plain report show the calls of their own
\* executions, and a node that cannot do without a model shows one.
THEOREM CallsAttributed == Spec => []StepsAttributed
<1>1. ReportInv => StepsAttributed
  <2> SUFFICES ASSUME ReportInv, resumed = 0, ~unusable, NEW p \in 1..Len(timings)
               PROVE  IF Steps[p].call = 0 THEN timings[p] \notin Always
                                           ELSE madeBy[Steps[p].call] = p
    BY DEF StepsAttributed, Plain
  <2>1. timings[p] \in Always => \E i \in 1..Len(nodeCalls) : madeBy[nodeCalls[i].call] = p
    BY DEF ReportInv, Attributed
  <2> QED BY <2>1, StepShows
<1> QED BY <1>1, ReportHolds, PTL

\* The half of StepsAddUp that needs no sum: a plain report shows every call it
\* counted, with one step and no more.
ShownOnce ==
    Plain =>
        \A i \in 1..Len(nodeCalls) :
            \E p \in 1..Len(timings) :
                /\ Steps[p].call = nodeCalls[i].call
                /\ \A q \in 1..Len(timings) : Steps[q].call = nodeCalls[i].call => q = p

THEOREM CallsShownOnce == Spec => []ShownOnce
<1>1. ReportInv => ShownOnce
  <2> SUFFICES ASSUME ReportInv, resumed = 0, ~unusable, NEW i \in 1..Len(nodeCalls)
               PROVE  \E p \in 1..Len(timings) :
                         /\ Steps[p].call = nodeCalls[i].call
                         /\ \A q \in 1..Len(timings) : Steps[q].call = nodeCalls[i].call => q = p
    BY DEF ShownOnce, Plain
  <2> DEFINE p == madeBy[nodeCalls[i].call]
  <2>1. p \in 1..Len(timings)
    BY DEF ReportInv, Attributed
  <2>2. Steps[p].call = nodeCalls[i].call /\ nodeCalls[i].call # 0
    BY <2>1, StepShows
  <2>3. ASSUME NEW q \in 1..Len(timings), Steps[q].call = nodeCalls[i].call PROVE q = p
    BY <2>2, <2>3, StepShows
  <2> QED BY <2>1, <2>2, <2>3
<1> QED BY <1>1, ReportHolds, PTL

\* StepsAddUp: a plain report's steps show as many calls as its totals count, and
\* none twice.
THEOREM StepsTotalled == Spec => []StepsAddUp
<1>1. ReportInv /\ Totalled => StepsAddUp
  <2> SUFFICES ASSUME ReportInv, Totalled, resumed = 0, ~unusable
               PROVE  /\ Cardinality({p \in 1..Len(timings) : Steps[p].call # 0}) = LlmCalls
                      /\ \A p, q \in 1..Len(timings) :
                            p # q /\ Steps[p].call # 0 => Steps[p].call # Steps[q].call
    BY DEF StepsAddUp, Plain
  <2>1. Cardinality({p \in 1..Len(timings) : Steps[p].call # 0}) = LlmCalls
    <3>1. LlmCalls = Total(byModel)
      BY Zenon DEF LlmCalls, Total
    <3> QED BY <3>1, ShownAreListed DEF Totalled
  <2>2. ASSUME NEW p \in 1..Len(timings), NEW q \in 1..Len(timings),
               Steps[p].call # 0, Steps[p].call = Steps[q].call
        PROVE  p = q
    BY <2>2, StepShows
  <2> QED BY <2>1, <2>2
<1>2. Init => ReportInv /\ Totalled
  BY InitReport, InitTotalled
<1>3. Totalled /\ ReportInv /\ [Next]_vars => Totalled'
  BY TotalledKept
<1> QED BY <1>1, <1>2, <1>3, ReportHolds, PTL DEF Spec

\* CostExplained: no report puts a total next to a step without a price, and a plain
\* report without a total has a step that explains it.
THEOREM CostsExplained == Spec => []CostExplained
<1>1. ReportInv => CostExplained
  <2> SUFFICES ASSUME ReportInv
               PROVE  LET shown == {p \in DOMAIN Steps : Steps[p].call # 0}
                      IN  /\ TotalKnown => \A p \in shown : StepPriced(p)
                          /\ Plain /\ ~TotalKnown =>
                                shown = {} \/ \E p \in shown : ~StepPriced(p)
    BY DEF CostExplained
  <2> DEFINE shown == {p \in DOMAIN Steps : Steps[p].call # 0}
  <2>1. DOMAIN nodeCalls = 1..Len(nodeCalls) /\ DOMAIN Steps = 1..Len(timings)
    BY DEF ReportInv, TypeOK, Steps
  <2>2. ASSUME NEW p \in shown
        PROVE  \E i \in 1..Len(nodeCalls) : Steps[p].call = nodeCalls[i].call
    BY <2>1, StepCall
  <2>3. ASSUME TotalKnown, NEW p \in shown PROVE StepPriced(p)
    <3>1. PICK i \in 1..Len(nodeCalls) : Steps[p].call = nodeCalls[i].call
      BY <2>2
    <3>2. nodeCalls[i].priced
      BY <2>3 DEF TotalKnown, CostKnown, ReportInv, Priced
    <3> QED BY <2>1, <3>1, <3>2 DEF StepPriced
  <2>4. ASSUME Plain, ~TotalKnown PROVE shown = {} \/ \E p \in shown : ~StepPriced(p)
    <3>1. CASE DOMAIN byModel = {}
      <4>1. ~ \E i \in 1..Len(nodeCalls) : TRUE
        BY <3>1 DEF ReportInv, Priced
      <4> QED BY <2>2, <4>1
    <3>2. CASE DOMAIN byModel # {}
      <4>1. PICK m \in DOMAIN byModel : PriceFor(m, setup.pricing) = None
        BY <2>4, <3>2 DEF TotalKnown, CostKnown
      <4>2. PICK i \in 1..Len(nodeCalls) : ~nodeCalls[i].priced
        BY <4>1 DEF ReportInv, Priced
      <4> DEFINE p == madeBy[nodeCalls[i].call]
      <4>3. p \in 1..Len(timings) /\ resumed = 0 /\ ~unusable
        BY <2>4 DEF Plain, ReportInv, Attributed
      <4>4. Steps[p].call = nodeCalls[i].call /\ Steps[p].call # 0
        BY <4>3, StepShows
      <4>5. \A j \in 1..Len(nodeCalls) : nodeCalls[j].call = nodeCalls[i].call => j = i
        BY DEF ReportInv, Counted
      <4>6. p \in shown /\ ~StepPriced(p)
        BY <2>1, <4>2, <4>3, <4>4, <4>5 DEF StepPriced
      <4> QED BY <4>6
    <3> QED BY <3>1, <3>2
  <2> QED BY <2>3, <2>4
<1> QED BY <1>1, ReportHolds, PTL

-----------------------------------------------------------------------------
(* The rows of the pricing file.                                           *)

\* What a row that is found in a model's id is to the name of its generation.
Beginning(row, own) ==
    /\ Len(row) <= Len(own)
    /\ \A k \in 1..Len(row) : row[k] = own[k]

\* str.find answers an occurrence.
LEMMA FoundThere ==
    ASSUME NEW m \in Seq(STRING), NEW key \in Seq(STRING), Occurrences(m, key) # {}
    PROVE  /\ FindAt(m, key) \in 1..(1 + Len(m) - Len(key))
           /\ \A k \in 1..Len(key) : m[FindAt(m, key) + k - 1] = key[k]
<1> DEFINE S == Occurrences(m, key)
<1>1. S \in SUBSET Nat
  BY DEF Occurrences
<1>2. PICK at \in S : \A other \in S : at <= other
  BY <1>1, LeastNumber
<1>3. FindAt(m, key) \in S
  BY <1>2 DEF FindAt
<1>4. PICK f : f = FindAt(m, key)
  OBVIOUS
<1>5. f \in 1..(1 + Len(m) - Len(key)) /\ SubSeq(m, f, f + Len(key) - 1) = key
  BY <1>3, <1>4 DEF Occurrences
<1>6. \A k \in 1..Len(key) : SubSeq(m, f, f + Len(key) - 1)[k] = m[f + k - 1]
  BY <1>5
<1> QED BY <1>4, <1>5, <1>6

\* Where NamesTell holds, a row that is found in an id begins the name; and it is
\* refused as the row of an earlier version if a number follows it in the name.
LEMMA RowsBegin ==
    ASSUME NamesTell, NEW m \in ModelId, NEW row \in Row, Occurrences(m, row) # {}
    PROVE  /\ row \in Seq(STRING) \ {<<>>}
           /\ Generation[m] \in Seq(STRING) \ {<<>>}
           /\ Beginning(row, Generation[m])
           /\ NumberFollows(Generation[m], Len(row)) /\ row[Len(row)] \in Digit
                => IsVersionExtension(m, row, FindAt(m, row))
<1> DEFINE own == Generation[m]
<1>1. /\ m \in Seq(STRING) /\ row \in Seq(STRING) \ {<<>>} /\ own \in Seq(STRING) \ {<<>>}
      /\ Occurrences(m, own) # {}
      /\ FindAt(m, row) = FindAt(m, own)
      /\ Len(row) <= Len(own)
  BY DEF NamesTell
<1> HIDE DEF own
<1>2. PICK f : f = FindAt(m, own)
  OBVIOUS
<1>3. /\ f \in 1..(1 + Len(m) - Len(own))
      /\ \A k \in 1..Len(own) : m[f + k - 1] = own[k]
  BY <1>1, <1>2, FoundThere
<1>4. \A k \in 1..Len(row) : m[f + k - 1] = row[k]
  <2>1. PICK w : w = FindAt(m, row)
    OBVIOUS
  <2>2. \A k \in 1..Len(row) : m[w + k - 1] = row[k]
    BY <1>1, <2>1, FoundThere
  <2> QED BY <1>1, <1>2, <2>1, <2>2
<1>5. Beginning(row, own)
  BY <1>1, <1>3, <1>4 DEF Beginning
<1>6. ASSUME NumberFollows(own, Len(row)), row[Len(row)] \in Digit
      PROVE  IsVersionExtension(m, row, FindAt(m, row))
  <2>1. \A k \in 1..Len(own) : f + k - 1 <= Len(m) /\ m[f + k - 1] = own[k]
    BY <1>1, <1>3
  <2>2. \/ Len(row) + 1 <= Len(own) /\ own[Len(row) + 1] \in Digit
        \/ /\ Len(row) + 2 <= Len(own)
           /\ own[Len(row) + 1] \in Separator /\ own[Len(row) + 2] \in Digit
    BY <1>6 DEF NumberFollows
  <2>3. ASSUME NEW d \in {1, 2}, Len(row) + d <= Len(own)
        PROVE  (f + Len(row) - 1) + d <= Len(m) /\ m[(f + Len(row) - 1) + d] = own[Len(row) + d]
    <3>1. Len(row) + d \in 1..Len(own) /\ f + (Len(row) + d) - 1 = (f + Len(row) - 1) + d
      BY <1>1, <1>3, <2>3
    <3> QED BY <2>1, <3>1
  <2>4. NumberFollows(m, f + Len(row) - 1)
    <3>1. CASE Len(row) + 1 <= Len(own) /\ own[Len(row) + 1] \in Digit
      BY <2>3, <3>1 DEF NumberFollows
    <3>2. CASE /\ Len(row) + 2 <= Len(own)
               /\ own[Len(row) + 1] \in Separator /\ own[Len(row) + 2] \in Digit
      <4>1. Len(row) + 1 <= Len(own)
        BY <1>1, <3>2
      <4> QED BY <2>3, <3>2, <4>1 DEF NumberFollows
    <3> QED BY <2>2, <3>1, <3>2
  <2> QED BY <1>1, <1>2, <1>6, <2>4 DEF IsVersionExtension
<1> QED BY <1>1, <1>5, <1>6 DEF own

\* A row as long as the name is the name.
LEMMA WholeName ==
    ASSUME NEW row \in Seq(STRING), NEW own \in Seq(STRING), Beginning(row, own),
           Len(row) = Len(own)
    PROVE  row = own
<1>1. DOMAIN row = DOMAIN own /\ \A k \in DOMAIN row : row[k] = own[k]
  BY DEF Beginning
<1> QED BY <1>1

\* An id is found in itself, from its beginning to its end.
LEMMA FoundInItself ==
    ASSUME NEW m \in Seq(STRING)
    PROVE  Occurrences(m, m) # {}
<1>1. SubSeq(m, 1, 1 + Len(m) - 1) = m
  OBVIOUS
<1>2. 1 \in 1..(1 + Len(m) - Len(m))
  OBVIOUS
<1> QED BY <1>1, <1>2 DEF Occurrences

\* An id that is a row is its own name.
LEMMA IdIsName ==
    ASSUME NamesTell, NEW m \in ModelId, m \in Row
    PROVE  m = Generation[m]
<1>1. m \in Seq(STRING) /\ Occurrences(m, m) # {}
  BY FoundInItself DEF NamesTell
<1>2. Beginning(m, Generation[m]) /\ Generation[m] \in Seq(STRING)
  BY <1>1, RowsBegin
<1>3. Occurrences(m, Generation[m]) # {}
  BY DEF NamesTell
<1>4. Len(Generation[m]) <= Len(m)
  <2>1. PICK f : f = FindAt(m, Generation[m])
    OBVIOUS
  <2>2. f \in 1..(1 + Len(m) - Len(Generation[m]))
    BY <1>1, <1>2, <1>3, <2>1, FoundThere
  <2> QED BY <1>1, <1>2, <2>2
<1>5. Len(m) <= Len(Generation[m])
  BY <1>2 DEF Beginning
<1> QED BY <1>1, <1>2, <1>4, <1>5, WholeName

\* A set of names has a longest one.
LEMMA LongestName ==
    ASSUME NEW S, S # {}, NEW bound \in Nat, \A s \in S : Len(s) \in Nat /\ Len(s) <= bound
    PROVE  \E key \in S : \A other \in S : Len(other) <= Len(key)
<1> DEFINE short == {bound - Len(s) : s \in S}
<1>1. short \subseteq Nat /\ short # {}
  OBVIOUS
<1>2. PICK n \in short : \A k \in short : n <= k
  BY <1>1, LeastNumber
<1>3. PICK key \in S : n = bound - Len(key)
  BY <1>2
<1>4. ASSUME NEW other \in S PROVE Len(other) <= Len(key)
  <2>1. bound - Len(key) <= bound - Len(other)
    BY <1>2, <1>3
  <2> QED BY <2>1
<1> QED BY <1>4

\* The row that prices a model: of those that match, one of the longest.
LEMMA PriceIs ==
    ASSUME NamesTell, NEW table \in SUBSET Row, NEW m \in ModelId
    PROVE  LET row == PriceFor(m, table)
               own == Generation[m]
           IN  \/ row = None /\ m \notin table /\ Matches(m, table) = {}
               \/ row = own /\ own \in table
               \/ /\ m \notin table
                  /\ row \in Matches(m, table)
                  /\ \A other \in Matches(m, table) : Len(other) <= Len(row)
<1>1. CASE m \in table
  BY <1>1, IdIsName DEF PriceFor
<1>2. CASE m \notin table /\ Matches(m, table) = {}
  BY <1>2 DEF PriceFor
<1>3. CASE m \notin table /\ Matches(m, table) # {}
  <2>1. ASSUME NEW s \in Matches(m, table)
        PROVE  Len(s) \in Nat /\ Len(s) <= Len(Generation[m])
    <3>1. s \in Row /\ Occurrences(m, s) # {}
      BY DEF Matches
    <3> QED BY <3>1, RowsBegin DEF Beginning
  <2>2. Len(Generation[m]) \in Nat
    BY DEF NamesTell
  <2>3. \E key \in Matches(m, table) : \A other \in Matches(m, table) : Len(other) <= Len(key)
    BY <1>3, <2>1, <2>2, LongestName
  <2> QED BY <1>3, <2>3 DEF PriceFor
<1> QED BY <1>1, <1>2, <1>3

\* A beginning of a name that ends with a whole version number.
LEMMA VersionOf ==
    ASSUME NEW row \in Seq(STRING) \ {<<>>}, NEW own \in Seq(STRING), Beginning(row, own),
           row[Len(row)] \in Digit, ~NumberFollows(own, Len(row))
    PROVE  row \in Versions(own)
<1>1. Len(row) \in DOMAIN own /\ own[Len(row)] \in Digit
  BY DEF Beginning
<1>2. SubSeq(own, 1, Len(row)) = row
  <2>1. Len(SubSeq(own, 1, Len(row))) = Len(row) /\ SubSeq(own, 1, Len(row)) \in Seq(STRING)
    BY DEF Beginning
  <2>2. \A k \in 1..Len(row) : SubSeq(own, 1, Len(row))[k] = row[k]
    BY DEF Beginning
  <2> QED BY <2>1, <2>2
<1> QED BY <1>1, <1>2 DEF Versions

\* A row that ends with a version prices that version of a name only.
LEMMA VersionedRow ==
    ASSUME NamesTell, NEW table \in SUBSET Row, NEW m \in ModelId,
           PriceFor(m, table) # None,
           PriceFor(m, table)[Len(PriceFor(m, table))] \in Digit
    PROVE  PriceFor(m, table) \in Versions(Generation[m])
<1>1. PICK row : row = PriceFor(m, table)
  OBVIOUS
<1>2. Generation[m] \in Seq(STRING) \ {<<>>}
  BY DEF NamesTell
<1>3. CASE row = Generation[m]
  <2>1. Beginning(row, Generation[m])
    BY <1>2, <1>3 DEF Beginning
  <2>2. ~NumberFollows(Generation[m], Len(row))
    BY <1>2, <1>3 DEF NumberFollows
  <2> QED BY <1>1, <1>2, <1>3, <2>1, <2>2, VersionOf
<1>4. CASE row \in Matches(m, table)
  <2>1. /\ row \in Row /\ Occurrences(m, row) # {}
        /\ ~IsVersionExtension(m, row, FindAt(m, row))
    BY <1>4 DEF Matches
  <2>2. /\ row \in Seq(STRING) \ {<<>>} /\ Beginning(row, Generation[m])
        /\ ~NumberFollows(Generation[m], Len(row))
    BY <1>1, <2>1, RowsBegin
  <2> QED BY <1>1, <1>2, <2>2, VersionOf
<1> QED BY <1>1, <1>3, <1>4, PriceIs

\* A generation with a row of its own is priced by that row, or a number follows it.
LEMMA OwnRow ==
    ASSUME NamesTell, NEW table \in SUBSET Row, NEW m \in ModelId, Generation[m] \in table
    PROVE  \/ PriceFor(m, table) = Generation[m]
           \/ IsVersionExtension(m, Generation[m], FindAt(m, Generation[m]))
<1> DEFINE row == PriceFor(m, table)
           own == Generation[m]
<1> SUFFICES ASSUME ~IsVersionExtension(m, own, FindAt(m, own)) PROVE row = own
  OBVIOUS
<1>1. own \in Row /\ Occurrences(m, own) # {} /\ own \in Seq(STRING) \ {<<>>}
  BY DEF NamesTell
<1>2. own \in Matches(m, table)
  BY <1>1 DEF Matches
<1>3. CASE row \in Matches(m, table) /\ Len(own) <= Len(row)
  <2>1. row \in Row /\ Occurrences(m, row) # {}
    BY <1>3 DEF Matches
  <2>2. row \in Seq(STRING) /\ Beginning(row, own)
    BY <2>1, RowsBegin
  <2>3. Len(row) = Len(own)
    BY <1>1, <1>3, <2>2 DEF Beginning
  <2> QED BY <1>1, <2>2, <2>3, WholeName
<1> QED BY <1>2, <1>3, PriceIs

\* PricedByVersion, for every pricing file and all ids, where the names tell what
\* they name.
THEOREM RowsPriceOne ==
    ASSUME NamesTell
    PROVE  Spec => []PricedByVersion
<1>1. PricedByVersion
  BY VersionedRow, OwnRow DEF PricedByVersion
<1> QED BY <1>1, PTL
================================================================================
