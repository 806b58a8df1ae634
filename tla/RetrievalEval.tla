----------------------------- MODULE RetrievalEval ----------------------------
(***************************************************************************)
(* The retrieval suite of the evaluation harness (evals/): a labeled corpus *)
(* is validated and ingested, every labeled query runs through the hybrid   *)
(* retriever (RankFusion, step by step), the chunks it returns are          *)
(* collapsed to documents, and the rankings are scored.                     *)
(*                                                                         *)
(* A stored document is known by its cleaned text: ingestion deduplicates   *)
(* on the hash of that text.  A case is the query's outcome; the cases      *)
(* recorded so far are the suite that aggregate_retrieval scores, so every  *)
(* suite of up to MaxCases cases is scored at some state.                   *)
(***************************************************************************)
EXTENDS RankFusion, SequencesExt

CONSTANTS
    DocId,       \* the label ids of the corpus file
    Text,        \* cleaned texts, which stand for the stored ids
    CorpusSize,  \* rows of the corpus file
    MaxCases,    \* queries of the suite
    MaxLabels    \* labels of a query

ASSUME RetrievalEvalAssumption ==
    CorpusSize \in Nat /\ MaxCases \in Nat /\ MaxLabels \in Nat

VARIABLES
    corpus,   \* rows [doc_id, text]
    stage,    \* "validate", "ingest", "idle", "search" or "error"
    labels,   \* ingest_corpus: stored id -> label id
    owner,    \* chunk -> stored id of its document
    cases     \* CaseResults: [retrieved, relevant]

evalVars == <<corpus, stage, labels, owner, cases>>
allVars == <<vars, evalVars>>

SearchOver == <<4, 1>>

EvalInit ==
    /\ corpus \in [1..CorpusSize -> [doc_id : DocId, text : Text]]
    /\ stage = "validate"
    /\ labels = <<>>
    /\ owner = <<>>
    /\ cases = <<>>
    /\ lists = <<<<>>, <<>>>>
    /\ at = SearchOver
    /\ scores = <<>>
    /\ order = <<>>
    /\ origin = <<>>
    /\ result = <<>>

Known == {corpus[i].doc_id : i \in DOMAIN corpus}

\* validate_dataset: a doc_id twice in the corpus fails the run.
ValidateDataset ==
    /\ stage = "validate"
    /\ stage' = IF Cardinality(Known) = Len(corpus) THEN "ingest" ELSE "error"
    /\ UNCHANGED <<vars, corpus, labels, owner, cases>>

\* What a case may name: validate_dataset refuses a label the corpus does not
\* have, and does not look for a label named twice.
Relevances == UNION {[1..n -> Known] : n \in 0..MaxLabels}

\* (Mutant of IngestCorpus: of two equal texts the second overwrites the entry of
\* the first.)
IngestCorpusOverwrites ==
    /\ stage = "ingest"
    /\ LET stored == {corpus[i].text : i \in DOMAIN corpus}
       IN  /\ labels' = [t \in stored |-> (CHOOSE r \in Range(corpus) : r.text = t).doc_id]
           /\ owner' \in [Chunk -> stored]
           /\ stage' = "idle"
    /\ UNCHANGED <<vars, corpus, cases>>

\* ingest_corpus: every row goes through the ingestion, which answers the stored
\* id of an equal text again; that is refused.
IngestCorpus ==
    /\ stage = "ingest"
    /\ LET stored == {corpus[i].text : i \in DOMAIN corpus}
       IN  IF Cardinality(stored) = Len(corpus)
           THEN /\ labels' = [t \in stored |->
                                (CHOOSE r \in Range(corpus) : r.text = t).doc_id]
                /\ owner' \in [Chunk -> stored]
                /\ stage' = "idle"
           ELSE /\ stage' = "error"
                /\ UNCHANGED <<labels, owner>>
    /\ UNCHANGED <<vars, corpus, cases>>

\* evaluate_retrieval's next query: the retriever is called with limit = k.
Search ==
    /\ stage = "idle"
    /\ Len(cases) < MaxCases
    /\ stage' = "search"
    /\ lists' \in VectorHits \X KeywordChunks
    /\ at' = <<1, 1>>
    /\ UNCHANGED <<scores, order, origin, result, corpus, labels, owner, cases>>

\* (Mutant of DocIdsInRankOrder: a document once per chunk.)
DocIdPerChunk(chunks) == [i \in DOMAIN chunks |-> labels[owner[chunks[i]]]]

\* _doc_ids_in_rank_order: a document stands at the rank of its best chunk.
DocIdsInRankOrder(chunks) ==
    LET Doc(i) == labels[owner[chunks[i]]]
        firsts == {i \in DOMAIN chunks : \A j \in 1..(i - 1) : Doc(j) # Doc(i)}
    IN  [k \in 1..Cardinality(firsts) |->
            Doc(CHOOSE i \in firsts : Cardinality({j \in firsts : j < i}) = k - 1)]

RecordCase ==
    /\ stage = "search"
    /\ at = SearchOver
    /\ \E rel \in Relevances :
          cases' = Append(cases, [retrieved |-> DocIdsInRankOrder(result), relevant |-> rel])
    /\ stage' = "idle"
    /\ lists' = <<<<>>, <<>>>>
    /\ scores' = <<>> /\ order' = <<>> /\ origin' = <<>> /\ result' = <<>>
    /\ UNCHANGED <<at, corpus, labels, owner>>

EvalNext ==
    \/ ValidateDataset
    \/ IngestCorpus
    \/ Search
    \/ Next /\ UNCHANGED evalVars
    \/ RecordCase

EvalSpec == EvalInit /\ [][EvalNext]_allVars

-----------------------------------------------------------------------------
(* evals/metrics.py, in exact fractions.                                   *)

TopK(retrieved) == SubSeq(retrieved, 1, Least(Limit, Len(retrieved)))
Hits(case) == Range(TopK(case.retrieved)) \cap Range(case.relevant)

\* Divided by the length of the list of labels, which may name one twice.
RecallAtK(case) ==
    IF case.relevant = <<>> THEN <<1, 1>>
    ELSE <<Cardinality(Hits(case)), Len(case.relevant)>>

PrecisionAtK(case) == <<Cardinality(Hits(case)), Limit>>

ReciprocalRank(case) ==
    LET ranks == {i \in DOMAIN TopK(case.retrieved) :
                    case.retrieved[i] \in Range(case.relevant)}
    IN  IF ranks = {} THEN <<0, 1>>
        ELSE <<1, CHOOSE i \in ranks : \A j \in ranks : i <= j>>

Hit(case) == IF Hits(case) = {} THEN <<0, 1>> ELSE <<1, 1>>

\* (Mutant of Answerable: unanswerable queries count as misses.)
AnswerableAll(suite) == DOMAIN suite
Answerable(suite) == {i \in DOMAIN suite : suite[i].relevant # <<>>}

\* The mean of the scores of some cases; 0 when there is none.
Mean(values) ==
    LET total == FoldFunction(Plus, <<0, 1>>, values)
    IN  IF DOMAIN values = {} THEN <<0, 1>>
        ELSE <<total[1], total[2] * Cardinality(DOMAIN values)>>

AggregateRetrieval(suite) ==
    [recall    |-> Mean([i \in DOMAIN suite |-> RecallAtK(suite[i])]),
     precision |-> Mean([i \in Answerable(suite) |-> PrecisionAtK(suite[i])]),
     mrr       |-> Mean([i \in Answerable(suite) |-> ReciprocalRank(suite[i])]),
     hitRate   |-> Mean([i \in Answerable(suite) |-> Hit(suite[i])])]

\* missed_doc_ids looks in the whole ranking, recall in its first k.
MissedDocIds(case) == Range(case.relevant) \ Range(case.retrieved)
FailingCases(suite) == {i \in DOMAIN suite : MissedDocIds(suite[i]) # {}}

-----------------------------------------------------------------------------
(* Properties.                                                             *)

AtMost(x, y) == ~Less(y, x)

EvalTypeOK ==
    /\ TypeOK
    /\ stage \in {"validate", "ingest", "idle", "search", "error"}
    /\ DOMAIN labels \subseteq Text /\ Range(labels) \subseteq DocId
    /\ DOMAIN owner \subseteq Chunk /\ Range(owner) \subseteq Text
    /\ Len(cases) <= MaxCases
    /\ \A i \in DOMAIN cases :
          /\ Len(cases[i].retrieved) <= Limit /\ IsInjective(cases[i].retrieved)
          /\ Range(cases[i].retrieved) \subseteq DocId
          /\ cases[i].relevant \in Relevances

\* No query asks for what cannot be found: once the searches begin, every label a
\* case may name is the label of a stored document, and of one only.  Otherwise
\* recall is "understated forever" without a sign of it.
EveryLabelReachable ==
    stage \in {"idle", "search"} =>
        \A doc \in Known : \E t \in DOMAIN labels :
            labels[t] = doc /\ \A u \in DOMAIN labels \ {t} : labels[u] # doc

\* The means and the cases tell the same story.  Recall is below 1 exactly when some
\* case is printed as a miss or names a label twice (recall divides by the labels
\* with their repetitions, misses are looked for one by one).  The hit rate is
\* below 1 exactly when an answerable query found nothing: a query that has no
\* answer never counts against it.  No reciprocal rank exceeds its query's hit, and
\* a hit fills at least one of the k places that precision divides by.
MeansExplained ==
    (stage = "idle" /\ \E i \in DOMAIN cases : cases[i].relevant # <<>>) =>
        LET metrics == AggregateRetrieval(cases)
            answered == {i \in DOMAIN cases : cases[i].relevant # <<>>}
        IN  /\ Less(metrics.recall, <<1, 1>>)
                 <=> \/ FailingCases(cases) # {}
                     \/ \E i \in DOMAIN cases : ~IsInjective(cases[i].relevant)
            /\ Less(metrics.hitRate, <<1, 1>>) <=> \E i \in answered : Hits(cases[i]) = {}
            /\ AtMost(metrics.mrr, metrics.hitRate)
            /\ AtMost(metrics.hitRate, <<Limit * metrics.precision[1], metrics.precision[2]>>)
            /\ AtMost(metrics.precision, <<1, 1>>)
===============================================================================
