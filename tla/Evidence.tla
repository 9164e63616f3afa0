-------------------------------- MODULE Evidence --------------------------------
(***************************************************************************)
(* From the retrieved candidates to the evidence an answer rests on:       *)
(* merge_candidate_pool, Reranker.rerank, deduplicate, CandidateConfidence-*)
(* Filter, ContextPacker and ConfidenceGate, in the order in which         *)
(* CombinedRetrievalService and PostRetrievalService run them; and the     *)
(* decision that the offline calibration takes in the gate's place.        *)
(* Scores are whole numbers of hundredths, texts are known by their        *)
(* hashes, and the tokens of a context are those of its items.             *)
(***************************************************************************)
EXTENDS Naturals, Integers, Sequences, FiniteSets, SequencesExt, TLC

CONSTANTS
    Card,           \* Card[c]: what is known of candidate c
    Documents, Web, \* the sequences of candidates that the two branches may return
    Settings,       \* the configured limits
    Thresholds,     \* those of calibrated gates
    Missing         \* the score of something that is not there

VARIABLES
    branches,       \* the candidates of both branches, in retrieval order
    setting, threshold,
    stage,
    ranked,         \* reranked candidates, best first
    kept,           \* those that are left, best first, with their exact terms
    packed,         \* those in the context, in the order of its sources
    route

vars == <<branches, setting, threshold, stage, ranked, kept, packed, route>>

Init ==
    /\ branches \in [documents : Documents, web : Web]
    /\ setting \in Settings
    /\ threshold \in Thresholds
    /\ stage = "retrieved"
    /\ ranked = <<>> /\ kept = <<>> /\ packed = <<>>
    /\ route = "none"

Positions(s) == [i \in DOMAIN s |-> i]

-------------------------------------------------------------------------------
(* Merging and reranking *)

\* One from each branch in turn, up to the limit.
Pool(documents, web, limit) ==
    LET longest == IF Len(documents) > Len(web) THEN Len(documents) ELSE Len(web)
        Nth(s, i) == IF i \in DOMAIN s THEN <<s[i]>> ELSE <<>>
        merged == FlattenSeq([i \in 1 .. longest |-> Nth(documents, i) \o Nth(web, i)])
    IN  SubSeq(merged, 1, IF Len(merged) > limit THEN limit ELSE Len(merged))

\* By score, then by retrieval rank.
Reranked(pool) ==
    LET order == SortSeq(Positions(pool), LAMBDA i, j :
                     \/ Card[pool[i]].score > Card[pool[j]].score
                     \/ Card[pool[i]].score = Card[pool[j]].score /\ i < j)
    IN  [k \in DOMAIN order |-> pool[order[k]]]

Rerank ==
    /\ stage = "retrieved" /\ stage' = "reranked"
    /\ ranked' = Reranked(Pool(branches.documents, branches.web, setting.pool))
    /\ kept' = [i \in DOMAIN ranked' |->
                   [id |-> ranked'[i], rank |-> i, terms |-> Card[ranked'[i]].terms]]
    /\ UNCHANGED <<branches, setting, threshold, packed, route>>

-------------------------------------------------------------------------------
(* Deduplication *)

\* At least four fifths of the shorter span, in one section of one source.
Overlaps(a, b) ==
    LET from == IF a.from > b.from THEN a.from ELSE b.from
        to == IF a.to < b.to THEN a.to ELSE b.to
        shortest == IF a.to - a.from < b.to - b.from THEN a.to - a.from ELSE b.to - b.from
    IN  /\ a.source = b.source /\ a.section = b.section
        /\ shortest > 0 /\ 10 * (to - from) >= 8 * shortest

\* _duplicate_reason: of item next, given the better one that is kept.
Duplicates(better, next) ==
    LET a == Card[better.id]
        b == Card[next.id]
    IN  \/ a.content = b.content
        \/ a.lexical = b.lexical
        \/ /\ next.terms \subseteq better.terms
           /\ Overlaps(a, b) \/ a.theme = b.theme

\* Mutant: a duplicate is dropped with its exact terms.
MergedWithoutTerms(better, next) == better

Merged(better, next) == [better EXCEPT !.terms = @ \cup next.terms]

Deduplicated(items) ==
    LET Step(survivors, item) ==
            LET i == SelectInSeq(survivors, LAMBDA better : Duplicates(better, item))
            IN  IF i = 0 THEN Append(survivors, item)
                ELSE [survivors EXCEPT ![i] = Merged(@, item)]
    IN  FoldLeft(Step, <<>>, items)

Deduplicate ==
    /\ stage = "reranked" /\ stage' = "deduplicated"
    /\ kept' = Deduplicated(kept)
    /\ UNCHANGED <<branches, setting, threshold, ranked, packed, route>>

\* CandidateConfidenceFilter.filter
Confident(items) ==
    LET lowest == Card[items[1].id].score - setting.delta
        cutoff == IF lowest > setting.minimum THEN lowest ELSE setting.minimum
    IN  IF items = <<>> THEN <<>>
        ELSE SelectSeq(items, LAMBDA item : Card[item.id].score >= cutoff)

FilterWeak ==
    /\ stage = "deduplicated" /\ stage' = "filtered"
    /\ kept' = Confident(kept)
    /\ UNCHANGED <<branches, setting, threshold, ranked, packed, route>>

-------------------------------------------------------------------------------
(* Packing *)

TermsOf(items) == UNION {items[i].terms : i \in DOMAIN items}

\* _evidence_order: first whatever brings a new exact term, then the best remaining
\* document and the best remaining page, then the rest.
EvidenceOrder(items) ==
    LET AddTerms(chosen, item) ==
            IF item.terms \subseteq TermsOf(chosen) THEN chosen ELSE Append(chosen, item)
        AddType(chosen, type) ==
            LET best == SelectInSeq(items, LAMBDA item :
                            Card[item.id].type = type /\ item \notin ToSet(chosen))
            IN  IF best = 0 THEN chosen ELSE Append(chosen, items[best])
        first == FoldLeft(AddType, FoldLeft(AddTerms, <<>>, items), <<"document", "web">>)
    IN  first \o SelectSeq(items, LAMBDA item : item \notin ToSet(first))

Having(items, field, value) == Cardinality({i \in DOMAIN items : Card[items[i].id][field] = value})
Tokens(items) == FoldLeft(LAMBDA sum, item : sum + Card[item.id].tokens, 0, items)

\* The caps that selected leaves room under for item.
Admits(selected, item) ==
    LET card == Card[item.id] IN
    /\ Len(selected) < setting.candidates
    /\ Having(selected, "section", card.section) < setting.section
    /\ Having(selected, "source", card.source) < setting.source
    /\ card.type = "web" =>
          /\ Having(selected, "domain", card.domain) < setting.domain
          /\ Having(selected, "type", "web") < setting.web
    /\ Tokens(selected) + card.tokens <= setting.tokens

Packed(items) ==
    FoldLeft(LAMBDA selected, item :
                 IF Admits(selected, item) THEN Append(selected, item) ELSE selected,
             <<>>, EvidenceOrder(items))

Pack ==
    /\ stage = "filtered" /\ stage' = "packed"
    /\ packed' = Packed(kept)
    /\ UNCHANGED <<branches, setting, threshold, ranked, kept, route>>

-------------------------------------------------------------------------------
(* The gate *)

\* The scores by rerank rank.
Scores(items) ==
    LET order == SortSeq(items, LAMBDA a, b : a.rank < b.rank)
    IN  [i \in DOMAIN order |-> Card[order[i].id].score]

Margin(scores) ==
    CASE scores = <<>> -> Missing
      [] Len(scores) = 1 -> scores[1]
      [] OTHER -> scores[1] - scores[2]

BestExact(items) ==
    LET exact == {Card[items[i].id].score : i \in {j \in DOMAIN items : items[j].terms # {}}}
    IN  IF exact = {} THEN Missing ELSE CHOOSE s \in exact : \A r \in exact : r <= s

\* ConfidenceGate.evaluate, of an artifact that is calibrated for the models in use.
Evaluate(items) ==
    LET scores == Scores(items)
        failures ==
            (IF Len(scores) < threshold.evidence THEN {"insufficient_evidence"} ELSE {})
            \cup (IF scores[1] < threshold.top THEN {"top_score_below_threshold"} ELSE {})
            \cup (IF Margin(scores) < threshold.margin
                  THEN {"score_margin_below_threshold"} ELSE {})
    IN  IF items = <<>> THEN "no_answer"
        ELSE IF BestExact(items) # Missing /\ BestExact(items) >= threshold.exact THEN "answer"
        ELSE IF failures = {} THEN "answer" ELSE "no_answer"

Decide ==
    /\ stage = "packed" /\ stage' = "decided"
    /\ route' = Evaluate(packed)
    /\ UNCHANGED <<branches, setting, threshold, ranked, kept, packed>>

Next == Rerank \/ Deduplicate \/ FilterWeak \/ Pack \/ Decide

Spec == Init /\ [][Next]_vars

\* _gate_observation: what the calibration knows of a question.
Observation(items) ==
    LET by == [i \in {items[j].rank : j \in DOMAIN items} |->
                  Card[(CHOOSE item \in ToSet(items) : item.rank = i).id].score]
        first == IF DOMAIN by = {} THEN 0
                 ELSE CHOOSE i \in DOMAIN by : \A j \in DOMAIN by : i <= j
        others == DOMAIN by \ {first}
    IN  [count |-> Len(items),
         top |-> IF first = 0 THEN Missing ELSE by[first],
         margin |-> IF first = 0 THEN Missing
                    ELSE IF others = {} THEN by[first]
                    ELSE by[first] - by[CHOOSE i \in others : \A j \in others : i <= j],
         exact |-> BestExact(items)]

\* gate_answer, and the same formula in _raw_classification.
GateAnswer(observed) ==
    \/ observed.exact # Missing /\ observed.exact >= threshold.exact
    \/ /\ observed.count >= threshold.evidence
       /\ observed.top # Missing /\ observed.top >= threshold.top
       /\ observed.margin # Missing /\ observed.margin >= threshold.margin

-------------------------------------------------------------------------------
(* Properties *)

\* Deduplication loses no exact term: it is on a survivor that ranks no lower; and no two
\* survivors have the same text.
TermsSurvive ==
    stage = "deduplicated" =>
        /\ \A i \in DOMAIN ranked : \A term \in Card[ranked[i]].terms :
              \E k \in DOMAIN kept : kept[k].rank <= i /\ term \in kept[k].terms
        /\ \A k, l \in DOMAIN kept : k # l =>
              /\ Card[kept[k].id].content # Card[kept[l].id].content
              /\ Card[kept[k].id].lexical # Card[kept[l].id].lexical

\* The context keeps to every limit, and what it leaves out would break one: nothing was
\* skipped for an item that is itself not there.
ContextIsFull ==
    stage = "packed" =>
        /\ \A i \in DOMAIN packed : Admits(RemoveAt(packed, i), packed[i])
        /\ \A k \in DOMAIN kept : kept[k] \in ToSet(packed) \/ ~Admits(packed, kept[k])

\* The thresholds are calibrated with gate_answer and served with evaluate: the two decide
\* alike, on scores whose margin is not negative.
GateAgrees ==
    stage = "decided" =>
        /\ (route = "answer") = GateAnswer(Observation(packed))
        /\ packed # <<>> => Margin(Scores(packed)) >= 0

\* What reaches the gate keeps the exact terms, the context is full and within bounds, and
\* the gate decides on it as it was calibrated.
EvidenceSound == TermsSurvive /\ ContextIsFull /\ GateAgrees
================================================================================
