-------------------------------- MODULE Reranker --------------------------------
(***************************************************************************)
(* TeiReranker.rerank, with the cache that all backend processes share:    *)
(* the cross-encoder scores the best candidates batch by batch, in any     *)
(* order within a batch, asks to come back later, fails, or answers with   *)
(* something that is not a list of scores.  A score is a whole number of   *)
(* hundredths, a text stands for its hashes.                               *)
(***************************************************************************)
EXTENDS Naturals, Integers, Sequences, FiniteSets, SequencesExt, Ordering

CONSTANTS
    Requests,
    Search,             \* Search[r]: query, revision of the model, set of candidates
    Score,              \* Score[revision][query][text]: what the model makes of a text
    MaxCandidates, BatchSize, MaxRetries

VARIABLES
    call,       \* call[r]: its step, the scores so far, the attempts at this batch, the result
    cache       \* entries of key, ids and scores

vars == <<call, cache>>

EvidenceCandidate == [id : Nat, rank : Nat, text : STRING]
Scores == 0..100
RerankedEvidence == [candidate : EvidenceCandidate, score : Scores]

\* The candidates that are scored: the best ranked ones, by rank and id.
Bounded == [r \in Requests |->
    LET order == Ordered(Search[r].candidates, LAMBDA c, d :
                     c.rank < d.rank \/ (c.rank = d.rank /\ c.id < d.id))
    IN  SubSeq(order, 1, IF Len(order) < MaxCandidates THEN Len(order) ELSE MaxCandidates)]

Ids(r) == [i \in DOMAIN Bounded[r] |-> Bounded[r][i].id]

\* cache_key: a hash of the query, of the model, and of the candidates and their texts.
Key(r) ==
    [query |-> Search[r].query, revision |-> Search[r].revision,
     candidates |-> [i \in DOMAIN Bounded[r] |-> <<Bounded[r][i].id, Bounded[r][i].text>>]]

TypeOK ==
    /\ \A r \in Requests : Search[r].candidates \subseteq EvidenceCandidate
    /\ \A r \in Requests :
          /\ call[r].at \in {"new", "scoring", "scored", "done", "failed"}
          /\ call[r].scores \in Seq(Scores) /\ call[r].attempt \in 0..MaxRetries
          /\ call[r].out \in Seq(RerankedEvidence)
    /\ \A e \in cache : e.scores \in Seq(Scores)

Init ==
    /\ call = [r \in Requests |-> [at |-> "new", scores |-> <<>>, attempt |-> 0, out |-> <<>>]]
    /\ cache = {}

Goes(r, to) == call' = [call EXCEPT ![r] = to]

\* The result: the scored candidates, best first.
Ranked(r, scores) ==
    Ordered({[candidate |-> Bounded[r][i], score |-> scores[i]] : i \in DOMAIN scores},
            LAMBDA e, f : \/ e.score > f.score
                          \/ e.score = f.score /\ e.candidate.rank < f.candidate.rank
                          \/ /\ e.score = f.score /\ e.candidate.rank = f.candidate.rank
                             /\ e.candidate.id < f.candidate.id)

Ends(r, scores) == Goes(r, [call[r] EXCEPT !.at = "done", !.out = Ranked(r, scores)])

-------------------------------------------------------------------------------
(* rerank, _cache_get and _cache_set *)

\* Nothing to score.
Nothing(r) ==
    /\ call[r].at = "new" /\ Bounded[r] = <<>>
    /\ Ends(r, <<>>) /\ UNCHANGED cache

Usable(e, r) == e.key = Key(r) /\ e.ids = Ids(r) /\ Len(e.scores) = Len(Bounded[r])

Hit(r) ==
    /\ call[r].at = "new" /\ Bounded[r] # <<>>
    /\ \E e \in cache : Usable(e, r) /\ Ends(r, e.scores)
    /\ UNCHANGED cache

\* There is no entry, it has expired, or the cache does not answer.
Miss(r) ==
    /\ call[r].at = "new" /\ Bounded[r] # <<>>
    /\ Goes(r, [call[r] EXCEPT !.at = "scoring"]) /\ UNCHANGED cache

Store(r) ==
    /\ call[r].at = "scored"
    /\ cache' = {e \in cache : e.key # Key(r)} \cup
                {[key |-> Key(r), ids |-> Ids(r), scores |-> call[r].scores]}
    /\ Ends(r, call[r].scores)

\* The cache is off or does not answer.
StoreFails(r) ==
    /\ call[r].at = "scored"
    /\ Ends(r, call[r].scores) /\ UNCHANGED cache

-------------------------------------------------------------------------------
(* _score and _score_batch *)

Batch(r) ==
    LET from == Len(call[r].scores)
        to == IF from + BatchSize < Len(Bounded[r]) THEN from + BatchSize ELSE Len(Bounded[r])
    IN  SubSeq(Bounded[r], from + 1, to)

\* What the service may answer: scores of the batch, some of them out of bounds, for a text
\* that was not sent, missing or sent twice.
Reply(r) ==
    LET batch == Batch(r)
        True(i) == Score[Search[r].revision][Search[r].query][batch[i].text]
        Entries == {[index |-> i - 1, score |-> True(i)] : i \in DOMAIN batch} \cup
                   {[index |-> Len(batch), score |-> 0], [index |-> 0, score |-> 101]}
    IN  BoundedSeq(Entries, Len(batch) + 1)

Valid(reply, n) ==
    /\ Len(reply) = n
    /\ \A k \in DOMAIN reply : reply[k].index \in 0 .. n - 1 /\ reply[k].score \in Scores
    /\ \A k, l \in DOMAIN reply : reply[k].index = reply[l].index => k = l

\* Mutant: the scores are taken in the order in which they come.
InOrderOfReply(reply) == [k \in DOMAIN reply |-> reply[k].score]

Placed(reply) ==
    [i \in DOMAIN reply |->
        (CHOOSE e \in ToSet(reply) : e.index = i - 1).score]

ScoreBatch(r) ==
    /\ call[r].at = "scoring"
    /\ \E reply \in Reply(r) :
          /\ Valid(reply, Len(Batch(r)))
          /\ LET scores == call[r].scores \o Placed(reply)
                 at == IF Len(scores) = Len(Bounded[r]) THEN "scored" ELSE "scoring"
             IN  Goes(r, [call[r] EXCEPT !.at = at, !.scores = scores, !.attempt = 0])
    /\ UNCHANGED cache

\* 429: the same batch once more.
TooMany(r) ==
    /\ call[r].at = "scoring" /\ call[r].attempt < MaxRetries
    /\ Goes(r, [call[r] EXCEPT !.attempt = @ + 1]) /\ UNCHANGED cache

\* An invalid answer, or any failure of the request or of a task that waits for it.
Raises(r) ==
    /\ call[r].at \in {"new", "scoring", "scored"}
    /\ Goes(r, [call[r] EXCEPT !.at = "failed"]) /\ UNCHANGED cache

-------------------------------------------------------------------------------

Expire == \E e \in cache : cache' = cache \ {e} /\ UNCHANGED call

Rerank(r) == Nothing(r) \/ Hit(r) \/ Miss(r) \/ Store(r) \/ StoreFails(r)
Service(r) == ScoreBatch(r) \/ TooMany(r) \/ Raises(r)

Next == (\E r \in Requests : Rerank(r) \/ Service(r)) \/ Expire

Spec == Init /\ [][Next]_vars

-------------------------------------------------------------------------------
(* Properties *)

\* The best candidates of r, with what its own model makes of their texts.
Expected(r) ==
    {[candidate |-> c, score |-> Score[Search[r].revision][Search[r].query][c.text]] :
        c \in ToSet(Bounded[r])}

\* However its batches were answered, retried or found in the cache, a request that is
\* done returns its own best candidates, each once and with its true score, best first and
\* as retrieved among equals: a model that was replaced leaves nothing behind, nor does a
\* request that failed, nor one with the same texts in another order.
RankedByScore ==
    \A r \in Requests : call[r].at = "done" =>
        LET out == call[r].out IN
        /\ ToSet(out) = Expected(r) /\ Len(out) = Cardinality(Expected(r))
        /\ \A k \in 1 .. Len(out) - 1 :
              \/ out[k].score > out[k + 1].score
              \/ /\ out[k].score = out[k + 1].score
                 /\ \/ out[k].candidate.rank < out[k + 1].candidate.rank
                    \/ /\ out[k].candidate.rank = out[k + 1].candidate.rank
                       /\ out[k].candidate.id < out[k + 1].candidate.id

ScoresSound == TypeOK /\ RankedByScore
================================================================================
