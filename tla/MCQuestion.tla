------------------------------- MODULE MCQuestion -------------------------------
(* The path of a question.  Chat and the parts that share no state with it or with *)
(* each other, each explored by itself; part names the one that runs in a          *)
(* behaviour: the claims of a question's requests, the hints that narrow its scope, *)
(* the ranking of what the search finds, the scores of the cross-encoder, the      *)
(* evidence taken from it, the calibration of the gate that looks at the evidence, *)
(* the citations in the model's output, and the answer's way to the screen.        *)
EXTENDS MCChat, MCInputs

CONSTANTS
    Parts,      \* those that are explored
    Docs, Collections, Sections, DocOf, Path, Questions, Memberships,   \* ScopeHints
    Texts, Sources, NoAnswer,                                   \* CitationSanitizer
    Chunk, Dense, Sparse, Losses, Limits,                       \* Ranking
    Search, Score, MaxCandidates, BatchSize, MaxRetries,        \* Reranker
    Card, Documents, Web, Settings, Thresholds, Missing,        \* Evidence
    Observations, Targets, One                                  \* Calibration

VARIABLES
    part,
    text, grounded, fed, pending, streamed, shown, outcome,
    claimed, answerOf, yielded, raised, link, accumulator, page,
    question, member, resolving, allowed, sections,
    hits, lost, limit, ranking, order, primaries, pool,
    branches, setting, threshold, stage, ranked, kept, packed, route,
    call, cache,
    observations, target, calibrating, chosen, metrics

citationsVars == <<text, grounded, fed, pending, streamed, shown, outcome>>
streamVars == <<claimed, answerOf, yielded, raised, link, accumulator, page>>
hintsVars == <<question, member, resolving, allowed, sections>>
rankingVars == <<hits, lost, limit, ranking, order, primaries, pool>>
evidenceVars == <<branches, setting, threshold, stage, ranked, kept, packed, route>>
rerankVars == <<call, cache>>
calibrationVars == <<observations, target, calibrating, chosen, metrics>>

Citations == INSTANCE CitationSanitizer
Stream == INSTANCE AnswerStream WITH claim <- claimed
Scope == INSTANCE ScopeHints WITH step <- resolving
Ranks == INSTANCE Ranking WITH stage <- ranking
Selected == INSTANCE Evidence
Scored == INSTANCE Reranker WITH Requests <- DOMAIN Search
Swept == INSTANCE Calibration WITH stage <- calibrating

QuestionInit ==
    /\ part \in Parts
    /\ Init
    /\ IF part = "citations" THEN Citations!Init ELSE
          /\ text = "off" /\ grounded = "off" /\ fed = "off" /\ pending = "off"
          /\ streamed = "off" /\ shown = "off" /\ outcome = "off"
    /\ IF part = "stream" THEN Stream!Init ELSE
          /\ claimed = "off" /\ answerOf = "off" /\ yielded = "off" /\ raised = "off"
          /\ link = "off" /\ accumulator = "off" /\ page = "off"
    /\ IF part = "hints" THEN Scope!Init ELSE
          /\ question = "off" /\ member = "off" /\ resolving = "off" /\ allowed = "off"
          /\ sections = "off"
    /\ IF part = "ranking" THEN Ranks!Init ELSE
          /\ hits = "off" /\ lost = "off" /\ limit = "off" /\ ranking = "off"
          /\ order = "off" /\ primaries = "off" /\ pool = "off"
    /\ IF part = "evidence" THEN Selected!Init ELSE
          /\ branches = "off" /\ setting = "off" /\ threshold = "off" /\ stage = "off"
          /\ ranked = "off" /\ kept = "off" /\ packed = "off" /\ route = "off"
    /\ IF part = "rerank" THEN Scored!Init ELSE call = "off" /\ cache = "off"
    /\ IF part = "calibration" THEN Swept!Init ELSE
          /\ observations = "off" /\ target = "off" /\ calibrating = "off"
          /\ chosen = "off" /\ metrics = "off"

Chatting ==
    part = "chat" /\ UNCHANGED <<part, citationsVars, streamVars, hintsVars, rankingVars,
                                 evidenceVars, rerankVars, calibrationVars>>
Citing ==
    part = "citations" /\ UNCHANGED <<part, vars, streamVars, hintsVars, rankingVars,
                                      evidenceVars, rerankVars, calibrationVars>>
Streaming ==
    part = "stream" /\ UNCHANGED <<part, vars, citationsVars, hintsVars, rankingVars,
                                   evidenceVars, rerankVars, calibrationVars>>
Hinting ==
    part = "hints" /\ UNCHANGED <<part, vars, citationsVars, streamVars, rankingVars,
                                  evidenceVars, rerankVars, calibrationVars>>
RankingHits ==
    part = "ranking" /\ UNCHANGED <<part, vars, citationsVars, streamVars, hintsVars,
                                    evidenceVars, rerankVars, calibrationVars>>
Selecting ==
    part = "evidence" /\ UNCHANGED <<part, vars, citationsVars, streamVars, hintsVars,
                                     rankingVars, rerankVars, calibrationVars>>
Reranking ==
    part = "rerank" /\ UNCHANGED <<part, vars, citationsVars, streamVars, hintsVars,
                                   rankingVars, evidenceVars, calibrationVars>>
Calibrating ==
    part = "calibration" /\ UNCHANGED <<part, vars, citationsVars, streamVars, hintsVars,
                                        rankingVars, evidenceVars, rerankVars>>

\* Three of the requests in one behaviour.
Begins(r) == Cardinality({s \in DOMAIN Search \ {r} : call[s].at # "new"}) < 2

QuestionNext ==
    \/ Chatting /\ \E a \in Attempts : Accept(a)
    \/ Chatting /\ \E a \in Attempts : TurnAway(a)
    \/ Chatting /\ \E a \in Attempts : Replay(a)
    \/ Chatting /\ \E a \in Attempts : StreamFails(a)
    \/ Chatting /\ \E a \in Attempts : Persist(a)
    \/ Chatting /\ \E a \in Attempts : Fail(a)
    \/ Chatting /\ \E a \in Attempts : Send(a)
    \/ Chatting /\ \E a \in Attempts : Cut(a)
    \/ Chatting /\ \E a \in Attempts : TimeOut(a)
    \/ Chatting /\ \E k \in Keys : Prune(k)
    \/ Citing /\ \E n \in 1 .. Len(text) - fed : Citations!Feed(n)
    \/ Citing /\ Citations!Finish
    \/ Streaming /\ Stream!Yield
    \/ Streaming /\ Stream!Persist
    \/ Streaming /\ Stream!Raise
    \/ Streaming /\ Stream!Accepted
    \/ Streaming /\ Stream!TooEarly
    \/ Streaming /\ Stream!Throws
    \/ Streaming /\ Stream!Receive
    \/ Streaming /\ Stream!EndsBetween
    \/ Streaming /\ Stream!EndsAfterData
    \/ Hinting /\ Scope!Explicit
    \/ Hinting /\ Scope!NarrowByDocuments
    \/ Hinting /\ Scope!NarrowByCollections
    \/ Hinting /\ Scope!PickSections
    \/ RankingHits /\ Ranks!Fuse
    \/ RankingHits /\ Ranks!CapSections
    \/ RankingHits /\ Ranks!AddNeighbors
    \/ Selecting /\ Selected!Rerank
    \/ Selecting /\ Selected!Deduplicate
    \/ Selecting /\ Selected!FilterWeak
    \/ Selecting /\ Selected!Pack
    \/ Selecting /\ Selected!Decide
    \/ Reranking /\ \E r \in DOMAIN Search : Begins(r) /\ Scored!Nothing(r)
    \/ Reranking /\ \E r \in DOMAIN Search : Begins(r) /\ Scored!Hit(r)
    \/ Reranking /\ \E r \in DOMAIN Search : Begins(r) /\ Scored!Miss(r)
    \/ Reranking /\ \E r \in DOMAIN Search : Scored!Store(r)
    \/ Reranking /\ \E r \in DOMAIN Search : Scored!StoreFails(r)
    \/ Reranking /\ \E r \in DOMAIN Search : Scored!ScoreBatch(r)
    \/ Reranking /\ \E r \in DOMAIN Search : Scored!TooMany(r)
    \/ Reranking /\ \E r \in DOMAIN Search : Scored!Raises(r)
    \/ Reranking /\ Scored!Expire
    \/ Calibrating /\ Swept!Refuse
    \/ Calibrating /\ Swept!Sweep

QuestionSpec ==
    QuestionInit /\ [][QuestionNext]_<<part, vars, citationsVars, streamVars, hintsVars,
                                      rankingVars, evidenceVars, rerankVars,
                                      calibrationVars>>

-------------------------------------------------------------------------------
(* The properties of the parts, each explained in its own module.                  *)

\* CitationSanitizer: where the stream is cut makes no difference, and the markers of a
\* stored answer are the sources the model cited.
CitationsSound == part = "citations" => Citations!CitationsSound

\* CitationSanitizer: docs/p8-generation.md on what is stored and what is shown.
StoredIsShown == part = "citations" => Citations!StoredIsShown

\* AnswerStream: a page that shows an answer shows the stored one, and never two mixed.
ShownIsStored == part = "stream" => Stream!ShownIsStored

\* ScopeHints: hints narrow the scope that was asked for and keep what they name.
HintsNarrow == part = "hints" => Scope!HintsNarrow

\* Ranking: the better chunk is ranked first and the pool keeps to its caps.  Reranker:
\* what is ranked again is ranked by the scores of its own model.
PoolIsSound ==
    /\ part = "ranking" => Ranks!PoolIsSound
    /\ part = "rerank" => Scored!ScoresSound

\* Evidence: exact terms survive, the context is full and within its limits, and the gate
\* decides as the calibration that chose its thresholds.  Calibration: which has not
\* missed any better ones.
EvidenceSound ==
    /\ part = "evidence" => Selected!EvidenceSound
    /\ part = "calibration" => Swept!NothingBetter
================================================================================
