-------------------------------- MODULE MCInputs --------------------------------
(* The inputs over which MCQuestion explores the parts of a question's path that *)
(* keep nothing between two calls.                                               *)
EXTENDS Naturals, Sequences, FiniteSets, SequencesExt, TLC

Lists(S, n) == {s \in BoundedSeq(S, n) : IsInjective(s)}

-------------------------------------------------------------------------------
(* CitationSanitizer: every text of up to five characters around one source, and *)
(* longer ones with repeated, foreign, nested and unfinished markers.            *)

S1 == <<"[", "S", "1", "]">>
S2 == <<"[", "S", "2", "]">>
Word == <<"x">>

MCTexts ==
    BoundedSeq({"[", "S", "1", "2", "]"}, 5) \cup
    {S1 \o S1 \o S1, S1 \o <<" ">> \o S1, S1 \o S2 \o S1, S2 \o Word \o S1,
     S1 \o Word \o S1 \o <<"[">>, S1 \o <<"[", "S", "1">>, <<"[", "S">> \o S2 \o <<"2", "]">>,
     <<"[", "S">> \o S2 \o <<"1", "]">>, <<"[">> \o S2 \o S1}
MCSources == {<<"1">>}
MCNoAnswer == <<"n", "o">>

-------------------------------------------------------------------------------
(* ScopeHints: one or two hints of each strength, with an explicit scope or with *)
(* hints of another kind, over documents with and without a collection.          *)

MCDocs == {"h1", "h2", "h3"}
MCCollections == {"k1", "k2"}
MCPath == [s1 |-> <<"A">>, s2 |-> <<"A", "B">>, s3 |-> <<"AB">>, s4 |-> <<"A">>]
MCSections == DOMAIN MCPath
MCDocOf == [s \in MCSections |-> IF s = "s4" THEN "h2" ELSE "h1"]

\* A hint that fits x by n and all others by m.
Hints(S, best, ns, ms) ==
    {[y \in S |-> IF y = x THEN n ELSE m] : x \in best, n \in ns, m \in ms}
DocumentHints == Hints(MCDocs, {"h1", "h2"}, {1, 3, 5}, {0, 1, 3})
CollectionHints == Hints(MCCollections, MCCollections, {2, 3}, {0, 3})
HeadingHints == Hints(MCSections, {"s1", "s2"}, {2, 3, 4}, {0, 3})

Ask(documents, collections, ds, cs, hs) ==
    [documents |-> documents, collections |-> collections,
     documentHints |-> ds, collectionHints |-> cs, headingHints |-> hs]
MCQuestions ==
    {Ask(documents, {}, ds, <<>>, <<>>) :
        documents \in SUBSET MCDocs, ds \in BoundedSeq(DocumentHints, 2)} \cup
    {Ask({}, collections, ds, cs, <<>>) : collections \in SUBSET MCCollections,
        ds \in BoundedSeq(DocumentHints, 1), cs \in BoundedSeq(CollectionHints, 1)} \cup
    {Ask({}, {}, ds, <<>>, hs) :
        ds \in BoundedSeq(DocumentHints, 1), hs \in BoundedSeq(HeadingHints, 2)}
MCMemberships ==
    {{}, {<<"h1", "k1">>, <<"h2", "k1">>}, {<<"h1", "k1">>, <<"h2", "k2">>, <<"h3", "k2">>}}

-------------------------------------------------------------------------------
(* Ranking: up to three and two hits of six chunks in two sections.              *)

Place(section, index, id, terms, at, hints) ==
    [section |-> section, index |-> index, id |-> id, terms |-> terms, at |-> at,
     hints |-> hints]
MCChunk ==
    <<Place("s", 0, 3, 0, 0, 0), Place("s", 1, 1, 1, 4, 0), Place("s", 2, 5, 0, 0, 1),
      Place("s", 3, 2, 0, 0, 0), Place("t", 4, 4, 2, 0, 0), Place("t", 5, 6, 1, 4, 1)>>
MCDense == Lists(1 .. 6, 3)
MCSparse == Lists({2, 3, 5, 6}, 2)
MCLosses == {{}, {2}}
MCLimits ==
    {[pool |-> 4, section |-> 2, radius |-> 1], [pool |-> 5, section |-> 3, radius |-> 2],
     [pool |-> 2, section |-> 1, radius |-> 0]}

-------------------------------------------------------------------------------
(* Evidence: up to four of six chunks and two pages, with equal and similar texts *)
(* and scores, wide limits and tight ones.                                        *)

Document(source, section, content, from, to, theme, terms, score, tokens) ==
    [type |-> "document", domain |-> "none", source |-> source, section |-> section,
     content |-> content, lexical |-> content, from |-> from, to |-> to, theme |-> theme,
     terms |-> terms, score |-> score, tokens |-> tokens]
Page(domain, content, theme, score, tokens) ==
    [type |-> "web", domain |-> domain, source |-> content, section |-> content,
     content |-> content, lexical |-> content, from |-> 0, to |-> 0, theme |-> theme,
     terms |-> {}, score |-> score, tokens |-> tokens]
MCCard ==
    [p1 |-> Document("d1", "s1", "c1", 0, 10, "x", {}, 90, 3),
     p2 |-> Document("d1", "s1", "c2", 1, 10, "y", {"t1"}, 80, 2),
     p3 |-> Document("d1", "s1", "c3", 0, 9, "z", {}, 70, 2),
     p4 |-> Document("d2", "s2", "c1", 0, 10, "x", {"t1"}, 60, 3),
     p5 |-> Document("d2", "s3", "c5", 0, 10, "v", {"t1", "t2"}, 50, 1),
     p6 |-> Document("d2", "s3", "c6", 20, 30, "y", {}, 80, 1),
     w1 |-> Page("a", "c7", "u", 90, 2),
     w2 |-> Page("a", "c8", "v", 40, 1)]
MCDocuments == Lists({"p1", "p2", "p3", "p4", "p5", "p6"}, 4)
MCWeb == Lists({"w1", "w2"}, 2)
MCSettings ==
    {[pool |-> 6, delta |-> 100, minimum |-> 0, candidates |-> 6, section |-> 2, source |-> 2,
      domain |-> 1, web |-> 2, tokens |-> 7],
     [pool |-> 4, delta |-> 30, minimum |-> 50, candidates |-> 2, section |-> 1, source |-> 6,
      domain |-> 2, web |-> 1, tokens |-> 4]}
MCThresholds == {[evidence |-> 2, top |-> 80, margin |-> 10, exact |-> 60]}
MCMissing == -1

-------------------------------------------------------------------------------
(* Reranker: three candidates of four are scored in two batches; one question is   *)
(* asked of two models, of two rankings of the same candidates, of other texts,     *)
(* and of none.                                                                     *)

Candidate(id, rank, text) == [id |-> id, rank |-> rank, text |-> text]
Four == {Candidate(1, 2, "x"), Candidate(2, 1, "y"), Candidate(3, 2, "z"), Candidate(4, 3, "x")}
Spread == {Candidate(1, 2, "x"), Candidate(2, 1, "y"), Candidate(3, 4, "z"), Candidate(4, 5, "x")}
Other == {Candidate(1, 2, "z"), Candidate(2, 1, "y"), Candidate(3, 2, "x")}
Rerank(query, revision, candidates) ==
    [query |-> query, revision |-> revision, candidates |-> candidates]
MCSearch ==
    [g1 |-> Rerank("q", 1, Four), g2 |-> Rerank("q", 2, Four), g3 |-> Rerank("q", 1, Spread),
     g4 |-> Rerank("q", 1, Other), g5 |-> Rerank("q", 1, {})]
MCScore ==
    [revision \in {1, 2} |-> [query \in {"q"} |->
        IF revision = 1 THEN [x |-> 70, y |-> 70, z |-> 90] ELSE [x |-> 70, y |-> 80, z |-> 100]]]

-------------------------------------------------------------------------------
(* Calibration: up to three observations with scores of up to four units.          *)

Observation(expected, top, margin, exact, evidence) ==
    [expected |-> expected, top |-> top, margin |-> margin, exact |-> exact,
     evidence |-> evidence]
Observed ==
    {Observation(expected, -1, -1, -1, 0) : expected \in BOOLEAN} \cup
    {Observation(expected, top, margin, exact, 2) :
        expected \in BOOLEAN, top \in {2, 3}, margin \in {1, 2}, exact \in {-1, 2}} \cup
    {Observation(expected, 4, 4, exact, 1) : expected \in BOOLEAN, exact \in {-1, 4}}
MCObservations ==
    BoundedSeq(Observed, 2) \cup
    {<<o, o, p>> : o \in {o \in Observed : o.exact = -1}, p \in Observed}
MCTargets == {[precision |-> 95, recall |-> 75], [precision |-> 40, recall |-> 100]}

================================================================================
