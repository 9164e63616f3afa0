------------------------------- MODULE Calibration -------------------------------
(***************************************************************************)
(* sweep_thresholds, which chooses the thresholds of the confidence gate   *)
(* from labelled observations: every combination of values that occurred,  *)
(* and of those just above them, is tried, and the best one is kept.       *)
(* Scores are whole numbers of units of the rounding, up to One; the       *)
(* quotients are compared as fractions.                                    *)
(***************************************************************************)
EXTENDS Naturals, Integers, Sequences, FiniteSets, SequencesExt, FiniteSetsExt

CONSTANTS
    Observations,   \* the sequences of observations that may be given
    Targets,        \* of precision and recall, in hundredths
    One,            \* the highest score
    Missing         \* the score of something that is not there

VARIABLES
    observations, target,
    stage,
    chosen, metrics     \* the result

vars == <<observations, target, stage, chosen, metrics>>

Init ==
    /\ observations \in Observations
    /\ target \in Targets
    /\ stage = "given"
    /\ chosen = <<>> /\ metrics = <<>>

-------------------------------------------------------------------------------
(* gate_answer and the classification of all observations *)

GateAnswer(o, t) ==
    \/ o.exact # Missing /\ o.exact >= t.exact
    \/ /\ o.evidence >= t.evidence
       /\ o.top # Missing /\ o.top >= t.top
       /\ o.margin # Missing /\ o.margin >= t.margin

\* Precision, recall and F1 are fractions, 0 if there is nothing to divide by.
Fraction(n, d) == IF d = 0 THEN [n |-> 0, d |-> 1] ELSE [n |-> n, d |-> d]
Less(p, q) == p.n * q.d < q.n * p.d

Metrics(os, t) ==
    LET Count(predicted, expected) ==
            Cardinality({i \in DOMAIN os : /\ GateAnswer(os[i], t) = predicted
                                           /\ os[i].expected = expected})
        tp == Count(TRUE, TRUE)
        fp == Count(TRUE, FALSE)
        fn == Count(FALSE, TRUE)
    IN  [precision |-> Fraction(tp, tp + fp), recall |-> Fraction(tp, tp + fn),
         f1 |-> Fraction(2 * tp, 2 * tp + fp + fn)]

-------------------------------------------------------------------------------
(* sweep_thresholds *)

\* _score_candidates: the ends, what was observed, and the next value above it.
ScoreCandidates(values) ==
    {0, One} \cup values \cup {IF v < One THEN v + 1 ELSE One : v \in values}

Observed(Field(_)) == {Field(observations[i]) : i \in DOMAIN observations} \ {Missing}

Most == Max({observations[i].evidence : i \in DOMAIN observations})

\* Mutant: the range ends before the largest count.
EvidenceBelow == IF Most > 12 THEN 12 ELSE IF Most < 2 THEN 1 ELSE Most - 1

MaxEvidence == IF Most > 12 THEN 12 ELSE IF Most < 1 THEN 1 ELSE Most

Combinations ==
    [top : ScoreCandidates(Observed(LAMBDA o : o.top)),
     margin : ScoreCandidates(Observed(LAMBDA o : o.margin)),
     exact : ScoreCandidates(Observed(LAMBDA o : o.exact)),
     evidence : 1 .. MaxEvidence]

Met(m) ==
    /\ ~Less(m.precision, [n |-> target.precision, d |-> 100])
    /\ ~Less(m.recall, [n |-> target.recall, d |-> 100])

\* The comparison of what the code compares as tuples: -1, 0 or 1.
Compare(a, b) == IF a < b THEN -1 ELSE IF a > b THEN 1 ELSE 0
CompareFractions(p, q) == Compare(p.n * q.d, q.n * p.d)
FirstDifference(s) ==
    LET k == SelectInSeq(s, LAMBDA x : x # 0) IN IF k = 0 THEN 0 ELSE s[k]

\* Whether metrics m are better than n; and whether thresholds s are preferred to t, of which
\* the metrics are known: first for how they classify, then as the stricter ones.
MetricsOrder(m, n) ==
    FirstDifference(<<Compare(IF Met(m) THEN 1 ELSE 0, IF Met(n) THEN 1 ELSE 0),
                      CompareFractions(m.f1, n.f1),
                      CompareFractions(m.precision, n.precision),
                      CompareFractions(m.recall, n.recall)>>)
Better(s, t, of) ==
    FirstDifference(<<MetricsOrder(of[s], of[t]),
                      Compare(s.top + s.margin + s.exact, t.top + t.margin + t.exact),
                      Compare(s.evidence, t.evidence)>>) = 1

\* The order of the loops, in which the first of equals is kept.
Earlier(s, t) ==
    FirstDifference(<<Compare(s.top, t.top), Compare(s.margin, t.margin),
                      Compare(s.exact, t.exact)>>) = -1

Best ==
    LET of == [t \in Combinations |-> Metrics(observations, t)]
    IN  CHOOSE s \in Combinations : \A t \in Combinations \ {s} :
            Better(s, t, of) \/ (~Better(t, s, of) /\ Earlier(s, t))

\* Without an observation that should be answered there is nothing to calibrate.
Refuse ==
    /\ stage = "given" /\ \A i \in DOMAIN observations : ~observations[i].expected
    /\ stage' = "refused"
    /\ UNCHANGED <<observations, target, chosen, metrics>>

Sweep ==
    /\ stage = "given" /\ \E i \in DOMAIN observations : observations[i].expected
    /\ stage' = "chosen"
    /\ chosen' = Best /\ metrics' = Metrics(observations, Best)
    /\ UNCHANGED <<observations, target>>

Next == Refuse \/ Sweep

Spec == Init /\ [][Next]_vars

-------------------------------------------------------------------------------
(* Properties *)

\* Legal thresholds: those that ask for still more evidence are no different.
PossibleThresholds == [top : 0..One, margin : 0..One, exact : 0..One, evidence : 1 .. Most + 1]

\* Scores that no threshold excludes but one on the evidence.
Certain == \E i \in DOMAIN observations : observations[i].top = One /\ observations[i].margin = One

\* The grid is fine enough: of all thresholds a gate may be given, not only of those that
\* were tried, none meets the targets if the chosen ones do not, and none classifies the
\* observations better; except that the grid never asks for more evidence than there was.
NothingBetter ==
    stage = "chosen" =>
        \A t \in PossibleThresholds :
            \/ t.evidence > Most /\ Certain
            \/ MetricsOrder(Metrics(observations, t), metrics) # 1
================================================================================
