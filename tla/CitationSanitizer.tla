--------------------------- MODULE CitationSanitizer ---------------------------
(***************************************************************************)
(* How the citations of one streamed answer are cleaned: CitationStream-   *)
(* Sanitizer of chat/citations.py and the part of ChatCoordinator.events   *)
(* that feeds it.  The model's output comes in pieces cut anywhere; only   *)
(* complete markers "[S<digits>]" of a packed source may reach the client. *)
(* The end of the stream repairs the whole text, and replaces what was     *)
(* streamed if the two differ.  A text is a sequence of characters; the    *)
(* squeezing of blanks is left out.                                        *)
(***************************************************************************)
EXTENDS Naturals, Sequences, FiniteSets, Ordering

CONSTANTS
    Texts,      \* what the model may generate
    Sources,    \* the digits of the packed sources' ids
    NoAnswer    \* the fixed text of an answer that is not given

VARIABLES
    text,       \* the whole output of the model
    grounded,   \* the question is about the documents
    fed,        \* characters of it that have arrived
    pending,    \* _pending
    streamed,   \* _emitted_parts
    shown,      \* the deltas sent to the client, or the last replace
    outcome     \* the text that is stored; empty until then

vars == <<text, grounded, fed, pending, streamed, shown, outcome>>

Init ==
    /\ text \in Texts
    /\ grounded \in BOOLEAN
    /\ fed = 0
    /\ pending = <<>> /\ streamed = <<>> /\ shown = <<>>
    /\ outcome = <<>>

-------------------------------------------------------------------------------
(* Markers, as the pairs of positions where they begin and end; no two of them overlap. *)

Digits == {"0", "1", "2", "3", "4", "5", "6", "7", "8", "9"}

Markers(t) ==
    {m \in (1 .. Len(t)) \X (1 .. Len(t)) :
        /\ m[1] + 2 < m[2]
        /\ t[m[1]] = "[" /\ t[m[1] + 1] = "S" /\ t[m[2]] = "]"
        /\ \A k \in m[1] + 2 .. m[2] - 1 : t[k] \in Digits}

Id(t, m) == SubSeq(t, m[1] + 2, m[2] - 1)

Without(t, cut) ==
    LET kept == Ordered(DOMAIN t \ cut, LAMBDA i, j : i < j)
    IN  [k \in DOMAIN kept |-> t[kept[k]]]

\* A conversation may cite nothing.
Allowlist == IF grounded THEN Sources ELSE {}

\* Mutant: the first digit decides.
ForeignByFirstDigit(t) == {m \in Markers(t) : SubSeq(Id(t, m), 1, 1) \notin Allowlist}

Foreign(t) == {m \in Markers(t) : Id(t, m) \notin Allowlist}

Allowed(t) == Without(t, UNION {m[1] .. m[2] : m \in Foreign(t)})

\* Where the unfinished marker begins that t ends with: "[" or "[S<digits>".
HeldFrom(t) ==
    LET unfinished == {i \in DOMAIN t :
            /\ t[i] = "["
            /\ i < Len(t) => t[i + 1] = "S"
            /\ \A k \in i + 2 .. Len(t) : t[k] \in Digits}
    IN  IF unfinished = {} THEN Len(t) + 1 ELSE CHOOSE i \in unfinished : TRUE

Before(t) == SubSeq(t, 1, HeldFrom(t) - 1)
Held(t) == SubSeq(t, HeldFrom(t), Len(t))

\* An unfinished marker, but not a single bracket.
Trimmed(t) == IF HeldFrom(t) < Len(t) THEN Before(t) ELSE t

\* A marker that follows the same marker, with nothing but blanks between.
Collapsed(t) ==
    Without(t, UNION {twice[1][2] + 1 .. twice[2][2] : twice \in
        {p \in Markers(t) \X Markers(t) :
            /\ p[1][2] < p[2][1]
            /\ Id(t, p[1]) = Id(t, p[2])
            /\ \A k \in p[1][2] + 1 .. p[2][1] - 1 : t[k] = " "}})

\* _repair_complete_answer
Repaired(t) == Collapsed(Trimmed(Allowed(t)))

\* _ordered_source_ids
Cited(t) == {Id(t, m) : m \in {n \in Markers(t) : t[n[1] + 2] # "0"}}

-------------------------------------------------------------------------------

\* feed: n more characters arrive, and what is not held back is sent.
Feed(n) ==
    /\ outcome = <<>> /\ fed + n <= Len(text)
    /\ LET value == pending \o SubSeq(text, fed + 1, fed + n) IN
          /\ streamed' = streamed \o Allowed(Before(value))
          /\ shown' = shown \o Allowed(Before(value))
          /\ pending' = Held(value)
    /\ fed' = fed + n
    /\ UNCHANGED <<text, grounded, outcome>>

\* The text that is stored: the repaired one, unless it is empty or cites nothing.
Final ==
    LET repaired == Repaired(text) IN
    IF repaired = <<>> \/ (grounded /\ Cited(repaired) = {}) THEN NoAnswer ELSE repaired

\* finish: the rest joins the emitted parts, and if they differ from the final text the
\* client is sent a replace.
Finish ==
    /\ outcome = <<>> /\ fed = Len(text)
    /\ streamed' = streamed \o (IF Len(pending) = 1 THEN pending ELSE <<>>)
    /\ pending' = <<>>
    /\ outcome' = Final
    /\ shown' = IF Final # streamed' THEN Final ELSE shown
    /\ UNCHANGED <<text, grounded, fed>>

Next == Finish \/ \E n \in 1 .. Len(text) - fed : Feed(n)

Spec == Init /\ [][Next]_vars

-------------------------------------------------------------------------------
(* Properties *)

\* Where the output is cut into pieces makes no difference: what has been streamed is
\* what the text so far, taken at once, allows.
SplitIndependent ==
    LET sofar == SubSeq(text, 1, fed) IN
    outcome = <<>> =>
        /\ streamed = Allowed(Before(sofar))
        /\ pending = Held(sofar)

\* Removing a foreign marker from inside an unfinished one leaves a marker.
Reopens(t) == \E m \in Foreign(t) : HeldFrom(SubSeq(t, 1, m[1] - 1)) < m[1]

\* The markers of a stored answer are the sources that the model cited, all of them and
\* no others, unless a foreign marker stood inside another.
CitationsAreSources ==
    outcome \notin {<<>>, NoAnswer} /\ ~Reopens(text) =>
        {Id(outcome, m) : m \in Markers(outcome)}
            = {Id(text, m) : m \in Markers(text)} \cap Allowlist

\* feed and finish: the pieces change nothing, and what is left cites sources.
CitationsSound == SplitIndependent /\ CitationsAreSources

\* docs/p8-generation.md:91: the stored text is exactly the client's, after a replace.
StoredIsShown == outcome # <<>> => shown = outcome
================================================================================
