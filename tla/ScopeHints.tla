------------------------------- MODULE ScopeHints -------------------------------
(***************************************************************************)
(* MetadataResolver.resolve: the scope that a question asks for explicitly *)
(* is narrowed by the hints that the planner found in its text.  Retrieval *)
(* models when the rows are read; here they are given, and the subject is  *)
(* which of them a list of hints leaves.                                   *)
(*                                                                         *)
(* A hint is known by how well it matches each target: 5 is its id, 4 and  *)
(* 3 a name (for a section its path and its heading, for others 3 only), 2 *)
(* and 1 are similar names, 2 the more similar, 0 is none.                 *)
(***************************************************************************)
EXTENDS Naturals, FiniteSets, Sequences, SequencesExt

CONSTANTS
    Docs, Collections,  \* in the manifest; of the tenant
    Sections,           \* of the versions in the manifest
    DocOf, Path,        \* the document of a section, and its headings from the root
    Questions,          \* [documents, collections: explicit sets of ids;
                        \*  documentHints, collectionHints, headingHints: sequences of hints]
    Memberships         \* sets of pairs of a document and a collection

VARIABLES
    question, member,
    step,
    allowed,            \* allowed_documents
    sections            \* hard_sections

vars == <<question, member, step, allowed, sections>>

Init ==
    /\ question \in Questions
    /\ member \in Memberships
    /\ step = "explicit"
    /\ allowed = Docs
    /\ sections = {}

DocumentsIn(collections) == {d \in Docs : \E c \in collections : <<d, c>> \in member}

\* The explicit ids, which all exist.
Start ==
    {d \in Docs :
        /\ question.documents # {} => d \in question.documents
        /\ question.collections # {} => d \in DocumentsIn(question.collections)}

-------------------------------------------------------------------------------
(* _resolve_document_hint, _resolve_collection_hint, _resolve_heading_hint *)

\* The targets a hint matches best.  Names are only matched if no id is, and similar names
\* only if no name is.
Best(hint, among) ==
    {x \in among : hint[x] > 0 /\ \A y \in among : hint[y] <= hint[x]}

\* exact_scope: one target has the id or the name.  Everything else is a boost.
Resolved(hint, among) ==
    LET best == Best(hint, among) IN
    IF Cardinality(best) = 1 /\ \A x \in best : hint[x] >= 3 THEN best ELSE {}

\* Mutant: every hint narrows what the next is resolved against.
ScopeInTurn(hints, among) ==
    LET Step(scope, hint) ==
            IF Resolved(hint, scope) = {} THEN scope ELSE Resolved(hint, scope)
        last == FoldLeft(Step, among, hints)
    IN  IF last = among THEN {} ELSE last

\* What the hints of a list name together: each is resolved against the same targets.
ScopeOf(hints, among) == UNION {Resolved(hints[i], among) : i \in DOMAIN hints}

\* _expand_section_descendants
Expanded(roots, among) ==
    {s \in among : \E r \in roots : DocOf[s] = DocOf[r] /\ IsPrefix(Path[r], Path[s])}

-------------------------------------------------------------------------------

Goto(from, to) == step = from /\ step' = to

Explicit ==
    /\ Goto("explicit", "documents")
    /\ allowed' = Start
    /\ UNCHANGED <<question, member, sections>>

NarrowByDocuments ==
    /\ Goto("documents", "collections")
    /\ LET scope == ScopeOf(question.documentHints, allowed) IN
          allowed' = IF scope = {} THEN allowed ELSE allowed \cap scope
    /\ UNCHANGED <<question, member, sections>>

\* All collections of the tenant are matched, those outside the scope too.
NarrowByCollections ==
    /\ Goto("collections", "headings")
    /\ LET scope == ScopeOf(question.collectionHints, Collections) IN
          allowed' = IF scope = {} THEN allowed ELSE allowed \cap DocumentsIn(scope)
    /\ UNCHANGED <<question, member, sections>>

PickSections ==
    /\ Goto("headings", "done")
    /\ LET among == {s \in Sections : DocOf[s] \in allowed} IN
          sections' = UNION {Expanded(Resolved(question.headingHints[i], among), among) :
                                i \in DOMAIN question.headingHints}
    /\ UNCHANGED <<question, member, allowed>>

Next == Explicit \/ NarrowByDocuments \/ NarrowByCollections \/ PickSections

Spec == Init /\ [][Next]_vars

-------------------------------------------------------------------------------
(* Properties *)

\* d is the one document of the explicit scope that a hint of the question names.
Named(d) ==
    \E i \in DOMAIN question.documentHints :
        LET hint == question.documentHints[i] IN
        /\ hint[d] >= 3
        /\ \A e \in Start \ {d} : hint[e] < hint[d]

\* Hints narrow a scope and never widen it; documents that are named stay, whatever else
\* the list of hints names and in whatever order, and by themselves hints for documents
\* leave nothing empty; the sections are those of documents that are left, with all below.
HintsNarrow ==
    step = "done" =>
        /\ allowed \subseteq Start
        /\ question.collectionHints = <<>> =>
              /\ Start # {} => allowed # {}
              /\ \A d \in Start :
                    (\E e \in Start : Named(e)) => (d \in allowed <=> Named(d))
        /\ \A s \in sections : DocOf[s] \in allowed
        /\ \A s \in sections, t \in Sections :
              DocOf[s] = DocOf[t] /\ IsPrefix(Path[s], Path[t]) => t \in sections
================================================================================
