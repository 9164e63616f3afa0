------------------------------- MODULE Catalogue -------------------------------
(***************************************************************************)
(* What ingestion promises to retrieval: per document at most one          *)
(* searchable version, replaced only by later versions of the same         *)
(* document, until the document is deleted; every change is one step with  *)
(* a new retrieval revision.                                               *)
(***************************************************************************)
EXTENDS Naturals

CONSTANTS Docs, Versions, DocOf, Number, NoVersion

VARIABLES
    shown,     \* shown[d]: the searchable version of d, or NoVersion
    gone,      \* the deleted documents
    revision   \* the tenant's retrieval revision

vars == <<shown, gone, revision>>

Init ==
    /\ shown = [d \in Docs |-> NoVersion]
    /\ gone = {}
    /\ revision = 1

\* A version becomes the searchable one of its document.
Publish(v) ==
    LET d == DocOf[v]
    IN  /\ d \notin gone
        /\ shown[d] # NoVersion => Number[shown[d]] < Number[v]
        /\ shown' = [shown EXCEPT ![d] = v]
        /\ revision' = revision + 1
        /\ UNCHANGED gone

\* A document leaves the catalogue.
Retire(d) ==
    /\ d \notin gone
    /\ shown' = [shown EXCEPT ![d] = NoVersion]
    /\ gone' = gone \cup {d}
    /\ revision' = revision + 1

\* Not a step of a catalogue: what is shown is published once more, under a new revision.
Again == UNCHANGED <<shown, gone>> /\ revision' = revision + 1

Next == (\E v \in Versions : Publish(v)) \/ (\E d \in Docs : Retire(d))

Spec == Init /\ [][Next]_vars
================================================================================
