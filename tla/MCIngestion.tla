------------------------------ MODULE MCIngestion ------------------------------
(* Finite instances of Ingestion for TLC: a document with two versions and a   *)
(* document with one.                                                          *)
EXTENDS Ingestion, TLC

CONSTANTS a1, a2, b1, docA, docB, w1, w2

MCDocOf == [v \in Versions |-> IF v = b1 THEN docB ELSE docA]
MCNumber == [v \in Versions |-> IF v = a2 THEN 2 ELSE 1]
MCSymmetry == Permutations(Workers)

\* The state in which one version p has been uploaded, processed and activated as
\* generation 1 and nothing else has happened: the runs that start here spend their
\* states on what comes after a first publication.
Published(p) ==
    /\ activeGen = 1
    /\ revision = 2
    /\ document = [d \in Docs |->
          [active |-> IF d = DocOf[p] THEN p ELSE NoVersion, deleted |-> FALSE]]
    /\ version = [v \in Versions |->
          IF v = p THEN [status |-> "active", gen |-> 1] ELSE [status |-> "none", gen |-> NoGen]]
    /\ job = [v \in Versions |->
          IF v = p THEN [status |-> "succeeded", fresh |-> TRUE]
          ELSE [status |-> "none", fresh |-> FALSE]]
    /\ generation = [g \in Gens |->
          IF g = 1
          THEN [status |-> "active", parent |-> NoGen, revision |-> 2,
                changed |-> p, manifest |-> {p}]
          ELSE NoGeneration]
    /\ chunks = {p}
    /\ points = [v \in Versions |-> IF v = p THEN Batches ELSE {}]
    /\ files = {p}
    /\ api = [v \in Versions |-> IF v = p THEN "done" ELSE "none"]
    /\ queue = {}
    /\ worker = [w \in Workers |-> Idle]
    /\ todo = [w \in Workers |-> {}]
    /\ crashes = 0

SpecAfterB == Published(b1) /\ [][Next]_vars
FairSpecAfterB == SpecAfterB /\ Fairness
================================================================================
