--------------------------- MODULE GarbageCollection ---------------------------
(***************************************************************************)
(* The daily garbage collection of one tenant                              *)
(* (garbage_collect_inactive_versions in backend/app/ingest/reconcile.py), *)
(* running next to the ingestion pipeline.  It decides in one transaction, *)
(* then deletes points, files and rows in separate steps, and never looks  *)
(* at the decision again.                                                  *)
(***************************************************************************)
EXTENDS Ingestion

CONSTANTS
    Retained,    \* RETAINED_INDEX_GENERATIONS, at least 2 in config.py
    OldJobs      \* TRUE if a version past the retention period may have work left

ASSUME GarbageAssumption == Retained \in Nat \ {0} /\ OldJobs \in BOOLEAN

VARIABLES
    collected,   \* versions with garbage_collected_at
    sweep        \* the running collection: step, victims and files still to delete

gcVars == <<collected, sweep>>
allVars == <<vars, gcVars>>

NoSweep == [pc |-> "idle", victims |-> {}, left |-> {}]

GcInit == collected = {} /\ sweep = NoSweep

\* The latest Retained activated generations.
RetainedGens ==
    {g \in Gens :
        /\ generation[g].status = "active"
        /\ Cardinality({h \in Gens : /\ generation[h].status = "active"
                                     /\ generation[h].revision > generation[g].revision})
              < Retained}

\* Mutant: only the active manifest is spared.
ProtectedVisible == Visible

Protected ==
    UNION {generation[g].manifest : g \in RetainedGens}
        \cup {v \in Versions : version[v].status \in Pending \cup {"active"}}

\* Mutant: the status is not asked.
CandidatesAnyStatus ==
    {v \in Versions : version[v].status # "none"} \ (collected \cup Visible)

Candidates ==
    {v \in Versions : version[v].status \in {"failed", "superseded"}}
        \ (collected \cup Protected)

\* Something may still call process for this version.
HasWork(v) ==
    \/ v \in queue
    \/ api[v] \in {"accepted", "enqueued"}
    \/ \E w \in Workers : worker[w].job = v \/ v \in todo[w]

\* Versions created before the cutoff; later versions of a document are younger.
IsAgedSet(aged) ==
    /\ \A u, v \in Versions :
          v \in aged /\ DocOf[u] = DocOf[v] /\ Number[u] < Number[v] => u \in aged
    /\ OldJobs \/ \A v \in aged : ~HasWork(v)

\* First transaction: choose the victims.
Select ==
    /\ sweep.pc = "idle"
    /\ \E aged \in SUBSET Versions :
          /\ IsAgedSet(aged)
          /\ Candidates \cap aged # {}
          /\ sweep' = [pc |-> "points", victims |-> Candidates \cap aged,
                       left |-> Candidates \cap aged]
    /\ UNCHANGED <<vars, collected>>

\* index.delete_versions for all victims.
DeletePoints ==
    /\ sweep.pc = "points"
    /\ points' = [v \in Versions |-> IF v \in sweep.victims THEN {} ELSE points[v]]
    /\ sweep' = [sweep EXCEPT !.pc = "files"]
    /\ UNCHANGED <<catalogue, version, job, chunks, files, transport, worker, todo, crashes,
                   collected>>

\* storage.delete, one victim after the other.
DeleteFile(v) ==
    /\ sweep.pc = "files"
    /\ v \in sweep.left
    /\ files' = files \ {v}
    /\ sweep' = [sweep EXCEPT !.left = @ \ {v}]
    /\ UNCHANGED <<catalogue, version, job, chunks, points, transport, worker, todo, crashes,
                   collected>>

\* Second transaction: chunk and section rows go, the victims are stamped.
DeleteRows ==
    /\ sweep.pc = "files"
    /\ sweep.left = {}
    /\ chunks' = chunks \ sweep.victims
    /\ collected' = collected \cup sweep.victims
    /\ sweep' = NoSweep
    /\ UNCHANGED <<catalogue, version, job, points, files, transport, worker, todo, crashes>>

\* Qdrant, the file system or the process fails: the rest is left to a later run.
Abort ==
    /\ sweep.pc # "idle"
    /\ sweep' = NoSweep
    /\ UNCHANGED <<vars, collected>>

Collect ==
    \/ Select \/ DeletePoints \/ DeleteRows \/ Abort
    \/ \E v \in Versions : DeleteFile(v)

Pipeline == Next /\ UNCHANGED gcVars

GcNext == Pipeline \/ Collect

GcSpec == Init /\ GcInit /\ [][GcNext]_allVars

-------------------------------------------------------------------------------
(* Properties *)

\* Nobody looks at the victims again between the two transactions, so what is deleted
\* step by step must still be dead when its turn comes.
VictimsStayDead ==
    \A v \in sweep.victims : version[v].status \in {"failed", "superseded"}

\* A query that resolved its scope just before an activation still finds the points
\* and rows of every version in the retained manifests.
RetainedIsServable ==
    \A g \in RetainedGens : \A v \in generation[g].manifest :
        points[v] = Batches /\ v \in chunks /\ v \in files

\* A version that was collected is neither searchable nor about to be: nobody can
\* publish it without its raw file.
CollectedStaysDead ==
    \A v \in collected :
        /\ v \notin Visible
        /\ v \notin files
        /\ version[v].status \in {"failed", "superseded"}

\* garbage_collect_inactive_versions decides once and deletes step by step: what it deletes
\* is dead until the last step, and stays dead.
GarbageInv == VictimsStayDead /\ CollectedStaysDead
================================================================================
