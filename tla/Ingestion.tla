------------------------------- MODULE Ingestion -------------------------------
(***************************************************************************)
(* The ingestion pipeline of one tenant: uploads and reindex requests that *)
(* stage a version, the ARQ queue, the worker coroutines that run          *)
(* IngestionPipeline.process (backend/app/ingest/jobs.py) for queued or    *)
(* reconciled jobs, and the deletion of a document                         *)
(* (backend/app/ingest/reconcile.py).                                      *)
(*                                                                         *)
(* A database transaction is one action.  Where the code reads a row       *)
(* before it locks it and then trusts the object it read, the read and the *)
(* transaction are two actions, and Races says whether another transaction *)
(* may commit between the two.                                             *)
(***************************************************************************)
EXTENDS Naturals, FiniteSets

CONSTANTS
    Docs,        \* documents of the tenant
    Versions,    \* every version that may be uploaded; one job per version
    DocOf,       \* the document of a version
    Number,      \* the version number, unique within its document
    Workers,     \* coroutines of the worker process (WorkerSettings.max_jobs)
    NBatches,    \* embedding batches of a version
    MaxGens,     \* bound: index generations that can be created
    MaxCrashes,  \* bound: cancelled or killed worker coroutines
    Races,       \* the timing accidents that may happen, see AllRaces
    NoVersion    \* NULL in documents.active_version_id

(***************************************************************************)
(* The accidents.                                                          *)
(*   stale_start    a commit falls between _start's first read of the job  *)
(*                  and its locked read, which returns the same ORM object *)
(*   stale_fail     the same in _mark_failed                               *)
(*   stale_enqueue  the worker claims the job before _enqueue_durably      *)
(*                  writes "queued" through the object the request created *)
(*   late_heartbeat a live worker's lease goes stale                       *)
(*   claim_error    _start itself raises, and process calls _mark_failed   *)
(***************************************************************************)
AllRaces ==
    {"stale_start", "stale_fail", "stale_enqueue", "late_heartbeat", "claim_error"}

NoGen == 0
Gens == 1 .. MaxGens
Batches == 1 .. NBatches

ASSUME ConstantsAssumption ==
    /\ DocOf \in [Versions -> Docs]
    /\ Number \in [Versions -> Nat \ {0}]
    /\ \A u, v \in Versions :
          DocOf[u] = DocOf[v] /\ Number[u] = Number[v] => u = v
    /\ NoVersion \notin Versions
    /\ NBatches \in Nat \ {0}
    /\ MaxGens \in Nat
    /\ MaxCrashes \in Nat
    /\ Races \subseteq AllRaces

VARIABLES
    activeGen,   \* tenants.active_index_generation_id
    revision,    \* tenants.retrieval_revision
    document,    \* document[d]: active_version_id and deleted_at
    version,     \* version[v]: status and index_generation_id
    job,         \* job[v]: status and whether its heartbeat is within the lease
    generation,  \* generation[g]: status, parent, revision, changed version, manifest
    chunks,      \* versions whose Section and Chunk rows exist
    points,      \* points[v]: the batches of v present in Qdrant
    files,       \* versions whose raw file exists
    api,         \* api[v]: where the accepting request stands with the queue
    queue,       \* jobs in the ARQ queue
    worker,      \* worker[w]: the call of process that w runs
    todo,        \* todo[w]: rest of the job list of w's reconciliation
    crashes      \* worker coroutines lost so far

catalogue == <<activeGen, revision, document, generation>>
payload == <<chunks, points, files>>
transport == <<api, queue>>
vars == <<catalogue, version, job, payload, transport, worker, todo, crashes>>

VersionStatus ==
    {"none", "staged", "processing", "ready", "active", "failed", "superseded"}
JobStatus == {"none", "staged", "queued", "processing", "succeeded", "failed"}
GenStatus == {"none", "preparing", "active", "failed"}

DocumentRow == [active : Versions \cup {NoVersion}, deleted : BOOLEAN]
VersionRow == [status : VersionStatus, gen : Gens \cup {NoGen}]
JobRow == [status : JobStatus, fresh : BOOLEAN]
GenerationRow ==
    [status : GenStatus, parent : Gens \cup {NoGen}, revision : Nat,
     changed : Versions \cup {NoVersion}, manifest : SUBSET Versions]

\* What the preliminary reads of _start and _mark_failed bring into the session.
Seen == [job : JobStatus, fresh : BOOLEAN, version : VersionStatus]

Running == {"parse", "clear", "embed", "validate", "ready", "activate"}
WorkerState ==
    [pc : {"idle", "claim", "failing"} \cup Running,
     job : Versions \cup {NoVersion},
     arq : BOOLEAN,
     gen : Gens \cup {NoGen},
     sent : 0 .. NBatches,
     seen : Seen]

NotSeen == [job |-> "none", fresh |-> FALSE, version |-> "none"]
Idle ==
    [pc |-> "idle", job |-> NoVersion, arq |-> FALSE,
     gen |-> NoGen, sent |-> 0, seen |-> NotSeen]
NoGeneration ==
    [status |-> "none", parent |-> NoGen, revision |-> 0, changed |-> NoVersion,
     manifest |-> {}]

Init ==
    /\ activeGen = NoGen
    /\ revision = 1
    /\ document = [d \in Docs |-> [active |-> NoVersion, deleted |-> FALSE]]
    /\ version = [v \in Versions |-> [status |-> "none", gen |-> NoGen]]
    /\ job = [v \in Versions |-> [status |-> "none", fresh |-> FALSE]]
    /\ generation = [g \in Gens |-> NoGeneration]
    /\ chunks = {}
    /\ points = [v \in Versions |-> {}]
    /\ files = {}
    /\ api = [v \in Versions |-> "none"]
    /\ queue = {}
    /\ worker = [w \in Workers |-> Idle]
    /\ todo = [w \in Workers |-> {}]
    /\ crashes = 0

-------------------------------------------------------------------------------
(* Requests *)

Existing(d) == {v \in Versions : DocOf[v] = d /\ version[v].status # "none"}

\* The next free version number of its document, computed under the tenant lock.
IsNextVersion(v) ==
    /\ version[v].status = "none"
    /\ \A u \in Existing(DocOf[v]) : Number[u] < Number[v]
    /\ \A u \in Versions :
          DocOf[u] = DocOf[v] /\ Number[u] < Number[v] => u \in Existing(DocOf[v])

\* Rows and raw file of a new version; the file is moved into place before the
\* commit, under the tenant lock.
Stage(v) ==
    /\ version' = [version EXCEPT ![v].status = "staged"]
    /\ job' = [job EXCEPT ![v].status = "staged"]
    /\ files' = files \cup {v}
    /\ api' = [api EXCEPT ![v] = "accepted"]
    /\ UNCHANGED <<catalogue, chunks, points, queue, worker, todo, crashes>>

\* POST /api/documents: a new document, or a new version of a live one.
Upload(v) ==
    /\ IsNextVersion(v)
    /\ ~document[DocOf[v]].deleted
    /\ Stage(v)

\* POST /api/documents/{id}/reindex: a new version from the active raw file.
Reindex(v) ==
    /\ IsNextVersion(v)
    /\ ~document[DocOf[v]].deleted
    /\ document[DocOf[v]].active # NoVersion
    /\ document[DocOf[v]].active \in files
    /\ Stage(v)

\* _enqueue_durably, first half: the ARQ entry exists from here on.
Enqueue(v) ==
    /\ api[v] = "accepted"
    /\ api' = [api EXCEPT ![v] = "enqueued"]
    /\ queue' = queue \cup {v}
    /\ UNCHANGED <<catalogue, version, job, payload, worker, todo, crashes>>

\* The request's session still holds the job it created, so the status it tests
\* is the "staged" it wrote itself, whatever the row says by now.
SeenByRequest(v) == IF "stale_enqueue" \in Races THEN "staged" ELSE job[v].status

\* _enqueue_durably, second half: record the ARQ id and mark the job queued.
RecordQueued(v) ==
    /\ api[v] = "enqueued"
    /\ api' = [api EXCEPT ![v] = "done"]
    /\ job' = IF SeenByRequest(v) = "staged"
              THEN [job EXCEPT ![v] = [status |-> "queued", fresh |-> TRUE]]
              ELSE job
    /\ UNCHANGED <<catalogue, version, payload, queue, worker, todo, crashes>>

\* Redis is unreachable, or the API process dies: the job stays as it is.
RequestGivesUp(v) ==
    /\ api[v] \in {"accepted", "enqueued"}
    /\ api' = [api EXCEPT ![v] = "done"]
    /\ UNCHANGED <<catalogue, version, job, payload, queue, worker, todo, crashes>>

-------------------------------------------------------------------------------
(* Index generations *)

\* Rows of the source manifest except the changed document's own.
CopyManifest(g, d) ==
    IF g = NoGen THEN {} ELSE {u \in generation[g].manifest : DocOf[u] # d}

\* The autoincremented id of the generation an action may create.
IsNewGen(g) ==
    /\ generation[g].status = "none"
    /\ \A h \in Gens : h < g => generation[h].status # "none"

Pending == {"staged", "processing", "ready"}

\* tombstone_document: fail what is pending, publish a manifest without d.
Tombstone(d) ==
    LET doomed == {v \in Existing(d) : version[v].status \in Pending}
        current == document[d].active
    IN  /\ Existing(d) # {}
        /\ ~document[d].deleted
        /\ \E g \in Gens :
              /\ IsNewGen(g)
              /\ generation' =
                    [h \in Gens |->
                        IF h = g
                        THEN [status |-> "active", parent |-> activeGen,
                              revision |-> revision + 1, changed |-> NoVersion,
                              manifest |-> CopyManifest(activeGen, d)]
                        ELSE IF /\ generation[h].changed \in doomed
                                /\ generation[h].status = "preparing"
                        THEN [generation[h] EXCEPT !.status = "failed"]
                        ELSE generation[h]]
              /\ activeGen' = g
        /\ revision' = revision + 1
        /\ document' = [document EXCEPT ![d] = [active |-> NoVersion, deleted |-> TRUE]]
        /\ version' =
              [v \in Versions |->
                  IF v \in doomed THEN [version[v] EXCEPT !.status = "failed"]
                  ELSE IF v = current THEN [version[v] EXCEPT !.status = "superseded"]
                  ELSE version[v]]
        /\ job' = [v \in Versions |->
                      IF v \in doomed THEN [job[v] EXCEPT !.status = "failed"] ELSE job[v]]
        /\ UNCHANGED <<payload, transport, worker, todo, crashes>>

-------------------------------------------------------------------------------
(* Taking a job *)

Claimed(w, v, arq) ==
    [Idle EXCEPT !.pc = "claim", !.job = v, !.arq = arq,
                 !.seen = IF "stale_start" \in Races
                          THEN [job |-> job[v].status, fresh |-> job[v].fresh,
                                version |-> version[v].status]
                          ELSE NotSeen]

\* ARQ hands an entry to one coroutine at a time.
Deliver(w, v) ==
    /\ worker[w].pc = "idle"
    /\ todo[w] = {}
    /\ v \in queue
    /\ \A x \in Workers : ~(worker[x].arq /\ worker[x].job = v)
    /\ worker' = [worker EXCEPT ![w] = Claimed(w, v, TRUE)]
    /\ UNCHANGED <<catalogue, version, job, payload, transport, todo, crashes>>

\* Mutant: stale leases are not looked for.
ReconcilableWithoutStale == {v \in Versions : job[v].status \in {"staged", "queued"}}

Reconcilable ==
    {v \in Versions : \/ job[v].status \in {"staged", "queued"}
                      \/ job[v].status = "processing" /\ ~job[v].fresh}

\* reconcile_ingestion_jobs: the list is read once and then worked through.
ListJobs(w) ==
    /\ worker[w].pc = "idle"
    /\ todo[w] = {}
    /\ Reconcilable # {}
    /\ todo' = [todo EXCEPT ![w] = Reconcilable]
    /\ UNCHANGED <<catalogue, version, job, payload, transport, worker, crashes>>

NextListed(w, v) ==
    /\ worker[w].pc = "idle"
    /\ v \in todo[w]
    /\ todo' = [todo EXCEPT ![w] = @ \ {v}]
    /\ worker' = [worker EXCEPT ![w] = Claimed(w, v, FALSE)]
    /\ UNCHANGED <<catalogue, version, job, payload, transport, crashes>>

\* process returns or re-raises: the coroutine is free and its ARQ entry is gone.
Finish(w) ==
    /\ worker' = [worker EXCEPT ![w] = Idle]
    /\ queue' = IF worker[w].arq THEN queue \ {worker[w].job} ELSE queue

Goto(w, pc) == worker' = [worker EXCEPT ![w].pc = pc]

\* What _start's locked read returns: the objects of the unlocked read.
SeenAtStart(w) ==
    IF "stale_start" \in Races
    THEN worker[w].seen
    ELSE [job |-> job[worker[w].job].status, fresh |-> job[worker[w].job].fresh,
          version |-> version[worker[w].job].status]

\* Mutant: a fresh lease is not respected.
TakenIgnoringLease(seen) == seen.job = "succeeded"

\* Mutant: a finished job is not declined.
TakenWhileFresh(seen) == seen.job = "processing" /\ seen.fresh

Taken(seen) == seen.job = "succeeded" \/ (seen.job = "processing" /\ seen.fresh)

\* _start returns None.
StartDeclined(w) ==
    /\ worker[w].pc = "claim"
    /\ Taken(SeenAtStart(w))
    /\ Finish(w)
    /\ UNCHANGED <<catalogue, version, job, payload, api, todo, crashes>>

\* _start takes the lease.  Only the columns that differ from what was read are
\* written back.
Start(w) ==
    LET v == worker[w].job
        seen == SeenAtStart(w)
    IN  /\ worker[w].pc = "claim"
        /\ ~Taken(seen)
        /\ job' = [job EXCEPT
              ![v] = [status |-> IF seen.job = "processing" THEN @.status ELSE "processing",
                      fresh |-> TRUE]]
        /\ version' = [version EXCEPT
              ![v].status = IF seen.version = "processing" THEN @ ELSE "processing"]
        /\ worker' = [worker EXCEPT ![w].pc = "parse", ![w].seen = NotSeen]
        /\ UNCHANGED <<catalogue, payload, transport, todo, crashes>>

-------------------------------------------------------------------------------
(* Processing *)

\* parse_document, build_sections, chunk_blocks and _persist_staged_content: the
\* rows of the version are replaced and its preparing generation is created or
\* refreshed from the tenant's active manifest.
Persist(w) ==
    LET v == worker[w].job
        preparing == {h \in Gens : /\ generation[h].changed = v
                                   /\ generation[h].status = "preparing"}
    IN  /\ worker[w].pc = "parse"
        /\ v \in files
        /\ \E g \in Gens :
              /\ IF preparing = {} THEN IsNewGen(g)
                 ELSE g \in preparing /\ \A h \in preparing : h <= g
              /\ generation' = [generation EXCEPT ![g] =
                    [status |-> "preparing", parent |-> activeGen,
                     revision |-> revision + 1, changed |-> v,
                     manifest |-> CopyManifest(activeGen, DocOf[v]) \cup {v}]]
              /\ version' = [version EXCEPT ![v] = [status |-> "processing", gen |-> g]]
              /\ worker' = [worker EXCEPT ![w].pc = "clear", ![w].gen = g]
        /\ chunks' = chunks \cup {v}
        /\ job' = [job EXCEPT ![v].fresh = TRUE]
        /\ UNCHANGED <<activeGen, revision, document, points, files, transport, todo, crashes>>

\* index.delete_versions before the first batch.
ClearPoints(w) ==
    /\ worker[w].pc = "clear"
    /\ points' = [points EXCEPT ![worker[w].job] = {}]
    /\ Goto(w, "embed")
    /\ UNCHANGED <<catalogue, version, job, chunks, files, transport, todo, crashes>>

Beat(v) == [job EXCEPT ![v].fresh = @ \/ job[v].status = "processing"]

\* Mutant: one batch too many.
UpsertTooMany(w) ==
    LET v == worker[w].job
        batch == worker[w].sent + 1
    IN  /\ worker[w].pc = "embed"
        /\ points' = [points EXCEPT ![v] = @ \cup {batch}]
        /\ job' = Beat(v)
        /\ worker' = [worker EXCEPT
              ![w].sent = batch, ![w].pc = IF batch > NBatches THEN "validate" ELSE "embed"]
        /\ UNCHANGED <<catalogue, version, chunks, files, transport, todo, crashes>>

\* One batch is embedded and upserted, then _heartbeat.
Upsert(w) ==
    LET v == worker[w].job
        batch == worker[w].sent + 1
    IN  /\ worker[w].pc = "embed"
        /\ points' = [points EXCEPT ![v] = @ \cup {batch}]
        /\ job' = Beat(v)
        /\ worker' = [worker EXCEPT
              ![w].sent = batch, ![w].pc = IF batch = NBatches THEN "validate" ELSE "embed"]
        /\ UNCHANGED <<catalogue, version, chunks, files, transport, todo, crashes>>

\* index.validate_version: exact point count of the version.
Validate(w) ==
    /\ worker[w].pc = "validate"
    /\ points[worker[w].job] = Batches
    /\ Goto(w, "ready")
    /\ UNCHANGED <<catalogue, version, job, payload, transport, todo, crashes>>

ValidateFails(w) ==
    /\ worker[w].pc = "validate"
    /\ points[worker[w].job] # Batches
    /\ Goto(w, "failing")
    /\ UNCHANGED <<catalogue, version, job, payload, transport, todo, crashes>>

\* Mutant: the status is not looked at again.
NeverDone(v) == FALSE

\* Another worker has finished the job.
Done(v) == job[v].status = "succeeded"

\* _mark_ready: nothing is changed once the job is done.
MarkReady(w) ==
    LET v == worker[w].job
    IN  /\ worker[w].pc = "ready"
        /\ version' = IF Done(v) THEN version ELSE [version EXCEPT ![v].status = "ready"]
        /\ job' = IF Done(v) THEN job ELSE [job EXCEPT ![v].fresh = TRUE]
        /\ Goto(w, "activate")
        /\ UNCHANGED <<catalogue, payload, transport, todo, crashes>>

\* Mutant: versions may go back.
NothingIsNewer(v) == FALSE

NewerIsActive(v) ==
    LET current == document[DocOf[v]].active
    IN  current \notin {NoVersion, v} /\ Number[current] > Number[v]

\* Mutant: deleted_at is not checked.
RefusedForNewer(v) == NewerIsActive(v)

\* The document is gone, or a newer version is active.
Refused(v) == document[DocOf[v]].deleted \/ NewerIsActive(v)

\* _activate returns early.
ActivateDone(w) ==
    /\ worker[w].pc = "activate"
    /\ Done(worker[w].job)
    /\ Finish(w)
    /\ UNCHANGED <<catalogue, version, job, payload, api, todo, crashes>>

\* _activate raises.
ActivateRefused(w) ==
    LET v == worker[w].job
    IN  /\ worker[w].pc = "activate"
        /\ ~Done(v)
        /\ Refused(v)
        /\ Goto(w, "failing")
        /\ UNCHANGED <<catalogue, version, job, payload, transport, todo, crashes>>

\* Mutant: no rebase.
PreparedManifest(g, v) == generation[g].manifest

\* The manifest a generation is activated with.  A rebase deletes the rows of g
\* before it copies those of the active generation.
ActivatedManifest(g, v) ==
    IF generation[g].parent = activeGen THEN generation[g].manifest
    ELSE (IF g = activeGen THEN {} ELSE CopyManifest(activeGen, DocOf[v])) \cup {v}

\* _activate: one transaction moves the tenant, document, version, generation
\* and job together.
Activate(w) ==
    LET v == worker[w].job
        d == DocOf[v]
        g == worker[w].gen
        previous == document[d].active
    IN  /\ worker[w].pc = "activate"
        /\ ~Done(v)
        /\ ~Refused(v)
        /\ generation' = [generation EXCEPT
              ![g].status = "active", ![g].parent = activeGen, ![g].revision = revision + 1,
              ![g].manifest = ActivatedManifest(g, v)]
        /\ activeGen' = g
        /\ revision' = revision + 1
        /\ document' = [document EXCEPT ![d].active = v]
        /\ version' =
              [u \in Versions |->
                  IF u = v THEN [version[v] EXCEPT !.status = "active"]
                  ELSE IF u = previous THEN [version[u] EXCEPT !.status = "superseded"]
                  ELSE version[u]]
        /\ job' = [job EXCEPT ![v] = [status |-> "succeeded", fresh |-> TRUE]]
        /\ Finish(w)
        /\ UNCHANGED <<payload, api, todo, crashes>>

-------------------------------------------------------------------------------
(* Failure, lease and crash *)

\* Any step may raise: storage, parser, embedder, Qdrant or the database.
StepFails(w) ==
    /\ \/ worker[w].pc \in Running
       \/ worker[w].pc = "claim" /\ "claim_error" \in Races
    /\ worker' = [worker EXCEPT ![w].pc = "failing", ![w].seen = NotSeen]
    /\ UNCHANGED <<catalogue, version, job, payload, transport, todo, crashes>>

\* _mark_failed, unlocked read: a succeeded job is left alone.
FailureIgnored(w) ==
    /\ worker[w].pc = "failing"
    /\ worker[w].seen = NotSeen
    /\ job[worker[w].job].status = "succeeded"
    /\ Finish(w)
    /\ UNCHANGED <<catalogue, version, job, payload, api, todo, crashes>>

\* _mark_failed, unlocked read, when another transaction may follow it.
ReadBeforeFail(w) ==
    LET v == worker[w].job
    IN  /\ "stale_fail" \in Races
        /\ worker[w].pc = "failing"
        /\ worker[w].seen = NotSeen
        /\ job[v].status # "succeeded"
        /\ worker' = [worker EXCEPT
              ![w].seen = [NotSeen EXCEPT !.job = job[v].status]]
        /\ UNCHANGED <<catalogue, version, job, payload, transport, todo, crashes>>

FailsIn(status) == status \notin {"none", "succeeded"}

\* _mark_failed, locked part: job, version and preparing generation fail.
MarkFailed(w) ==
    LET v == worker[w].job
        g == version[v].gen
        seen == IF "stale_fail" \in Races THEN worker[w].seen.job ELSE job[v].status
    IN  /\ worker[w].pc = "failing"
        /\ FailsIn(seen)
        /\ job' = [job EXCEPT
              ![v] = [status |-> IF seen = "failed" THEN @.status ELSE "failed", fresh |-> TRUE]]
        /\ version' = IF version[v].status = "active" THEN version
                      ELSE [version EXCEPT ![v].status = "failed"]
        /\ generation' =
              IF /\ version[v].status # "active"
                 /\ g # NoGen
                 /\ generation[g].status = "preparing"
              THEN [generation EXCEPT ![g].status = "failed"]
              ELSE generation
        /\ Finish(w)
        /\ UNCHANGED <<activeGen, revision, document, payload, api, todo, crashes>>

\* The lease of a job lapses once nobody refreshes it.
LeaseExpires(v) ==
    /\ job[v].status = "processing"
    /\ job[v].fresh
    /\ \/ "late_heartbeat" \in Races
       \/ \A w \in Workers : ~(worker[w].job = v /\ worker[w].pc \in Running \cup {"failing"})
    /\ job' = [job EXCEPT ![v].fresh = FALSE]
    /\ UNCHANGED <<catalogue, version, payload, transport, worker, todo, crashes>>

\* _heartbeat_loop of a live worker.
Heartbeat(w) ==
    LET v == worker[w].job
    IN  /\ worker[w].pc \in Running
        /\ job[v].status = "processing"
        /\ ~job[v].fresh
        /\ job' = Beat(v)
        /\ UNCHANGED <<catalogue, version, payload, transport, worker, todo, crashes>>

\* The process is killed, or ARQ cancels the coroutine: CancelledError is not an
\* Exception, so _mark_failed does not run.  ARQ keeps an unfinished entry.
Crash(w) ==
    /\ crashes < MaxCrashes
    /\ worker[w].pc # "idle" \/ todo[w] # {}
    /\ crashes' = crashes + 1
    /\ worker' = [worker EXCEPT ![w] = Idle]
    /\ todo' = [todo EXCEPT ![w] = {}]
    /\ UNCHANGED <<catalogue, version, job, payload, transport>>

-------------------------------------------------------------------------------
Request(v) ==
    Upload(v) \/ Reindex(v) \/ Enqueue(v) \/ RecordQueued(v) \/ RequestGivesUp(v)

\* The steps of process, from the claim to its return.
Process(w) ==
    \/ StartDeclined(w) \/ Start(w)
    \/ Persist(w) \/ ClearPoints(w) \/ Upsert(w)
    \/ Validate(w) \/ ValidateFails(w)
    \/ MarkReady(w)
    \/ ActivateDone(w) \/ ActivateRefused(w) \/ Activate(w)
    \/ FailureIgnored(w) \/ ReadBeforeFail(w) \/ MarkFailed(w)

Next ==
    \/ \E v \in Versions : Request(v) \/ LeaseExpires(v)
    \/ \E d \in Docs : Tombstone(d)
    \/ \E w \in Workers :
          \/ \E v \in Versions : Deliver(w, v) \/ NextListed(w, v)
          \/ ListJobs(w) \/ Process(w) \/ StepFails(w) \/ Heartbeat(w) \/ Crash(w)

Spec == Init /\ [][Next]_vars

\* Coroutines run until they return, the reconciliation cron fires every minute,
\* and a lease nobody refreshes times out.
Fairness ==
    /\ \A w \in Workers :
          /\ WF_vars(Process(w) \/ StepFails(w))
          /\ WF_vars(ListJobs(w))
          /\ WF_vars(\E v \in Versions : NextListed(w, v))
    /\ \A v \in Versions : WF_vars(LeaseExpires(v))

FairSpec == Spec /\ Fairness

\* The versions retrieval may read: the rows of the tenant's active manifest.
Visible == IF activeGen = NoGen THEN {} ELSE generation[activeGen].manifest

\* The abstract catalogue, read off the manifest that retrieval uses.
Shown ==
    [d \in Docs |->
        IF \E v \in Visible : DocOf[v] = d
        THEN CHOOSE v \in Visible : DocOf[v] = d
        ELSE NoVersion]

Abstract ==
    INSTANCE Catalogue WITH shown <- Shown, gone <- {d \in Docs : document[d].deleted}

-------------------------------------------------------------------------------
(* Properties *)

TypeOK ==
    /\ activeGen \in Gens \cup {NoGen}
    /\ revision \in Nat
    /\ document \in [Docs -> DocumentRow]
    /\ version \in [Versions -> VersionRow]
    /\ job \in [Versions -> JobRow]
    /\ generation \in [Gens -> GenerationRow]
    /\ chunks \subseteq Versions
    /\ points \in [Versions -> SUBSET Batches]
    /\ files \subseteq Versions
    /\ api \in [Versions -> {"none", "accepted", "enqueued", "done"}]
    /\ queue \subseteq Versions
    /\ worker \in [Workers -> WorkerState]
    /\ todo \in [Workers -> SUBSET Versions]
    /\ crashes \in 0 .. MaxCrashes

\* What retrieval can read is what the document rows say: a live document with an
\* active version is in the active manifest under exactly that version, and a
\* deleted one, or one that never finished, is not in it at all.  Two activations
\* whose generations were prepared from the same parent must not undo each other
\* (_activate's rebase), and a deletion must not be undone by a slow worker.
ManifestMatchesPointers ==
    /\ \A d \in Docs :
          {v \in Visible : DocOf[v] = d} = {document[d].active} \ {NoVersion}
    /\ \A d \in Docs : document[d].deleted => document[d].active = NoVersion

\* docs/p4-ingestion.md:75-76, the "immutable active manifest": the rows of an activated
\* manifest never change.  Retrieval reads them in several statements, and later
\* generations are derived from them.
ActiveManifestImmutable ==
    [][\A g \in Gens : generation[g].status = "active" =>
          /\ generation'[g].status = "active"
          /\ generation'[g].manifest = generation[g].manifest]_vars

\* Whatever retrieval may read is complete: every batch is in Qdrant, the chunk rows
\* and the raw file exist, and the version row says active.
VisibleIsServable ==
    \A v \in Visible :
        /\ points[v] = Batches
        /\ v \in chunks
        /\ v \in files
        /\ version[v].status = "active"

\* docs/p4-ingestion.md:86 of retries: a step takes no points from what is searchable.
VisiblePointsKept == [][\A v \in Visible : points[v] \subseteq points'[v]]_vars

\* The lease: two workers are past _start for the same job only after the document
\* was deleted (which fails the job under a running worker).
OneWorkerPerJob ==
    \A w, x \in Workers :
        /\ w # x
        /\ worker[w].pc \in Running
        /\ worker[x].pc \in Running
        /\ worker[w].job = worker[x].job
        => document[DocOf[worker[w].job]].deleted

\* The sessions that still hold what they read of job v before it finished: the request
\* that accepted it (routes.py:541), a worker in _start (jobs.py:161) or in _mark_failed
\* (jobs.py:464).
RequestIsBehind(v) == "stale_enqueue" \in Races /\ api[v] = "enqueued"
WorkerIsBehind(w, v) ==
    /\ worker[w].job = v
    /\ worker[w].seen.job # "succeeded"
    /\ \/ "stale_start" \in Races /\ worker[w].pc = "claim"
       \/ "stale_fail" \in Races /\ worker[w].pc = "failing"

\* Who reopens a succeeded job of a living document.  The request sets it back to queued
\* by its late record of the ARQ entry (routes.py:542-546), a worker in _start or
\* _mark_failed writes over it, each only when it read the job before it finished, and
\* each once: it is done with the job afterwards, or processes it.  Deliveries,
\* reconciliation, lost leases, failed claims and crashes by themselves never do.
SucceededIsFinal ==
    [][\A v \in Versions :
          /\ job[v].status = "succeeded" /\ job'[v].status # "succeeded"
          /\ ~document'[DocOf[v]].deleted
          => \/ RequestIsBehind(v) /\ api'[v] = "done" /\ job'[v].status = "queued"
             \/ \E w \in Workers :
                   /\ WorkerIsBehind(w, v)
                   /\ \/ worker'[w].pc = "idle" /\ job'[v].status = "failed"
                      \/ worker'[w].pc = "parse" /\ job'[v].status = "processing"]_vars

\* Every accepted upload comes to an end: whatever is lost on the way (the enqueue
\* call, the ARQ entry, a worker), reconciliation brings the job to an end.
JobsSettle ==
    \A v \in Versions :
        job[v].status \in {"staged", "queued", "processing"}
            ~> job[v].status \in {"succeeded", "failed"}

\* The pipeline implements Catalogue: searchable versions change one document at a
\* time, upwards, and a deleted document disappears for good.
ImplementsCatalogue == Abstract!Spec

\* The same for behaviours that start from a later state than Init.
StepsImplementCatalogue == [][Abstract!Next]_(Abstract!vars)

\* What is left of that when a session may write over a success it has not seen: the
\* version that is searchable already may be published once more, and nothing else.
CatalogueSurvives == [][Abstract!Next \/ Abstract!Again]_(Abstract!vars)

\* A version of a live document that is neither published nor given up is somebody's
\* to finish: a worker has it, ARQ holds its entry or reconciliation will list its job.
PendingIsRecoverable ==
    \A v \in Versions :
        version[v].status \in Pending /\ ~document[DocOf[v]].deleted =>
            \/ job[v].status \in {"staged", "queued", "processing"}
            \/ v \in queue
            \/ \E w \in Workers : worker[w].job = v \/ v \in todo[w]

-------------------------------------------------------------------------------
(* The inductive invariant behind ManifestMatchesPointers and the refinement.  It  *)
(* holds as long as no session trusts a job status it read before its lock.        *)

NoStaleReads == Races \cap {"stale_start", "stale_fail", "stale_enqueue"} = {}

\* A busy worker has a job, and sends each batch once.
WorkersBusy ==
    \A w \in Workers :
        /\ worker[w].pc # "idle" => worker[w].job \in Versions
        /\ worker[w].pc \in {"claim", "parse", "clear"} => worker[w].sent = 0
        /\ worker[w].pc = "embed" => worker[w].sent < NBatches

\* A generation that is still to be activated, or failed, belongs to a version; the
\* tenant and every parent pointer name activated generations.
GenerationsLinked ==
    /\ \A g \in Gens :
          /\ generation[g].status = "none" => generation[g].changed = NoVersion
          /\ generation[g].status \in {"preparing", "failed"} => generation[g].changed \in Versions
          /\ generation[g].parent # NoGen =>
                generation[generation[g].parent].status = "active"
    /\ activeGen # NoGen => generation[activeGen].status = "active"

\* A version's generation is activated at most once.
PublishedOnce ==
    \A g \in Gens : \A v \in Versions :
        generation[g].status = "active" /\ generation[g].changed = v =>
            job[v].status = "succeeded" \/ document[DocOf[v]].deleted

\* A worker past _persist_staged_content carries a generation of its own version.
WorkersOwnGeneration ==
    \A w \in Workers :
        worker[w].pc \in Running \ {"parse"} =>
            /\ worker[w].gen \in Gens
            /\ generation[worker[w].gen].changed = worker[w].job

\* A generation whose parent is still the active one need not be rebased.
PreparedFromParent ==
    \A g \in Gens :
        /\ generation[g].status \in {"preparing", "failed"}
        /\ generation[g].parent = activeGen
        => generation[g].manifest =
              CopyManifest(activeGen, DocOf[generation[g].changed]) \cup {generation[g].changed}

\* Jobs are created with their versions, and only a succeeded job is published.
JobsFollowVersions ==
    /\ \A v \in Versions : version[v].status = "none" => job[v].status = "none"
    /\ \A d \in Docs :
          document[d].active # NoVersion =>
              /\ DocOf[document[d].active] = d
              /\ job[document[d].active].status = "succeeded"

IngestionInv ==
    /\ TypeOK
    /\ WorkersBusy
    /\ GenerationsLinked
    /\ PublishedOnce
    /\ WorkersOwnGeneration
    /\ PreparedFromParent
    /\ JobsFollowVersions
    /\ ManifestMatchesPointers
================================================================================
