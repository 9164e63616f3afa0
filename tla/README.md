# A verification project for the multi-tenant RAG assistant

The repository is a retrieval-augmented assistant for several tenants: a FastAPI
backend, an ARQ worker, PostgreSQL as the authority, Qdrant as a derived index,
Redis as queue and cache, and a SvelteKit gateway in front. This directory holds
TLA+ models of its protocols, TLC configurations that check them on small
instances, and TLAPS proofs of what matters most for every instance.

Paths below are relative to the repository; `jobs.py` is `backend/app/ingest/jobs.py`,
`reconcile.py` is `backend/app/ingest/reconcile.py`.

## 1. Inventory

| component | state it keeps | operations | hard part | what makes it correct |
|---|---|---|---|---|
| **Ingestion pipeline** (`ingest/jobs.py`, `ingest/reconcile.py`, `workers.py`, `documents/queue.py`) | rows of tenant, document, version, job, index generation and manifest; points in Qdrant; sections and chunks; the ARQ queue | claim a job, persist parsed content, replace points, validate, mark ready, activate, fail, heartbeat, reconcile, delete a document | two worker coroutines and every request run concurrently; any step may fail or be cancelled; leases, retries, redelivery | the active manifest is exactly the active versions of live documents; versions never go back; what is searchable is complete; an accepted upload comes to an end |
| **Document requests** (`documents/routes.py`) | the same rows, the raw file | upload, new version, reindex, delete, enqueue after commit | file, database and queue change one after the other | a job exists for every version; nothing accepted is lost |
| **Garbage collection** (`reconcile.py`, `operations/maintenance.py`) | `garbage_collected_at`, files, points, chunks | choose victims, delete points, files, rows | decides once, deletes in four steps next to a running pipeline | retained manifests stay readable, victims stay dead |
| **Idempotency** (`core/idempotency.py`) | one row per tenant, user, operation and key | claim, complete, fail | takeover of an expired claim without fencing | one request takes effect once, a replay returns its answer |
| **Chat** (`chat/orchestrator.py`, `chat/service.py`) | messages, session, stored transcript | accept, stream, persist, fail | the client disconnects in the middle; the answer is committed before the last events are sent | one user and at most one assistant message per request |
| **Authentication** (`auth/service.py`, `auth/dependencies.py`, `admin_cli.py`) | refresh tokens by family, `auth_version` | log in, rotate, detect reuse, log out, revoke | rotation races with reuse and with administrative commands | at most one live token per family, a closed session stays closed, access ends with a command |
| **Frontend gateway** (`frontend/src/lib/server/api.ts`) | refreshes in flight, recently rotated bundles, the cookie | refresh once per old token, remember the result, retry after a 401 | concurrent requests with one cookie, responses in any order, a process that restarts | one rotation per token; the gateway itself never raises the reuse alarm; the cookie leads to the live token |
| **Retrieval scope and cache** (`rag/scope.py`, `rag/service.py`, `rag/cache.py`) | cached results keyed by generation and revision | resolve, look up, retrieve, store | several statements at read committed, results outlive them | nothing from outside the scope, nothing of it missing, no stale entry under a current key |
| **Collections** (`collections/routes.py`) | collections, memberships, the retrieval revision | create, delete, add, remove | unlocked checks before inserts | every visible change bumps the revision |
| **Ranking, context and gate** (`rag/retriever.py`, `rag/dedup.py`, `rag/context.py`, `rag/confidence.py`, `rag/gate.py`, ...) | none between calls | fuse, cap, add neighbours, deduplicate, drop weak evidence, pack, decide | what one stage drops may be what a later one looks for | the pool keeps its caps, exact terms survive, the context is full, the gate decides as it was calibrated |
| **Reranking service** (`rag/reranker.py`, `rag/cache.py`) | scores cached for all processes | score in batches, come back later, cache | answers in any order, late, malformed; a model that is replaced; a cache that outlives requests | every candidate gets its own score of its own model, however it came |
| **Calibration** (`evaluation/calibration.py`) | none | sweep the thresholds of the gate | the grid holds only what was observed | no legal threshold would have been better |
| **Web search and fetcher** (`rag/web.py`, `web/fetcher.py`) | none between questions | search, fetch side by side, follow redirects | pages end in any order, two at one url, redirect loops | the result does not depend on the order; the web's failure costs the documents nothing |
| **Citation sanitizer** (`chat/citations.py`) | the held-back tail of a stream | feed, finish | a marker is cut anywhere, what was sent cannot be taken back | where the stream is cut makes no difference; only packed sources are cited |
| **Sessions and feedback** (`sessions/routes.py`) | chat sessions, messages, feedback | list, delete, preview a citation, rate | lists are read page by page while they change | the page shows the conversation that was asked for, in order and whole |
| **Signed file links** (`documents/files.py`) | none: the link carries it | issue, read | used long after it was issued | it leads to the version it was issued for, or nowhere |
| **Frontend pages** (`+page.svelte`, `sse.ts`, `CitationPreview.svelte`) | the question under way, the dialog | parse the stream, ask again, load, preview | streams break anywhere, responses overlap | what is shown is what is stored |
| **Parsing, sections, chunks** (`ingest/parsers.py`, `sections.py`, `chunker.py`) | none | pure functions | headings that are alike, windows, repeated texts | no word lost, unique keys, a tree of sections |
| **Backup and restore** (`deploy/backup.sh`, `restore-drill.sh`, `operations/backup.py`, `status.py`) | the local and the remote snapshot, the status file | stop, dump, archive, snapshot, start, upload, restore, verify | any step fails; copies of three stores at three instants | a snapshot of stopped services restores; a drill that passes proves it; one accident costs one night |
| **Rate limiter**, **configuration**, other **evaluation**, **deployment** | counters; none; files; none | | | not modelled, see section 7 |

How they interact: requests and workers share the PostgreSQL rows and take the same locks,
tenant first. A request hands a job to the worker through ARQ *after* its commit.
Reconciliation, a cron in the worker, calls the same `process` for jobs nobody seems to work
on. Retrieval reads the tenant's active generation, its manifest, and then the points and
rows of the versions it names. Garbage collection runs daily in the same worker, if the last
backup is recent enough. Chat and the two document requests that create versions claim an
idempotency key first. Collections bump the same retrieval revision as activations and
deletions.

`PROJECT.json` lists every component with its status, and every hazard with the
line where it bites.

## 2. The modules

| module | what it is |
|---|---|
| `Catalogue` | the abstract promise of ingestion to retrieval: per document one searchable version, replaced only by later ones, until the document is deleted |
| `Ingestion` | requests, queue, workers, leases, generations and manifests of one tenant |
| `GarbageCollection` | EXTENDS `Ingestion` with the daily collection |
| `IngestionProofs` | types, inductive invariant, action properties and refinement of `Ingestion`; leases, complete content, and the collection beside the pipeline |
| `Admission` | what an upload, a new version or a reindexing goes through up to its commit; uses the operators of `Idempotency` |
| `Chunking` | what the parsers, the section tree and the chunk windows make of a file |
| `Backup`, `Restore` | the nightly backup next to the nightly maintenance, with `verify-live`; the restore drill |
| `AdmissionProofs`, `BackupProofs`, `ContentProofs` | the proofs about `Admission` and `Backup`; those about the parts of `MCContent`, with the proof about `Restore` |
| `Exchange` | the abstract promise of the chat endpoint: an identifier stands for one question, answered at most once, and everybody is told that answer |
| `Idempotency` | the claims of `core/idempotency.py` as operators on a row |
| `Chat`, `ChatProofs` | EXTENDS `Idempotency` with the coordinator of `chat/orchestrator.py` for one user; its proofs, and those about the other parts of `MCQuestion` except `Evidence` |
| `ScopeHints`, `Ranking`, `Evidence` | the hints that narrow a question's scope; fusion, caps and neighbours; everything from the merged candidates to the gate |
| `Reranker`, `Calibration` | the client of the cross-encoder and its shared cache; the sweep that chooses the gate's thresholds |
| `CitationSanitizer`, `AnswerStream` | the citations of one streamed answer; its way to the page, with a second attempt |
| `Sessions` | the abstract promise of refresh tokens: one current token per session, no token twice, closed is closed |
| `RefreshTokens`, `Gateway` | the tokens of one user with logins, refreshes, logouts and administrative commands; EXTENDS it with the SvelteKit gateway and one browser |
| `GatewayProofs` | what holds of them whatever happens, and what holds until something is lost |
| `Retrieval`, `RetrievalProofs` | over `Catalogue`: questions, the cache, garbage collection and collections, statement by statement; its proofs, and those about the other parts of `MCRetrieval` |
| `WebSearch`, `Conversations`, `FileLinks` | the web branch of a question; the conversations of one user and the loading of the chat page; signed links and citation previews, over `Catalogue` |
| `Ordering` | the list that `ORDER BY` and `sorted()` make of a set |
| `DataLemmas` | lemmas about folds, lists, ordered lists and the least number, for the other proofs |
| `MCIngestion`, `MCChat`, `MCInputs` | constants, start states and input sets for TLC |
| `MCContent`, `MCQuestion`, `MCRetrieval`, `MCGateway` | the instances of the composite runs, see section 3 |

### State of `Ingestion`

`activeGen`, `revision` are `tenants.active_index_generation_id` and
`retrieval_revision`. `document[d]` has the two columns that matter
(`active_version_id`, `deleted_at` as a Boolean). `version[v]` and `job[v]` have
their statuses; `job[v].fresh` says whether `heartbeat_at` is within
`INGESTION_HEARTBEAT_TIMEOUT` (the model has no clock: `LeaseExpires` makes it
false). `generation[g]` is a row of `index_generations` with its
`index_generation_documents` as the set `manifest`; a set is enough because the
code deletes or excludes the document's rows before it inserts one. `chunks` and
`files` hold the versions that have rows and a raw file; `points[v]` the batches
in Qdrant. `api[v]` is the progress of `_enqueue_durably`, `queue` the ARQ entries,
`worker[w]` the call of `process` a coroutine runs, `todo[w]` the rest of the list
of a reconciliation.

### Actions

One database transaction is one action, because every transaction of the code
takes row locks on the tenant or the version before it decides, at read committed.
`Upload`, `Reindex`, `Enqueue`, `RecordQueued`, `RequestGivesUp` and `Tombstone`
are the requests. `Deliver`, `ListJobs` and `NextListed` are the three ways to call
`process`. `StartDeclined`, `Start`, `Persist`, `ClearPoints`, `Upsert`, `Validate`,
`ValidateFails`, `MarkReady`, `ActivateDone`, `ActivateRefused`, `Activate` are its
steps in the order of the code. `StepFails` raises in any of them, and
`FailureIgnored`, `ReadBeforeFail`, `MarkFailed` are `_mark_failed`. `Heartbeat`
and `LeaseExpires` are the lease, `Crash` a killed or cancelled coroutine: the
`except Exception` of `process` does not catch `CancelledError`, so nothing is
cleaned up, and ARQ keeps the entry.

### Stale reads and other accidents

`_start`, `_mark_failed` and `_enqueue_durably` read a job without a lock (or have
just created it) and read it again later, `_start` and `_mark_failed` with `FOR
UPDATE`. The second read does *not* see what was committed in between: SQLAlchemy
returns the object that is already in the session's identity map and leaves its
attributes as they were unless `populate_existing` is requested, and nothing in the
repository requests it. The model therefore keeps what was read in `worker[w].seen`,
and writes back only the columns that differ from it, as the unit of work does.
These are the accidents of the constant `Races`, so that each run says which of
them may happen:

| accident | what happens |
|---|---|
| `stale_start` | a commit falls between the two reads of `_start` |
| `stale_fail` | the same in `_mark_failed` |
| `stale_enqueue` | the worker claims the job before the request writes `queued` |
| `late_heartbeat` | a live worker's lease goes stale: `_heartbeat_loop` ends on the first update that raises, and `process` does not look |
| `claim_error` | `_start` itself raises, and `process` calls `_mark_failed` for a job it does not own |

All of them need bad timing or a failure at the wrong moment. With none of them
(`Races = {}`) the pipeline is the one the documents describe.

### State and actions of `Chat`

An *attempt* is one HTTP request with its key and its request (the body, compared
by hash). `claim[k]` is the idempotency row of key `k`; `asked` and `stored` are the
user and the assistant messages, the latter named by the attempt that wrote them;
`told` records what clients were sent; `attempt[a]` is how far the attempt has come.
There is no clock: `expires_at` is the time of the last claim plus a constant, so the
row names its `claimer`, and `TimeOut` puts the claimer in `overdue` when that time
has passed.

`Accept`, `TurnAway` and `Replay` are the outcomes of `accept`, one transaction:
the claim and the user message are committed together or not at all. `Persist` is
`_persist`, which commits the answer together with the completed claim. `StreamFails`
is any exception of the stream, the one after a commit whose acknowledgement was
lost included, and leads to `Fail`, the transaction of `_fail`. `Send` delivers the
last events; `Cut` is a client that has gone or a process that died, at any point.
`Prune` is the daily deletion of old rows. Nothing but the key ties the transactions
of an attempt together: `_persist` and `_fail` do not check whose claim they change.

`SlowKeys` are the keys whose streams may outlive `IDEMPOTENCY_TTL`. The code sets no
bound on a stream, and the setting may be as short as 60 seconds, so the refinement and
`CompletedIsFinal` hold for every choice of `SlowKeys`; `OneOwner` speaks of the others.
`Prune` assumes that no stream is older than the time to live and the retention period
of `run_maintenance` together.

### State and actions of the accounts

`RefreshTokens`: `token[t]` is a row of `refresh_tokens` (family, version, status;
*dead* stands for both `revoked_at` and `replaced_by_id`, which the code treats alike),
`user` the columns `is_active` and `auth_version`, `call[c]` a call of `/auth` under
way, `admin[a]` a run of `admin_cli`. A refresh takes the row lock in one action and
commits in another, so that revocations wait for it as the database makes them; an
`UPDATE` of several rows fixes its targets when it starts. `epoch` counts commands that
committed and `raced` records that two of them overlapped: `admin_cli` reads and writes
`auth_version` without a lock, so of two overlapping commands one increment may be lost,
and `AccessEndsWithCommand` is stated without that case. `Gateway` adds the cookie,
`rotated` (the bundles remembered for `REFRESH_CACHE_MS`), and per browser request how
far it is; a refresh in flight is a request at `perform`. What the process does between
two awaits is one action. `alarm` records that the backend ended an open session as a
reuse, `accident` that a response was lost, a process restarted or a bundle was
forgotten while somebody still had it.

### State and actions of `Retrieval` and its neighbours

`shown`, `gone`, `revision` are those of `Catalogue`, and `Ingest` is any step of
`Catalogue`, which `Ingestion` is proved to implement: that is the composition of the two
halves. `manifests` are the activated generations, `swept[v]` what garbage collection has
taken of a version. A question goes through `manifest`, `collections`, `members`, `cache`,
`search`, `hydrate`, `store`, each a statement of its own. Its fields `must` and `may` only
record what was in its scope all the time, or at some time, while it ran, and `ever` the
collections that were active at some time of it. `checked` are the pairs of document and
collection some request has found active, and may still write.

`WebSearch` keeps per hit the chain of urls visited so far; `Conversations` the times
that `created_at` and `updated_at` take (they are taken before the commit that shows
them), the prompt each question was given, and the progress of one page load;
`FileLinks` the status, file and rows of each version, and follows either one link or
one citation from its making to its uses. In `FileLinks` the token is the record of what
it binds: the signature is taken to bind exactly that. Checking the token and the rows is
one action, hashing the file and opening it again to send it are others.

### State and actions of the stored content

`Admission`: a call has staged a temporary file, placed it, been answered, refused or
killed; `draft` is what its transaction has done so far, `versions` the committed rows,
`claims` the idempotency rows, `doubtful` the calls whose commit succeeded although the
acknowledgement was lost, `pruned` those whose claim the maintenance has deleted
(`Prune`, `operations/maintenance.py:53-61`), after which the key admits again. The
transaction holds the tenant's row from `Place` on, so calls wait for one another there; the
file system takes no part in it. `PlaceFails` is a move or a copy that raises: what
`storage.clone` has written by then stays, because its caller did not learn the name of it
(`documents/routes.py:387`, `419-423`). `Chunking` runs a file through `Parse`,
`BuildSections`, `Chunk` and `Persist`, whose unique constraints may refuse it.

`Backup` goes through `backup.sh` command by command, with the trap that starts the services
again, next to the maintenance and the content; `age` is the age of `last-success.json`
in nights. `up` are the services that run and `quiesced` those that the script has stopped
and has to start. `Quiesce` may miss a service: when `ps` or the filter behind it fails,
the test counts as "does not run" (`backup.sh:73-77`), and the copies are then taken next to
it; `quiet` in a snapshot records that nothing ran when they began. `Cleanup` may start only
some of the services, or none, since a failed start is ignored (`backup.sh:63`) and a script
that is killed runs no trap. `Restart` is the operator who brings them back
(`docs/incident-runbooks.md:68`, `80`). `Restore` takes *any* snapshot and brings it up as
`restore-drill.sh` does, because the drill is there to tell a good one from a bad one.

### State and actions of the other parts of a question

`CitationSanitizer` feeds a text in pieces cut anywhere (`Feed(n)` takes `n` characters)
and finishes. `AnswerStream` is the claim, the events the server has yielded, the link
between them and the page, and the page's accumulator, over two attempts. `ScopeHints`,
`Ranking` and `Evidence` are straight pipelines, one action per function of the code, on
inputs chosen in `Init`: their properties compare what comes out with a definition that
does not go step by step. `Calibration` is one action, and its property looks beyond the
grid that the action searches. `Reranker` runs several requests side by side: a request is
`new`, `scoring` batch after batch, `scored`, and `done` or `failed`; the service may answer
a batch with any list of entries, of which `Valid` tells what the client accepts.

### Operators marked "Mutant"

A comment that begins with "Mutant" marks a variant of the definition that follows
it, with a bug a programmer could plausibly make (a lease not looked at, a manifest
not rebuilt, an off-by-one). No specification uses them. Putting one in the place
of its definition makes TLC report the property `PROJECT.json` names for it, which
shows that the property depends on that piece of the code.

## 3. What the runs check

Four runs are of the pipeline alone, with documents `docA` (versions `a1`, and in some
`a2`) and `docB` (version `b1`). Three runs are *composite*: several parts that share no
state are put side by side in one module, and the variable `part`, chosen in `Init`,
names the one that runs in a behaviour; the variables of the others are the constant
`"off"`. The constant `Parts` can be cut down to explore one of them. The properties of
a part are stated under `part = "..."`. No composite run checks liveness, so its
symmetry sets are sound.

| run | instance | properties | what it shows |
|---|---|---|---|
| `first_publications` | from `Init`, `{a1, b1}`, 2 workers, 3 generations, no accident | `IngestionInv`, `VisibleIsServable`, `ImplementsCatalogue` | the invariant the proofs use; what is searchable is complete; the refinement |
| `two_versions` | after `b1` was published, `{a1, a2, b1}`, 2 workers, 4 generations, no accident | `VisibleIsServable`, `OneWorkerPerJob`, `StepsImplementCatalogue` | two versions of a document race: the older never replaces the newer |
| `lost_leases` | after `b1`, `{a1, b1}`, 2 workers, 4 generations, 2 batches, 1 crash, `late_heartbeat`, `claim_error` and `stale_fail` | `ManifestMatchesPointers`, `ActiveManifestImmutable`, `SucceededIsFinal`, `CatalogueSurvives` | the catalogue survives two workers on one job, and a failure recorded over a success: a finished job is reopened only by the worker that is behind, and its version is at worst published once more |
| `jobs_settle` | after `b1`, `{a1, b1}`, 2 workers, 2 crashes, `stale_fail`, fair | `TypeOK`, `PendingIsRecoverable`, `JobsSettle` | nothing accepted is forgotten |
| `stored_content` (`MCContent`) | garbage: after `a1`, `{a1, a2, b1}`, 1 worker, 4 generations, 2 retained | `GarbageInv`, `RetainedIsServable` | the collection next to a live pipeline takes nothing from retained manifests, and its victims stay dead |
| | backup: 2 versions, 1 accident | `BackupInv`, `BackupsResume` | short of an accident the services run again and every stored snapshot restores; after one, every snapshot of stopped services still does; backup and collection do not block each other for good |
| | restore: 2 versions in 2 tenants, every snapshot with missing files and points and one further thing wrong | `DrillProves` | the drill passes exactly for what can serve |
| | admission: 3 calls, 2 of them under one key, quota 3, 1 fault, claims pruned at any time | `AdmissionInv` | numbering, quota, one version per key while its claim is kept, files and rows |
| | chunking: up to 5 lines or 4 rows, 4 formats | `ChunksCover` | nothing lost, unique keys, a tree of sections |
| `questions` (`MCQuestion`) | chat: three attempts with one question and a slow key, two with the same question and a quick key, two with another question and the quick key, one that reuses key and `client_request_id` for another question | `ChatInv`, `OneOwner`, `ImplementsExchange`, `CompletedIsFinal` | retries, takeovers, lost streams and misuse never lead to a second message, a second answer or somebody else's answer |
| | citations: all texts of up to 5 characters over 5, and longer ones with repeated, foreign, nested and unfinished markers | `CitationsSound` | the cuts of the stream make no difference; markers are sources |
| | stream: two attempts, an answer in two pieces that may be replaced by a third | `ShownIsStored` | the page shows the stored answer, never pieces of two |
| | hints, ranking, evidence: the input sets of `MCInputs` | `HintsNarrow`, `PoolIsSound`, `EvidenceSound` | what each stage may not lose |
| | rerank: three of five requests of one query that differ in the model, the order or the texts of four candidates, or have none; 2 batches, 1 retry | `PoolIsSound` | scores reach their candidates through batches, retries and the cache |
| | calibration: up to 3 observations, each with 0, 1 or 2 pieces of evidence and one of four scores | `EvidenceSound` | the grid of the sweep misses no better threshold |
| `accounts` (`MCGateway`) | 2 requests, 2 commands, 3 tokens, 1 accident | `AccountsInv`, `AccessEndsWithCommand`, `AlarmNeedsAccident`, `CookieServes`, `ImplementsSessions` | sessions stay linear; the gateway itself never causes the reuse alarm |
| `retrieval` (`MCRetrieval`) | documents: 1 document, 2 versions, 1 collection, 2 questions, 5 revisions | `RetrievalInv`, `NothingForeign`, `NothingMissed` | an answer is bounded from both sides by its scope while it ran; a current cache entry is what a fresh question would find |
| | web: 3 urls, up to 4 items, 2 fetches at a time, 2 redirects | `WebSound` | result and failures do not depend on the order of the pages; the documents do not depend on the web |
| | conversations: 2 sessions, 2 questions, pages of one row | `ConversationsShown` | what the cursors, the history and the prompt show |
| | links: 1 document, 2 versions, 1 link or 1 citation, 2 openings of the preview, 1 damaged file | `LinksSound` | links and citations lead to their source or nowhere, and do not fail without a reason |
| `second_activation` | after `b1`, `{a1, b1}`, 2 workers, `stale_start` and `stale_enqueue` | `ActiveManifestImmutable` is **violated** | findings 1 and 2 |
| `late_retry` | `late_heartbeat` | `VisiblePointsKept` is **violated** | finding 3 |
| `chat_overrun` | three attempts with one question and a slow key | `ActiveDuplicateWaits` is **violated** | finding 4 |
| `dangling_bracket` | the citations part alone | `StoredIsShown` is **violated** | finding 5 |

The runs that begin "after" a publication start in the state `Published(p)` of
`MCIngestion`, which is reachable from `Init`; they spend their states on what
comes after. `CHECK_DEADLOCK FALSE`: once every version is uploaded and settled, every
question asked and every call answered the system rests, and the bounds below also
stop it.

**Bounds.**

- *Pipeline.* `MaxGens` is the number of index generations that can be created (rows
  are never deleted); three suffice for two publications and a deletion, four for
  two competing versions of a document beside another one and a deletion. When they
  are used up `Persist` can only refresh a preparing generation, and `Tombstone` is
  disabled; a step of the worker can still fail. `MaxCrashes` bounds lost coroutines
  and `NBatches` the embedding batches: two are needed to see a half-written
  index, and one suffices elsewhere because the points of a version are then absent
  or complete. Two workers are `max_jobs` of `WorkerSettings` (`workers.py:108`), and for
  `lost_leases` that number matters: a third coroutine next to a failure recorded over a
  success could activate a generation twice, as in finding 2. Two documents are
  enough for one publication to endanger another; two versions for an order between
  versions. Symmetry is used over workers only, and not where liveness is checked.
- *Chat.* Three attempts with one key are the least that allow a takeover of a
  takeover; the quick key makes questions and keys compete in both orders. Symmetry is
  over attempts with the same key and request.
- *Accounts.* `Budget` bounds tokens and commands together and `MaxTokens` the tokens;
  three are a login, its rotation and one more, with the commands in the remaining
  budget. One accident per behaviour: after it, the alarm is permitted anyway. The slot
  of a request is not reused before its last backend call has ended. Symmetry is over
  requests and over commands.
- *Retrieval.* Nothing in a resolution relates one document to another, so one document
  with two versions is enough. `MaxRevision` leaves room for two publications, a
  deletion and changes of the collection in any mix. A cache entry that expires or is
  evicted is a miss, which a question may always meet.
- *Web.* Three urls allow two hits that end at one page and a redirect cycle; a
  redirect limit of two makes chains that break it. Four items with a limit of three
  let one be cut off; unusable and repeated items are among them. The web answers
  anything, each time anew.
- *Conversations.* Pages of one row make every list more than one page long. The weights
  of the messages are chosen so that a history keeps two, skips one for an older one
  that fits, and drops one to make room for the question. Times are distinct.
- *Links.* Two chunks per version, one text shared by both versions; a page number that
  only the second has. A file is damaged at most once, and not between its hash and its
  sending, where no code could notice. Two openings of the dialog are enough for the
  response of one to arrive in the other. One link or one citation per behaviour,
  because they do not meet.
- *Backup.* Two versions: one is replaced while the other is stored. Symmetry is over them.
  One accident per behaviour (a script that fails or is killed, a service that it does not
  stop or not start, an interrupted or a missed maintenance): after two the nightly checks can
  block each other, see section 4. A maintenance that is missed because the accident has left
  the worker stopped is not another one. Ages count up to "never".
- *Restore.* Versions in two tenants, each with or without active users; every
  combination of missing copies, and besides at most one other defect.
- *Admission.* Two calls share a key, and sizes are chosen so that uploads fit the quota
  one by one but not together. One call that crashes or fails, at its copy or its commit.
- *Chunking.* Chunks of three tokens with an overlap of one: texts of six words need
  three windows. Headings at three levels, two of them alike after normalisation.
- *Reranking.* The best three of four candidates are scored in two batches, so a batch
  may be full or not; the requests differ from each other in one thing each (the model, a
  text, an order), so that a cache key that forgot it would be met, and one has no
  candidates. Three of them in a behaviour are two that may share an entry and one that
  may not.
- *Calibration.* Three observations are the least with a good, a bad and a doubtful one;
  the scores leave room above, between and below. The counts of evidence stay below the twelve
  of `calibration.py:31`, beyond which the sweep does not look on purpose.
- *Citations.* Five characters are one whole marker and one more character before or
  after it.

**Fairness** (`jobs_settle`). A coroutine that runs reaches its next step or fails: every
await in `process` is bounded by ARQ's `job_timeout` of 1800 seconds and by client timeouts.
The reconciliation cron fires every minute (`workers.py:100`), so listing and working through
the list are weakly fair. A lease nobody refreshes times out. Nothing is assumed of ARQ's
delivery or of the request that enqueues: both may be lost for good and the job still settles.
No fairness is assumed of uploads, deletions or crashes; that crashes are bounded is the
assumption that a worker is not killed for ever.

## 4. Findings

1. `second_activation`, first half. `docs/p4-ingestion.md:83-84` says that a fresh
   `processing` lease keeps ARQ delivery and reconciliation from claiming the same job
   concurrently. `_start` decides on a job object read before its locks (`jobs.py:161`,
   `192`), so a claim committed while it waited for the tenant lock is not seen and both
   workers process the job, with one generation. With `stale_enqueue`, `late_heartbeat` or
   `claim_error` in the place of `stale_start` two workers can share a job as well.
2. `second_activation`, second half. `docs/p4-ingestion.md:75-76` calls the active manifest
   immutable. `_enqueue_durably` decides by the job as its own request created it
   (`documents/routes.py:541-546`), so a job that has succeeded in the meantime is set back
   to `queued`. The second of the two workers then does not return at `jobs.py:407-408` but
   activates the generation again: its parent is no longer the active one, so the manifest
   is emptied and rebuilt from the active one, which is itself, and `b1` is lost
   from what can be searched. `SucceededIsFinal` says who can reopen a job at all.
3. `late_retry`. `docs/p4-ingestion.md:86` says that every retry deletes only an
   inactive version's partial points. The deletion (`jobs.py:99`) looks at neither
   status nor lease. After a lost heartbeat two workers share a job; when one has
   activated the version, the other deletes its points, and the version is
   searchable without any until they are embedded again.
4. `chat_overrun`. `docs/p8-generation.md:30` says that an active duplicate returns
   HTTP 425. A stream that outlives its claim is taken over by a retry; when it then
   fails, `fail_idempotency` (`idempotency.py:150`) fails the claim of the retry, and a
   third duplicate is accepted while the retry is active. With the deployed time to live
   of a day (`deploy/compose.yml:67`) this takes a very long stream; with the shortest
   one that `config.py` permits a slow client suffices. The question is still answered
   once: `_persist` of whoever is second raises.
5. `dangling_bracket`. `docs/p8-generation.md:86-92` says that a `replace` is sent
   whenever the final text differs from the accumulated deltas, so that the stored answer
   is exactly what the client ends with. A `[` at the very end of the model's output is
   held back; `finish` adds it to what counts as emitted (`citations.py:42-45`) but sends
   no delta, and `orchestrator.py:315` then finds nothing to replace. The stored answer
   ends with the bracket and the client's does not.

Observed on the way, with no statement of the repository against it:

- A version whose document is deleted between claim and `_persist_staged_content` is
  written back to `processing`. If the worker then dies it stays so: the job is
  `failed`, so reconciliation does not list it, and garbage collection spares
  pending versions. `PendingIsRecoverable` exempts deleted documents.
- With `claim_error` or `stale_enqueue` (or `late_heartbeat` and a crash) a version of a live
  document can stay `processing` with its job `failed`, which nothing lists; only a new
  upload helps. `PendingIsRecoverable` is checked with `stale_fail` and proved without
  accidents.

In the accounts: a rotation that commits after an administrative revocation has fixed its
rows survives it, but its access token carries the old version. Two overlapping commands
lose one increment of `auth_version`. `REFRESH_CACHE_MS` (ten seconds) is shorter than
the time a request may take, so a slow request can present a bundle the gateway has
forgotten, which the backend takes for a reuse (`AlarmNeedsAccident` counts this as the
accident). `performRefresh` treats 429 and 503 like an expired session and deletes the
cookie. A logout with a token that was already rotated does nothing (`service.py:152`).

In retrieval: a membership inserted while its collection is being deleted stays behind. A
question that read the collection before the deletion and the memberships after it can
still find its document; no later one can, and `NothingForeign` counts a collection that
was active at some time of the question as active (`ever`). A hint for a
collection is resolved against all collections of the tenant, so it can empty an explicit
scope, where `docs/p5-retrieval.md:34-39` speaks of narrowing. When a section's primaries
have no neighbours their reserve in the pool goes unused. Deduplication run again on its
own result may drop more.

The sweep of thresholds asks for at most as much evidence as some observation had, so an
observation with a perfect score and margin cannot be excluded, although a legal
`min_evidence` would; `NothingBetter` excepts this. `sweep_thresholds` says that it
requires positive and negative observations and checks only that there is a positive one
(`calibration.py:19-20`).

In the answer: removing a foreign marker from inside an unfinished one leaves a marker
(`[S[S9]7]` becomes `[S7]`); `CitationsSound` excepts exactly this. A stream that breaks in
a read is not retried by the page although one that merely ends early is, and the retry the
page offers by hand uses a new key. If the dialog of a citation is closed and opened again,
the failure of the first request hides the text of the second. The history skips a message
over the budget but keeps older ones, and may contain messages newer than the question. A
session written to while the list is being read may be missed or listed twice, and the page
may then open another conversation.

In the content: a commit whose acknowledgement is lost makes the handler of `upload_document`
delete the file of a version that exists (`documents/routes.py:243-256`); every later backup
then fails its check and the collection is never permitted. A reindexing whose copy of the
file fails leaves what was written of it (`documents/routes.py:387-423`), which no row names
and nothing removes; `FilesAccounted` excepts it. The quota counts every version ever stored.
A repeated reindexing after the deletion of its document gets 404 instead of the stored
answer. Headings that differ only in what normalisation removes get one section id and fail
the insertion; a skipped heading level makes siblings children (`parsers.py:121`).
`create_signed_url` does not look at `garbage_collected_at`, so it issues links that can only
answer 404. After two accidents in a row, a collection interrupted between a file and its mark
and a missed maintenance, backup and collection wait for each other (`config.py:122`). A
backup that did not stop a running service, or did not start one again, says nothing of it:
the first may store a snapshot that the drill of `docs/p11-operations.md:118-133` refuses, the
second leaves the service down, and the worker's maintenance with it, until somebody looks. A
drill with `ALLOW_EMPTY_RESTORE=1` can call populated data eligible for release, against the
intent of `docs/p11-operations.md:188-191`; it fails for any tenant that has an active
document and no active user.

## 5. What is proved

Each proof module states an inductive invariant, shows that the initial states satisfy it
and that every step keeps it, one action at a time, and derives the properties of the runs
from it. The theorems hold for every value of the constants that satisfies the named
assumptions: `ConstantsAssumption`, `GarbageAssumption`, `ClaimsAssumption`,
`ChatAssumption`, `RefreshTokensAssumption` and `RetrievalAssumption`, which TLC evaluates
in the runs, and the hypotheses a theorem states itself, which are given below. The
inductive invariants `IngestionInv` and `ChatInv` are themselves properties of runs.

**Types** (`IngestionProofs!TypeCorrect`). `Spec => [](TypeOK /\ WorkersBusy)`, with any
accidents. `WorkersBusy` is the strengthening `Upsert` needs: a coroutine that embeds has
sent fewer than all its batches. In every other module the types are part of the invariant.

**The catalogue** (`IngestionProofs`), under `NoStaleReads`: leases may be lost, claims may
fail and workers may die, but no session trusts a status it read before its lock.

- `InvariantHolds`: `IngestionInv`; `RetrievalMatchesDocuments`: `ManifestMatchesPointers`;
- `ActiveManifestsNeverChange`: `ActiveManifestImmutable`;
- `PipelineImplementsCatalogue`: `Spec => Abstract!Spec`, and `StepsAreCatalogueSteps` for
  its steps alone.

With any accidents, `FinishedJobsStay`: `SucceededIsFinal`. A job that succeeded is reopened
only by the request or the worker that read it before it finished (`RequestIsBehind`,
`WorkerIsBehind`); the proof looks at every action that writes a status.

`ManifestMatchesPointers` is not inductive: `Activate` keeps the prepared manifest whenever
the parent of the generation is still the active one, so the invariant must say what a
prepared manifest contains (`PreparedFromParent`). That in turn needs that the active
generation is never one that is still to be activated: a generation is activated at most
once per job (`PublishedOnce`), a worker carries a generation of its own version
(`WorkersOwnGeneration`), parents and the tenant's pointer name activated generations
(`GenerationsLinked`), and only a succeeded job is published (`JobsFollowVersions`). With
that, a worker that reaches `Activate` has a job that has not succeeded, so its generation
was never activated and changing its manifest harms nobody. The refinement maps a document
to the version of it in the active manifest; the invariant makes that the document's
`active` column, so `Activate` is `Publish`, `Tombstone` is `Retire`, and every other step
leaves the three abstract variables alone.

**The content of what is published** (`IngestionProofs`), under `Races = {}`: crashes are
allowed, the accidents of section 2 are not, since most of them break `OneWorkerPerJob`
(findings 1 and 3).

- `ServiceHolds`: `ServiceInv /\ PublishedIntact`; `LeaseHolds`: `OneWorkerPerJob`;
  `NothingIsLost`: `PendingIsRecoverable`; `SearchableIsComplete`: `VisibleIsServable`;
- `SearchablePointsStay`: no step deletes points of a searchable version.

Two workers are kept apart by `LeaseSound`: a coroutine that is busy with a job of a live
document holds a fresh lease on it, so nobody else can claim the job, and the job has not
succeeded, so nothing published is ever worked on again. A deletion of the document ends
the protection, so the other conjuncts exempt deleted documents; a busy worker's job has not
succeeded even then, and activated manifests list succeeded jobs only
(`ManifestsPublished`). `ProgressSound` carries chunks, file and points from the step that
wrote them to the activation that relies on them.

- Under `Races = {}` and `~OldJobs`, next to the collection: `GarbageSoundHolds`;
  `VictimsAreDead`: `GarbageInv`; `RetainedIsComplete`: `RetainedIsServable`;
  `SearchableSurvivesCollection`: `VisibleIsServable`.

The collection chooses once and deletes later. `VictimsForgotten` says that in between no
retained manifest lists a victim, and stays true because a new manifest lists versions that
are active or about to be, while `SweptIdle` keeps victims dead and without work. It needs
the order of the revisions (`RevisionsOrdered`), since "retained" means the latest ones.

**The chat** (`ChatProofs`), for any attempts, keys, requests and slow keys:
`ChatInvariant`: `ChatInv`; `OneAttemptAtWork`: `OneOwner`; `CompletedClaimsStay`:
`CompletedIsFinal`; `ChatImplementsExchange`: `Spec => Abstract!Spec`.

Here the argument turns on the absence of fencing. Two attempts may work on one claim,
so "my claim is in progress" does not mean "it is my claim". What saves the refinement is
that a row can only be taken over by the *same* request (`AttemptsKeepToTheirQuestion`),
that no two rows stand for one question (`RowsAreQuestions`: a new claim is refused
when the `client_request_id` is known), and that an unfinished row's question has no
answer yet (`RowsMatchAnswers`). So whichever attempt persists first answers its own
question for the first time, and the others then find the row completed.
`QuickStreamsOwnTheirClaim` is what `OneOwner` needs in addition.

**The hints of a question** (`ChatProofs!HintsOnlyNarrow`): `HintsNarrow`, under
`HintParameters` (finitely many documents, sections of documents, paths that are lists, and
hints that match to a degree of 0 to 5). A hint resolves to a target exactly if it matches
that target best and by its id or name (`ResolvedOne`), and sections below a chosen one are
chosen because a prefix of a prefix is a prefix.

**The answer on the page** (`ChatProofs!AnswersShown`): `ShownIsStored`, without any hypothesis.
`StreamInv` says what an accumulator holds after each event of a run (`HasCollected`), where the
run and the response stand (`RunSound`, `ReadSound`), and that a claim is completed by the commit
that comes before the last two events. So the event `done`, the only one that shows an answer,
is read only from a completed claim whose whole answer the page has collected since the last
`start`, which empties the accumulator (`AppliedIs`).

**The citations** (`ChatProofs!CitationsKept`): `CitationsSound`, for any set of texts over any
characters, any sources and any way to cut a text (`TextParameters` says that a text is a
sequence and that the fixed answer is not empty). The lists are handled through their places:
`Enumerates` says that a list has the numbers of a set in their order, `OneEnumeration` that only
one does, so what is left of a text without some of its places is known (`WithoutIs`,
`WithoutIsOne`) and can be put together from two parts (`WithoutJoined`).

- The cuts make no difference because an unfinished marker of a text and a piece begins in what
  is held back (`UnfinishedJoined`, `HeldJoined`) and no marker stands across what has been sent
  and what comes (`NoneAcross`); so what is allowed of both is what is allowed of each
  (`AllowedJoined`).
- A marker that nothing was cut from is one of what is left (`Survives`); a marker of what is
  left was one before, or it was broken by a first cut (`Origin`). Of the foreign markers such a
  cut makes a marker only in a text that `Reopens` (`AllowedIds`); of repetitions it would have
  to begin after a bracket that ends a marker (`CollapsedIds`); the unfinished marker at the end
  has no such bracket (`TrimmedIds`).

**The ranking and the scores** (`ChatProofs!PoolKept`): `PoolIsSound`, for the parts "ranking"
and "rerank". `RankingParameters` says that there are finitely many chunks, with ids and
places of their own, that a list of hits has no chunk twice and at most 500 of them
(`config.py:82-83` allows no more), and that the limits are positive. The 500 matter because
`Unit` is divided with rounding: up to there a later rank still has a strictly smaller
reciprocal (`Quotients`, `Reciprocal`). `RerankParameters` says that a request has finitely
many candidates with ids of their own and that batches have at least one.

- A chunk that `Dominates` another has a higher base score (`BaseIs`) and therefore no later
  place by exact terms or by hints, so a higher score in the end (`RankedSound`).
- Filling up in turn under a cap takes the best of every section (`BestTaken`): the first
  places of a set of numbers, up to a limit, are taken one by one (`FirstOnes`), and
  `FilledKeeps` carries caps and distinctness through the second filling with neighbours, of
  which each is near the primary that is its root (`RootIs`, `NeighborsListed`).
- `RerankInv` holds for all requests that share a cache. The scores known so far are a
  beginning of the true ones, through batches, failures and retries; every entry of the cache
  has the true scores of some request; and requests with one key ask for the same scores
  (`SameKey`), since the key has the model, the query, and the ids and texts in their order.
  The result is then the candidates with their own scores (`PlacedIs`).

**The accounts** (`GatewayProofs`), for any tokens, requests, commands and bounds.

- Whatever happens: `GatewayInvariant`; `AccountsSafe`: `AccountsInv`; `AccessEnds`:
  `AccessEndsWithCommand`; `SessionsImplemented`: `ImplementsSessions`.
- Until something is lost: `CalmInvariant`; `AlarmNeeds`: `AlarmNeedsAccident`;
  `CookieLeads`: `CookieServes`.

That a family has one token that is not revoked (`OneUnrevoked`) depends on the row locks:
two calls never hold the same row (`LocksExclusive`), and what a call has read of the row it
holds is still so when it commits (`CallsSound`). That no access token survives a command is
a matter of counting (`VersionsCount`): as long as no two commands overlap, the version of
the user counts them, and every token carries the count of its time. The gateway needs an
invariant of its own (`Calm`), which holds until an accident: every bundle that somebody has
is live, on its way or remembered with a successor (`NothingLost`, `Remembering`), one
exchange of it is under way at most (`OnePerform`), and an answer under way is known to
nobody else (`ResultsFresh`). That the memory leads somewhere, although it is a chain of
unbounded length, follows from numbers that increase along it and from the least element of
every set of numbers (`LeastNumber`).

**Retrieval** (`RetrievalProofs`), for any documents, versions, collections, questions and
retention: `RetrievalHolds`; `CacheAnswersPresent`: `RetrievalInv`;
`AnswersNothingForeign`: `NothingForeign`; `AnswersMissNothing`: `NothingMissed`.

None of the three is inductive. A question's `must` and `may` have to be related to each
value it has read so far (`StagesSound`) and to what it can still read (`BoundsSound`). For
the cache one must know that two questions with one key have seen the same changes, also if
neither began when the other did (`TwinsSound`, `PresentSound`, `KeysSound`): then an entry
that one of them stored lies within the bounds of every other that may find it
(`EntriesSound`). `SweptSound` says that a retained manifest has lost nothing. The proof
failed for an earlier form of `NothingForeign`: a deleted collection leaves memberships
behind, which a question that has read the collection before still follows. The property
now counts the collections that were active at some time of the question (`ever`).

**Links and citations** (`RetrievalProofs!LinksLead`): `LinksSound`, under `LinkParameters`,
which says that no text of a chunk is one of the five words the model uses for the state of
a preview. `Onward` collects what the documents and the user can only do in one direction,
so that one lemma covers all their steps; the rest is that an answer is made of chunks of a
version that was searchable (`AnswerMade`) and a dialog about one citation of it
(`DialogMade`).

**Folds and ordered lists** (`DataLemmas`). The model loops with `FoldLeft` and sorts with
`Ordered`, where the code has a `for` over rows and an `ORDER BY`. Induction over lists is not
available to the provers, so both are brought to sets of numbers. `FoldLeft` is by its
definition a `CHOOSE` of a function on the subsets of `1 .. n`; `FoldExists` says that there
is one, `FoldRuns` that its value on `1 .. n` is the end of a run that takes the elements one
by one, and a property of a run is shown by `Reaches`: a set of numbers that has 0 and with
`k` also `k + 1` has all numbers up to `n`. `PlacesFilled` says that under a strict order
there is exactly one element with `k - 1` before it, and `OrderedList` that `Ordered` is
therefore a list of the whole set in that order.

**The web branch** (`RetrievalProofs!WebHolds`): `WebSound`, if the limits are numbers
(`WebParameters`), for any urls and any responses. `HitsBySteps` and `CollectedBySteps` turn
the two loops of `rag/web.py` and `web/serve.py` into runs; `CollectedSound` then says that the
candidates are the best ranked of those that lead to one page, whatever order the pages came
in, because a run goes by rank. `FetchesBounded` carries the bound of the fetches at a time
and of each chain of redirects, and `TasksLinked` what each of the two tasks has left for the
other when it fails or is cancelled.

**The conversations** (`RetrievalProofs!ConversationsHold`): `ConversationsShown`, under
`TalkParameters` (finitely many sessions, a page of at least one row, any budgets and
lengths). Three things make the invariant `TalkInv` inductive. Times differ
(`TimesApart`), also those that a transaction has taken and not committed, so a cursor
separates the rows. While sessions are listed, one that nobody touched is on the list exactly
if its time of change is at or above the cursor (`Listing`); while messages are read, what is
shown ends at the cursor and has everything older that was there at the beginning (`Reading`).
And a question that is not answered yet has no message of its own but the question itself
(`TurnsTaken`), so the history, which leaves that one out, has none. That the history fits its
budget and stays in order although rows are skipped is a property of the run of its fold
(`HistorySound`); the prompt is an end of it, and an end is not longer (`TokensOfEnd`).

**The content** (`AdmissionProofs`, `BackupProofs`, `ContentProofs`). `AdmissionHolds`,
`SnapshotsRestore` and `OneAccidentOneNight` are about the components; a behaviour of
`MCContent` is a behaviour of one of its parts, so `AdmittedOnce` (`AdmissionInv`),
`BackupHolds` (`BackupInv`) and `BackupsGoOn` (`BackupsResume`) follow step by step.

- Admission, under `Parameters` (the kinds and sizes of bodies, a positive quota, any number
  of calls, keys and faults, copies that fail, claims pruned at any time). The call that holds
  the tenant's row is alone, and what it is about to commit was computed from rows that are
  still there (`OneAtWork`); numbers have no gap (`Numbered`), so the next one is one more
  than there are rows; claims that are kept and versions correspond, also when the
  acknowledgement of a commit is lost (`ClaimsPaired`), and pruning a claim leaves that so
  (`PruneSound`).
- Backup, for any number of accidents: nothing runs while the copies of a *quiet* snapshot
  are taken (`Stopped`), so each copy equals what the stopped services left (`StagedSound`),
  also when earlier nights left services running or down. Before the first accident every
  snapshot is quiet and the script knows which services it has to start. `Undisturbed` is
  what the consistency of the running system needs until then.
- That backup and collection do not block each other is proved for at most one accident,
  since two can (section 4). The invariant `Resuming` is a timetable: when each of them may
  run, what it means that a night was missed (`NightsSound`), and how the files that an
  interrupted collection left are made up for (`MadeUpFor`), with a worker that was left
  running or down among what may have gone wrong.
- `DrillsProve`: `DrillProves` without any hypothesis. `DrillSound` says what each step of
  the drill has established.

## 6. What is only model-checked

- *Liveness.* `JobsSettle` rests on fairness and `ENABLED`, which the prover does not handle.
- *Loops over lines and over lists.* `ChunksCover` and `EvidenceSound` are about pure functions
  that go through texts and windows with recursive definitions, filter with `SelectSeq` one
  stage after the other, or keep the order of candidates of equal score with `SortSeq`, which
  the prover leaves opaque. TLC shows them for the inputs of section 3.
- *The accidents.* With a `Races` that is not empty the content and the leases are not sound
  (findings 1 and 3), and with both `stale_start` and `stale_enqueue` the manifests are not
  (finding 2). What remains true is proved under `NoStaleReads` or checked in `lost_leases`
  and `jobs_settle`: with `stale_fail` no theorem says that the manifests are sound, and the
  runs show it for two workers.
- *Old jobs.* `stored_content` explores the collection with the same assumption `~OldJobs` as
  the proofs.

## 7. Not modelled

**Parts.** The rate limiter (one atomic script and a window of numbers), configuration,
logging, metrics and readiness (wiring), offline evaluation apart from the sweep of the
gate's thresholds (batch programs over files that nothing else reads; the formula that the
service shares, `gate_answer`, is in `Evidence`), deployment apart from the backup and
restore scripts, generation and the planner's prompt (what a model answers is an input), the
embedder and the search itself, feedback, and the pages of the frontend other than the chat.

**In the pipeline.** Several tenants: every transaction locks its own tenant's row and every
query filters by tenant, so tenants meet only in the worker's job list. Time: leases and ages
are Booleans and sets. Collections of a document (they ride in the payload of points). In
`GarbageCollection`, generations are ordered by their revision, that is by their commits; the
code orders by `activated_at`, which `_activate` takes before it waits for the tenant lock
(`jobs.py:378`). The two orders differ only if several activations or deletions wait at once;
to push one of two retained manifests out takes three of them, and the versions of the active
manifest are spared by their status even then. `OldJobs = FALSE` says that a version older
than the retention period (at least seven days) has no work left when it is chosen; a job that
fails in the same minute as its version passes the cutoff could still break it.

**In the chat.** Who owns the session (an attempt for a deleted session is refused
without a trace), and other users: claims are per user, and so is the uniqueness of
`client_request_id`.

**In the accounts.** The signature and the age of access tokens (a 401 may come at any
time), password hashing, the pruning of old tokens, several users, and several gateway
processes: the deduplication is per process.

**In the content.** `Backup` takes the restic and rclone commands as single steps that
succeed or fail, leaves out retention by count, and assumes that no `admin_cli` runs and no
service restarts itself, or is restarted by hand, while the script has stopped the services;
the staging directory that a killed script leaves is not looked at. It checks safety and
bounded recovery (`BackupsResume`), not that a backup is ever taken. `Admission` leaves out
rate limits and the types and names of files; "in progress" is unreachable because claims
complete in the transaction that makes them. A call whose claim is pruned between its two
statements on it fails (`idempotency.py:101-102`) and is left out, and so are the empty
directories of failed copies. `Chunking` takes words for tokens and leaves
out byte decoding, lists and tables of docx files, and a `/` inside a heading.

**In retrieval and ranking.** The failure of single services behind a search. Scores are
whole numbers, reciprocal ranks are taken in a unit that makes them whole, similarity of
texts is given by levels. A gate without calibration always refuses and is left out.

**In the web, the conversations and the links.** Addresses and their filtering, HTTP framing
and the extraction of text appear only as a page or a failure. The signature and encoding of
cursors, the cap of 100 pages, feedback, disabled users, and the retry of a question whose
message is already stored, in `Conversations`. In `FileLinks`, users that are enabled again,
memberships of a second tenant, the rate limit, and names and headers of the response.

## 8. Plan

1. *(done)* `Catalogue`, `Ingestion`, `GarbageCollection`, their proofs.
2. *(done)* `Exchange`, `Idempotency`, `Chat` and their proofs.
3. *(done)* `Sessions`, `RefreshTokens`, `Gateway`.
4. *(done)* `Retrieval` with collections and the cache, over `Catalogue`; `WebSearch`,
   `Conversations`, `FileLinks`.
5. *(done)* `Chunking`, `CitationSanitizer`, `AnswerStream`, `ScopeHints`, `Ranking`,
   `Evidence`.
6. *(done)* `Admission`, `Backup`, `Restore`.
7. *(done)* The proofs of section 5.
8. *(done)* Folds and ordered lists in `DataLemmas`, and with them `WebSearch`,
   `Conversations`, `Ranking` and `Reranker`.
9. Further proofs. Of `Calibration` that no threshold outside the grid separates the
   observations better, once the sweep is written as a choice from a set. Of
   `Evidence`, with `Ordered` by score and place instead of `SortSeq`. That `Retrieval`,
   `Gateway` and `Chat` hold as parts of the composite runs, as it is done for `MCContent`.
