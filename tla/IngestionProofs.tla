---------------------------- MODULE IngestionProofs ----------------------------
(***************************************************************************)
(* Theorems about Ingestion and GarbageCollection, for every tenant, any   *)
(* number of workers and every choice of the bounds.  The first part is    *)
(* type correctness, and that what retrieval reads is what the document    *)
(* rows say, as long as no session trusts a job status it read before it   *)
(* locked the job: the inductive invariant behind ManifestMatchesPointers  *)
(* and the theorems that follow from it.  The second part is that what is  *)
(* published stays: the lease keeps workers apart, so that nobody touches  *)
(* the content of a version once it is searchable, and garbage collection, *)
(* which decides once and deletes step by step, deletes nothing that a     *)
(* retained manifest lists; without the timing accidents of Races.         *)
(***************************************************************************)
EXTENDS GarbageCollection, FiniteSetTheorems, TLAPS

-------------------------------------------------------------------------------
(* Type correctness *)

\* What every update of one row of a table comes to.
LEMMA RowUpdate ==
  ASSUME NEW Keys, NEW Row, NEW f \in [Keys -> Row], NEW k, NEW r, k \in Keys => r \in Row
  PROVE  [f EXCEPT ![k] = r] \in [Keys -> Row]
  OBVIOUS

\* Types of an empty tenant.
LEMMA TypeInit == Init => TypeOK
  BY ConstantsAssumption, SMT
  DEF Init, TypeOK, ConstantsAssumption, Idle, NotSeen, NoGeneration, WorkerState, Seen,
      Running, VersionStatus, JobStatus, GenStatus, NoGen, Gens, Batches,
      DocumentRow, VersionRow, JobRow, GenerationRow

\* Types after the steps of the API.
LEMMA RequestType ==
  ASSUME TypeOK, NEW v \in Versions, Request(v)
  PROVE  TypeOK'
  <1>1. CASE Upload(v) \/ Reindex(v)
    <2>1. Stage(v)
      BY <1>1 DEF Upload, Reindex
    <2>2. version' \in [Versions -> VersionRow]
      BY <2>1 DEF TypeOK, Stage, VersionRow, VersionStatus
    <2>3. job' \in [Versions -> JobRow]
      BY <2>1 DEF TypeOK, Stage, JobRow, JobStatus
    <2> QED
      BY <2>1, <2>2, <2>3 DEF TypeOK, Stage, catalogue
  <1>2. CASE Enqueue(v)
    BY <1>2 DEF TypeOK, Enqueue, catalogue, payload
  <1>3. CASE RecordQueued(v)
    <2>1. job' \in [Versions -> JobRow]
      BY <1>3 DEF TypeOK, RecordQueued, JobRow, JobStatus
    <2> QED
      BY <1>3, <2>1 DEF TypeOK, RecordQueued, catalogue, payload
  <1>4. CASE RequestGivesUp(v)
    BY <1>4 DEF TypeOK, RequestGivesUp, catalogue, payload
  <1> QED
    BY <1>1, <1>2, <1>3, <1>4 DEF Request

\* Types after a deletion.
LEMMA TombstoneType ==
  ASSUME TypeOK, NEW d \in Docs, Tombstone(d)
  PROVE  TypeOK'
  <1> DEFINE doomed == {v \in Existing(d) : version[v].status \in Pending}
  <1>1. PICK g \in Gens :
          /\ activeGen' = g
          /\ generation' =
                [h \in Gens |->
                    IF h = g
                    THEN [status |-> "active", parent |-> activeGen,
                          revision |-> revision + 1, changed |-> NoVersion,
                          manifest |-> CopyManifest(activeGen, d)]
                    ELSE IF generation[h].changed \in doomed /\ generation[h].status = "preparing"
                    THEN [generation[h] EXCEPT !.status = "failed"]
                    ELSE generation[h]]
    BY DEF Tombstone
  <1>2. CopyManifest(activeGen, d) \subseteq Versions
    BY DEF TypeOK, CopyManifest, NoGen, GenerationRow
  <1>3. generation' \in [Gens -> GenerationRow]
    BY <1>1, <1>2 DEF TypeOK, GenerationRow, GenStatus
  <1>4. activeGen' \in Gens \cup {NoGen} /\ revision' \in Nat
    BY <1>1 DEF TypeOK, Tombstone
  <1>5. document' \in [Docs -> DocumentRow]
    <2>1. document' = [document EXCEPT ![d] = [active |-> NoVersion, deleted |-> TRUE]]
      BY DEF Tombstone
    <2>2. [active |-> NoVersion, deleted |-> TRUE] \in DocumentRow
      BY DEF DocumentRow
    <2>3. document \in [Docs -> DocumentRow]
      BY DEF TypeOK
    <2> QED
      BY <2>1, <2>2, <2>3
  <1>6. version' \in [Versions -> VersionRow]
    <2>1. version' =
            [v \in Versions |->
                IF v \in doomed THEN [version[v] EXCEPT !.status = "failed"]
                ELSE IF v = document[d].active THEN [version[v] EXCEPT !.status = "superseded"]
                ELSE version[v]]
      BY DEF Tombstone
    <2>2. version \in [Versions -> VersionRow]
      BY DEF TypeOK
    <2>3. ASSUME NEW r \in VersionRow
          PROVE  /\ [r EXCEPT !.status = "failed"] \in VersionRow
                 /\ [r EXCEPT !.status = "superseded"] \in VersionRow
      BY DEF VersionRow, VersionStatus
    <2>4. ASSUME NEW v \in Versions
          PROVE  version'[v] \in VersionRow
      <3> HIDE DEF doomed
      <3>1. version[v] \in VersionRow
        BY <2>2
      <3>2. version'[v] \in {[version[v] EXCEPT !.status = "failed"],
                             [version[v] EXCEPT !.status = "superseded"], version[v]}
        BY <2>1
      <3> QED
        BY <2>3, <3>1, <3>2
    <2> HIDE DEF doomed
    <2>5. DOMAIN version' = Versions /\ version' = [v \in Versions |-> version'[v]]
      BY <2>1
    <2> QED
      BY <2>4, <2>5
  <1>7. job' \in [Versions -> JobRow]
    <2>1. job' = [v \in Versions |->
                    IF v \in doomed THEN [job[v] EXCEPT !.status = "failed"] ELSE job[v]]
      BY DEF Tombstone
    <2>2. job \in [Versions -> JobRow]
      BY DEF TypeOK
    <2>3. ASSUME NEW r \in JobRow
          PROVE  [r EXCEPT !.status = "failed"] \in JobRow
      BY DEF JobRow, JobStatus
    <2> HIDE DEF doomed
    <2> QED
      BY <2>1, <2>2, <2>3
  <1>8. /\ chunks' = chunks /\ points' = points /\ files' = files
        /\ api' = api /\ queue' = queue /\ worker' = worker /\ todo' = todo
        /\ crashes' = crashes
    BY DEF Tombstone, payload, transport
  <1> HIDE DEF doomed
  <1> QED
    BY <1>3, <1>4, <1>5, <1>6, <1>7, <1>8 DEF TypeOK

\* A free coroutine is well typed.
LEMMA IdleType == Idle \in WorkerState
  BY ConstantsAssumption
  DEF Idle, NotSeen, WorkerState, Seen, JobStatus, VersionStatus, NoGen, ConstantsAssumption

\* So is a session that has read nothing,
LEMMA NotSeenType == NotSeen \in Seen
  BY DEF NotSeen, Seen, JobStatus, VersionStatus

\* and one that has read the rows of a job.
LEMMA SeenTypes ==
  ASSUME TypeOK, NEW v \in Versions, NEW w \in Workers
  PROVE  /\ [job |-> job[v].status, fresh |-> job[v].fresh, version |-> version[v].status] \in Seen
         /\ [NotSeen EXCEPT !.job = job[v].status] \in Seen
         /\ worker[w].job = v => SeenAtStart(w) \in Seen
  <1>1. worker[w].seen \in Seen
    BY DEF TypeOK, WorkerState
  <1> QED
    BY <1>1 DEF TypeOK, Seen, JobRow, VersionRow, NotSeen, JobStatus, VersionStatus, SeenAtStart

\* Types after a job is handed out.
LEMMA TakeJobType ==
  ASSUME TypeOK, NEW w \in Workers, NEW v \in Versions,
         Deliver(w, v) \/ NextListed(w, v)
  PROVE  TypeOK'
  <1>1. ASSUME NEW arq \in BOOLEAN
        PROVE  Claimed(w, v, arq) \in WorkerState
    BY NotSeenType, SeenTypes, IdleType DEF Claimed, Idle, WorkerState
  <1>2. CASE Deliver(w, v)
    BY <1>1, <1>2 DEF TypeOK, Deliver, catalogue, payload, transport
  <1>3. CASE NextListed(w, v)
    BY <1>1, <1>3 DEF TypeOK, NextListed, catalogue, payload, transport
  <1> QED
    BY <1>2, <1>3

\* Types after process returns.
LEMMA FinishType ==
  ASSUME TypeOK, NEW w \in Workers, Finish(w)
  PROVE  worker' \in [Workers -> WorkerState] /\ queue' \subseteq Versions
  BY IdleType DEF Finish, TypeOK

\* Types after the steps of process.
LEMMA ProcessType ==
  ASSUME TypeOK, WorkersBusy, NEW w \in Workers, Process(w)
  PROVE  TypeOK'
  <1> DEFINE v == worker[w].job
  <1>1. worker[w].pc # "idle" /\ v \in Versions
    BY DEF WorkersBusy, Process, StartDeclined, Start, Persist, ClearPoints, Upsert, Validate,
           ValidateFails, MarkReady, ActivateDone, ActivateRefused, Activate, FailureIgnored,
           ReadBeforeFail, MarkFailed
  <1>2. worker \in [Workers -> WorkerState] /\ NotSeen \in Seen
    BY NotSeenType DEF TypeOK
  <1>3. CASE StartDeclined(w)
    BY <1>3, FinishType DEF TypeOK, StartDeclined, catalogue, payload
  <1>4. CASE Start(w)
    <2>1. job' \in [Versions -> JobRow]
      BY <1>4, ZenonT(60) DEF TypeOK, Start, JobRow, JobStatus
    <2>2. version' \in [Versions -> VersionRow]
      BY <1>4, ZenonT(150) DEF TypeOK, Start, VersionRow, VersionStatus
    <2>3. worker' = [worker EXCEPT ![w].pc = "parse", ![w].seen = NotSeen]
      BY <1>4 DEF Start
    <2>4. worker' \in [Workers -> WorkerState]
      BY <1>2, <2>3, ZenonT(150) DEF WorkerState, Running
    <2> QED
      BY <1>4, <2>1, <2>2, <2>4 DEF TypeOK, Start, catalogue, payload, transport
  <1>5. CASE Persist(w)
    <2>1. PICK g \in Gens :
            /\ generation' = [generation EXCEPT ![g] =
                  [status |-> "preparing", parent |-> activeGen,
                   revision |-> revision + 1, changed |-> v,
                   manifest |-> CopyManifest(activeGen, DocOf[v]) \cup {v}]]
            /\ version' = [version EXCEPT ![v] = [status |-> "processing", gen |-> g]]
            /\ worker' = [worker EXCEPT ![w].pc = "clear", ![w].gen = g]
      BY <1>5 DEF Persist
    <2>2. CopyManifest(activeGen, DocOf[v]) \subseteq Versions
      BY DEF TypeOK, CopyManifest, NoGen, GenerationRow
    <2> DEFINE new == [status |-> "preparing", parent |-> activeGen,
                       revision |-> revision + 1, changed |-> v,
                       manifest |-> CopyManifest(activeGen, DocOf[v]) \cup {v}]
    <2>9. new \in GenerationRow
      BY <1>1, <2>2 DEF TypeOK, GenerationRow, GenStatus
    <2>10. generation' = [generation EXCEPT ![g] = new] /\ generation \in [Gens -> GenerationRow]
      BY <2>1 DEF TypeOK
    <2>3. generation' \in [Gens -> GenerationRow]
      <3> HIDE DEF new
      <3> QED
        BY <2>9, <2>10, RowUpdate
    <2>4. version' \in [Versions -> VersionRow]
      BY <2>1, ZenonT(60) DEF TypeOK, VersionRow, VersionStatus
    <2>5. worker' \in [Workers -> WorkerState]
      BY <1>2, <2>1, ZenonT(150) DEF WorkerState, Running
    <2>6. job' = [job EXCEPT ![v].fresh = TRUE]
      BY <1>5 DEF Persist
    <2>7. job' \in [Versions -> JobRow]
      BY <2>6, ZenonT(60) DEF TypeOK, JobRow
    <2> QED
      BY <1>1, <1>5, <2>3, <2>4, <2>5, <2>7 DEF TypeOK, Persist, transport
  <1>6. ASSUME NEW pc \in {"idle", "claim", "failing"} \cup Running, Goto(w, pc)
        PROVE  worker' \in [Workers -> WorkerState]
    BY <1>2, <1>6 DEF Goto, WorkerState
  <1>7. CASE ClearPoints(w)
    BY <1>6, <1>7 DEF TypeOK, ClearPoints, catalogue, transport, Running
  <1>8. CASE Upsert(w)
    <2>1. worker[w].sent + 1 \in Batches
      BY <1>2, <1>8, ConstantsAssumption
      DEF WorkerState, WorkersBusy, Upsert, Batches, ConstantsAssumption
    <2>2. worker' \in [Workers -> WorkerState]
      <3>1. PICK pc \in Running :
              worker' = [worker EXCEPT ![w].sent = worker[w].sent + 1, ![w].pc = pc]
        BY <1>8 DEF Upsert, Running
      <3>2. worker[w].sent + 1 \in 0 .. NBatches
        BY <2>1 DEF Batches
      <3> QED
        BY <1>2, <3>1, <3>2, ZenonT(60) DEF WorkerState
    <2>3. points' \in [Versions -> SUBSET Batches]
      BY <1>8, <2>1, ZenonT(60) DEF TypeOK, Upsert
    <2>4. job' \in [Versions -> JobRow]
      BY <1>8, ZenonT(60) DEF TypeOK, Upsert, Beat, JobRow
    <2> QED
      BY <1>8, <2>2, <2>3, <2>4 DEF TypeOK, Upsert, catalogue, transport
  <1>9. CASE Validate(w) \/ ValidateFails(w)
    BY <1>6, <1>9
    DEF TypeOK, Validate, ValidateFails, catalogue, payload, transport, Running
  <1>10. CASE MarkReady(w)
    <2>1. version' \in [Versions -> VersionRow]
      BY <1>10, ZenonT(60) DEF TypeOK, MarkReady, VersionRow, VersionStatus
    <2>2. job' \in [Versions -> JobRow]
      BY <1>10, ZenonT(60) DEF TypeOK, MarkReady, JobRow
    <2> QED
      BY <1>6, <1>10, <2>1, <2>2 DEF TypeOK, MarkReady, catalogue, payload, transport, Running
  <1>11. CASE ActivateDone(w)
    BY <1>11, FinishType DEF TypeOK, ActivateDone, catalogue, payload
  <1>12. CASE ActivateRefused(w)
    BY <1>6, <1>12 DEF TypeOK, ActivateRefused, catalogue, payload, transport
  <1>13. CASE Activate(w)
    <2> DEFINE g == worker[w].gen
    <2>1. g \in Gens \cup {NoGen}
      BY <1>2 DEF WorkerState
    <2>2. ActivatedManifest(g, v) \subseteq Versions \/ g = NoGen
      BY <1>1, <2>1 DEF TypeOK, GenerationRow, ActivatedManifest, CopyManifest, NoGen
    <2>3. generation' = [generation EXCEPT
              ![g].status = "active", ![g].parent = activeGen, ![g].revision = revision + 1,
              ![g].manifest = ActivatedManifest(g, v)]
      BY <1>13 DEF Activate
    <2>4. NoGen \notin Gens
      BY DEF NoGen, Gens
    <2>5. generation' \in [Gens -> GenerationRow]
      <3>1. generation \in [Gens -> GenerationRow] /\ revision + 1 \in Nat
               /\ activeGen \in Gens \cup {NoGen}
        BY DEF TypeOK
      <3>2. CASE g = NoGen
        BY <2>3, <2>4, <3>1, <3>2
      <3>3. CASE g \in Gens
        <4> DEFINE row == [generation[g] EXCEPT
                     !.status = "active", !.parent = activeGen, !.revision = revision + 1,
                     !.manifest = ActivatedManifest(g, v)]
        <4>1. generation[g] \in GenerationRow /\ ActivatedManifest(g, v) \subseteq Versions
          BY <2>2, <2>4, <3>1, <3>3
        <4>2. row \in GenerationRow
          BY <3>1, <4>1 DEF GenerationRow, GenStatus
        <4>3. generation' = [generation EXCEPT ![g] = row]
          BY <2>3, <3>1, <3>3
        <4> HIDE DEF row
        <4> QED
          BY <3>1, <4>2, <4>3, RowUpdate
      <3> QED
        BY <2>1, <3>2, <3>3
    <2>6. document' \in [Docs -> DocumentRow]
      BY <1>1, <1>13, ZenonT(60) DEF TypeOK, Activate, DocumentRow
    <2>7. version' \in [Versions -> VersionRow]
      BY <1>13, ZenonT(150) DEF TypeOK, Activate, VersionRow, VersionStatus
    <2>8. job' \in [Versions -> JobRow]
      BY <1>13, ZenonT(60) DEF TypeOK, Activate, JobRow, JobStatus
    <2>9. activeGen' \in Gens \cup {NoGen} /\ revision' \in Nat /\ Finish(w)
      BY <1>13, <2>1 DEF TypeOK, Activate
    <2> QED
      BY <1>13, <2>5, <2>6, <2>7, <2>8, <2>9, FinishType DEF TypeOK, Activate, payload
  <1>14. CASE FailureIgnored(w)
    BY <1>14, FinishType DEF TypeOK, FailureIgnored, catalogue, payload
  <1>15. CASE ReadBeforeFail(w)
    <2>1. PICK seen \in Seen : worker' = [worker EXCEPT ![w].seen = seen]
      BY <1>1, <1>15, SeenTypes DEF ReadBeforeFail
    <2>2. worker' \in [Workers -> WorkerState]
      BY <1>2, <2>1, ZenonT(60) DEF WorkerState
    <2> QED
      BY <1>15, <2>2 DEF TypeOK, ReadBeforeFail, catalogue, payload, transport
  <1>16. CASE MarkFailed(w)
    <2>1. job' \in [Versions -> JobRow]
      BY <1>16, ZenonT(60) DEF TypeOK, MarkFailed, JobRow, JobStatus
    <2>2. version' \in [Versions -> VersionRow]
      BY <1>16, ZenonT(60) DEF TypeOK, MarkFailed, VersionRow, VersionStatus
    <2>3. \/ generation' = generation
          \/ \E g \in Gens \cup {NoGen} : generation' = [generation EXCEPT ![g].status = "failed"]
      BY <1>1, <1>16 DEF TypeOK, MarkFailed, VersionRow
    <2>4. generation' \in [Gens -> GenerationRow]
      <3>1. generation \in [Gens -> GenerationRow]
        BY DEF TypeOK
      <3>2. ASSUME NEW r \in GenerationRow
            PROVE  [r EXCEPT !.status = "failed"] \in GenerationRow
        BY DEF GenerationRow, GenStatus
      <3>3. CASE generation' = generation
        BY <3>1, <3>3
      <3>4. ASSUME NEW g \in Gens \cup {NoGen},
                   generation' = [generation EXCEPT ![g].status = "failed"]
            PROVE  generation' \in [Gens -> GenerationRow]
        <4>1. g \in Gens => [generation[g] EXCEPT !.status = "failed"] \in GenerationRow
          BY <3>1, <3>2
        <4>2. generation' = [generation EXCEPT ![g] = [generation[g] EXCEPT !.status = "failed"]]
          BY <3>4
        <4> QED
          BY <3>1, <4>1, <4>2, RowUpdate
      <3> QED
        BY <2>3, <3>3, <3>4
    <2> QED
      BY <1>16, <2>1, <2>2, <2>4, FinishType DEF TypeOK, MarkFailed, payload
  <1> QED
    BY <1>3, <1>4, <1>5, <1>7, <1>8, <1>9, <1>10, <1>11, <1>12, <1>13, <1>14, <1>15, <1>16
    DEF Process

\* Types after exceptions, heartbeats and crashes.
LEMMA AccidentType ==
  ASSUME TypeOK, WorkersBusy, NEW w \in Workers, StepFails(w) \/ Heartbeat(w) \/ Crash(w)
  PROVE  TypeOK'
  <1>1. CASE StepFails(w)
    <2>1. worker' = [worker EXCEPT ![w].pc = "failing", ![w].seen = NotSeen]
      BY <1>1 DEF StepFails
    <2>2. worker \in [Workers -> WorkerState] /\ NotSeen \in Seen
      BY NotSeenType DEF TypeOK
    <2>3. worker' \in [Workers -> WorkerState]
      BY <2>1, <2>2, ZenonT(60) DEF WorkerState
    <2> QED
      BY <1>1, <2>3 DEF TypeOK, StepFails, catalogue, payload, transport
  <1>2. CASE Heartbeat(w)
    <2>1. job' \in [Versions -> JobRow]
      BY <1>2, ZenonT(60) DEF TypeOK, Heartbeat, Beat, JobRow
    <2> QED
      BY <1>2, <2>1 DEF TypeOK, Heartbeat, catalogue, payload, transport
  <1>3. CASE Crash(w)
    <2>1. crashes' \in 0 .. MaxCrashes
      BY <1>3, ConstantsAssumption DEF TypeOK, Crash, ConstantsAssumption
    <2> QED
      BY <1>3, <2>1, IdleType DEF TypeOK, Crash, catalogue, payload, transport
  <1> QED
    BY <1>1, <1>2, <1>3

\* Types after a lease lapses.
LEMMA LeaseType ==
  ASSUME TypeOK, NEW v \in Versions, LeaseExpires(v)
  PROVE  TypeOK'
  <1>1. job' \in [Versions -> JobRow]
    BY DEF TypeOK, LeaseExpires, JobRow
  <1> QED
    BY <1>1 DEF TypeOK, LeaseExpires, catalogue, payload, transport

\* Nobody is busy in an empty tenant.
LEMMA BusyInit == Init => WorkersBusy
  BY DEF Init, WorkersBusy, Idle

\* A worker past its claim has a job, and counts its batches.
LEMMA BusyStep ==
  ASSUME TypeOK, WorkersBusy, [Next]_vars
  PROVE  WorkersBusy'
  <1>1. SUFFICES ASSUME NEW x \in Workers
                 PROVE  /\ worker'[x].pc # "idle" => worker'[x].job \in Versions
                        /\ worker'[x].pc \in {"claim", "parse", "clear"} => worker'[x].sent = 0
                        /\ worker'[x].pc = "embed" => worker'[x].sent < NBatches
    BY DEF WorkersBusy
  <1>2. worker \in [Workers -> WorkerState]
    BY DEF TypeOK
  <1> USE <1>2 DEF WorkersBusy
  <1>3. CASE worker' = worker
    BY <1>3
  <1>4. ASSUME NEW w \in Workers, Finish(w) \/ worker' = [worker EXCEPT ![w] = Idle]
        PROVE  WorkersBusy'
    BY <1>4 DEF Finish, Idle, WorkerState
  <1>5. ASSUME NEW w \in Workers, NEW pc \in {"validate", "ready", "activate", "failing"},
               worker[w].pc # "idle", Goto(w, pc)
        PROVE  WorkersBusy'
    BY <1>5 DEF Goto, WorkerState
  <1>6. ASSUME NEW w \in Workers, NEW v \in Versions, Deliver(w, v) \/ NextListed(w, v)
        PROVE  WorkersBusy'
    <2>1. PICK arq \in BOOLEAN : worker' = [worker EXCEPT ![w] = Claimed(w, v, arq)]
      BY <1>6 DEF Deliver, NextListed
    <2>2. LET c == Claimed(w, v, arq) IN c.pc = "claim" /\ c.job = v /\ c.sent = 0
      BY DEF Claimed, Idle
    <2> QED
      BY <2>1, <2>2
  <1>7. ASSUME NEW w \in Workers, Process(w)
        PROVE  WorkersBusy'
    <2>1. CASE Start(w)
      BY <2>1 DEF Start, WorkerState
    <2>2. CASE Persist(w)
      BY <2>2 DEF Persist, WorkerState
    <2>3. CASE ClearPoints(w)
      BY <2>3, ConstantsAssumption DEF ClearPoints, Goto, WorkerState, ConstantsAssumption
    <2>4. CASE Upsert(w)
      <3>1. PICK pc \in {"embed", "validate"} :
              /\ worker' = [worker EXCEPT ![w].sent = worker[w].sent + 1, ![w].pc = pc]
              /\ pc = "embed" => worker[w].sent + 1 # NBatches
        BY <2>4 DEF Upsert
      <3>2. worker[w].sent \in Nat /\ worker[w].sent < NBatches /\ worker[w].job \in Versions
        BY <2>4 DEF Upsert, WorkerState
      <3>3. pc = "embed" => worker[w].sent + 1 < NBatches
        BY <3>1, <3>2, ConstantsAssumption DEF ConstantsAssumption
      <3>4. worker'[w] = [worker[w] EXCEPT !.sent = worker[w].sent + 1, !.pc = pc]
        BY <3>1
      <3>5. worker'[w].job = worker[w].job /\ worker'[w].sent = worker[w].sent + 1
               /\ worker'[w].pc = pc
        BY <3>4 DEF WorkerState
      <3>6. \A y \in Workers \ {w} : worker'[y] = worker[y]
        BY <3>1
      <3> QED
        BY <3>2, <3>3, <3>5, <3>6
    <2>5. CASE Validate(w) \/ ValidateFails(w) \/ MarkReady(w) \/ ActivateRefused(w)
      BY <2>5, <1>5 DEF Validate, ValidateFails, MarkReady, ActivateRefused
    <2>6. CASE StartDeclined(w) \/ ActivateDone(w) \/ Activate(w) \/ FailureIgnored(w)
               \/ MarkFailed(w)
      BY <2>6, <1>4 DEF StartDeclined, ActivateDone, Activate, FailureIgnored, MarkFailed
    <2>7. CASE ReadBeforeFail(w)
      BY <2>7 DEF ReadBeforeFail, WorkerState
    <2> QED
      BY <1>7, <2>1, <2>2, <2>3, <2>4, <2>5, <2>6, <2>7 DEF Process
  <1>8. ASSUME NEW w \in Workers, StepFails(w)
        PROVE  WorkersBusy'
    BY <1>8 DEF StepFails, WorkerState, Running
  <1>9. ASSUME NEW v \in Versions, Request(v) \/ LeaseExpires(v)
        PROVE  worker' = worker
    BY <1>9 DEF Request, Upload, Reindex, Stage, Enqueue, RecordQueued, RequestGivesUp,
                LeaseExpires
  <1>10. ASSUME NEW d \in Docs, Tombstone(d)
         PROVE  worker' = worker
    BY <1>10 DEF Tombstone
  <1>11. ASSUME NEW w \in Workers, ListJobs(w) \/ Heartbeat(w) \/ Crash(w)
         PROVE  worker' = worker \/ worker' = [worker EXCEPT ![w] = Idle]
    BY <1>11 DEF ListJobs, Heartbeat, Crash
  <1>12. CASE UNCHANGED vars
    BY <1>12, <1>3 DEF vars
  <1> QED
    BY <1>3, <1>4, <1>6, <1>7, <1>8, <1>9, <1>10, <1>11, <1>12 DEF Next

\* Every step keeps the types.
LEMMA TypeStep ==
  ASSUME TypeOK, WorkersBusy, [Next]_vars
  PROVE  TypeOK'
  <1>1. CASE UNCHANGED vars
    BY <1>1 DEF TypeOK, vars, catalogue, payload, transport
  <1>2. ASSUME NEW v \in Versions, Request(v)
        PROVE  TypeOK'
    BY <1>2, RequestType
  <1>3. ASSUME NEW d \in Docs, Tombstone(d)
        PROVE  TypeOK'
    BY <1>3, TombstoneType
  <1>4. ASSUME NEW w \in Workers, NEW v \in Versions, Deliver(w, v) \/ NextListed(w, v)
        PROVE  TypeOK'
    BY <1>4, TakeJobType
  <1>5. ASSUME NEW w \in Workers, ListJobs(w)
        PROVE  TypeOK'
    BY <1>5 DEF TypeOK, ListJobs, Reconcilable, catalogue, payload, transport
  <1>6. ASSUME NEW w \in Workers, Process(w)
        PROVE  TypeOK'
    BY <1>6, ProcessType
  <1>7. ASSUME NEW w \in Workers, StepFails(w) \/ Heartbeat(w) \/ Crash(w)
        PROVE  TypeOK'
    BY <1>7, AccidentType
  <1>8. ASSUME NEW v \in Versions, LeaseExpires(v)
        PROVE  TypeOK'
    BY <1>8, LeaseType
  <1> QED
    BY <1>1, <1>2, <1>3, <1>4, <1>5, <1>6, <1>7, <1>8 DEF Next

\* Every variable keeps its type in every behaviour, whatever the races, for any
\* number of workers, documents, versions and batches.
THEOREM TypeCorrect == Spec => [](TypeOK /\ WorkersBusy)
  <1>1. Init => TypeOK /\ WorkersBusy
    BY TypeInit, BusyInit
  <1>2. TypeOK /\ WorkersBusy /\ [Next]_vars => (TypeOK /\ WorkersBusy)'
    BY TypeStep, BusyStep
  <1> QED
    BY <1>1, <1>2, PTL DEF Spec

-------------------------------------------------------------------------------
(* The searchable catalogue *)

\* The values that stand for NULL are not ids.
LEMMA Constant == NoGen \notin Gens /\ NoVersion \notin Versions
  BY ConstantsAssumption DEF NoGen, Gens, ConstantsAssumption

\* An empty tenant.
LEMMA InvInit == Init => IngestionInv
  <1> SUFFICES ASSUME Init PROVE IngestionInv
    OBVIOUS
  <1>1. TypeOK /\ WorkersBusy
    BY TypeInit, BusyInit
  <1>2. GenerationsLinked /\ PublishedOnce /\ PreparedFromParent
    BY DEF Init, GenerationsLinked, PublishedOnce, PreparedFromParent, NoGeneration, NoGen
  <1>3. WorkersOwnGeneration
    BY DEF Init, WorkersOwnGeneration, Idle, Running
  <1>4. JobsFollowVersions
    BY DEF Init, JobsFollowVersions
  <1>5. ManifestMatchesPointers
    BY DEF Init, ManifestMatchesPointers, Visible
  <1> QED
    BY <1>1, <1>2, <1>3, <1>4, <1>5 DEF IngestionInv

-------------------------------------------------------------------------------
(* Steps that leave the catalogue alone *)

\* Such a step keeps the invariant if it reopens no succeeded job and its workers
\* still own their generations.
LEMMA QuietStep ==
  ASSUME IngestionInv, UNCHANGED catalogue, WorkersOwnGeneration',
         \A v \in Versions : job[v].status = "succeeded" => job'[v].status = "succeeded",
         \A v \in Versions : version'[v].status = "none" => job'[v].status = "none"
  PROVE  /\ GenerationsLinked' /\ PublishedOnce' /\ PreparedFromParent'
         /\ JobsFollowVersions' /\ ManifestMatchesPointers'
  <1> USE DEF IngestionInv, catalogue
  <1>1. GenerationsLinked'
    BY DEF GenerationsLinked
  <1>2. PublishedOnce'
    BY DEF PublishedOnce
  <1>3. PreparedFromParent'
    BY DEF PreparedFromParent, CopyManifest
  <1>4. JobsFollowVersions'
    <2>1. \A d \in Docs : document[d].active # NoVersion => document[d].active \in Versions
      BY DEF TypeOK, DocumentRow
    <2> QED
      BY <2>1 DEF JobsFollowVersions
  <1>5. ManifestMatchesPointers'
    BY DEF ManifestMatchesPointers, Visible
  <1> QED
    BY <1>1, <1>2, <1>3, <1>4, <1>5

\* A worker keeps its job and generation while it moves on inside process.
LEMMA OwnershipKept ==
  ASSUME IngestionInv, UNCHANGED generation, NEW w \in Workers,
         \A x \in Workers \ {w} : worker'[x] = worker[x],
         \/ worker'[w].pc \notin Running \ {"parse"}
         \/ /\ worker[w].pc \in Running \ {"parse"}
            /\ worker'[w].job = worker[w].job
            /\ worker'[w].gen = worker[w].gen
  PROVE  WorkersOwnGeneration'
  BY DEF IngestionInv, WorkersOwnGeneration

\* Uploads, reindexings and their way into the queue.
LEMMA RequestInv ==
  ASSUME NoStaleReads, IngestionInv, NEW v \in Versions, Request(v)
  PROVE  /\ GenerationsLinked' /\ PublishedOnce' /\ PreparedFromParent'
         /\ JobsFollowVersions' /\ ManifestMatchesPointers' /\ WorkersOwnGeneration'
  <1>1. UNCHANGED <<catalogue, worker>>
    BY DEF Request, Upload, Reindex, Stage, Enqueue, RecordQueued, RequestGivesUp
  <1>2. WorkersOwnGeneration'
    BY <1>1 DEF WorkersOwnGeneration, IngestionInv, catalogue
  <1>3. CASE Upload(v) \/ Reindex(v)
    <2>1. Stage(v) /\ version[v].status = "none"
      BY <1>3 DEF Upload, Reindex, IsNextVersion
    <2>2. job[v].status = "none"
      BY <2>1 DEF IngestionInv, JobsFollowVersions
    <2>3. \A u \in Versions : job[u].status = "succeeded" => job'[u].status = "succeeded"
      BY <2>1, <2>2 DEF Stage, IngestionInv, TypeOK
    <2>4. \A u \in Versions : version'[u].status = "none" => job'[u].status = "none"
      BY <2>1 DEF Stage, IngestionInv, TypeOK, VersionRow, JobsFollowVersions
    <2> QED
      BY <1>1, <1>2, <2>3, <2>4, QuietStep DEF catalogue
  <1>4. CASE Enqueue(v) \/ RequestGivesUp(v)
    <2>1. UNCHANGED <<version, job>>
      BY <1>4 DEF Enqueue, RequestGivesUp
    <2> QED
      BY <1>1, <1>2, <2>1, QuietStep DEF IngestionInv, JobsFollowVersions
  <1>5. CASE RecordQueued(v)
    <2>1. UNCHANGED version
      BY <1>5 DEF RecordQueued
    <2>2. \/ UNCHANGED job
          \/ /\ job[v].status = "staged"
             /\ job' = [job EXCEPT ![v] = [status |-> "queued", fresh |-> TRUE]]
      BY <1>5 DEF RecordQueued, SeenByRequest, NoStaleReads
    <2>3. job \in [Versions -> JobRow]
      BY DEF IngestionInv, TypeOK
    <2>4. \A u \in Versions : version[u].status = "none" => job[u].status = "none"
      BY DEF IngestionInv, JobsFollowVersions
    <2>5. /\ \A u \in Versions : job[u].status = "succeeded" => job'[u].status = "succeeded"
          /\ \A u \in Versions : version'[u].status = "none" => job'[u].status = "none"
      BY <2>1, <2>2, <2>3, <2>4
    <2> QED
      BY <1>1, <1>2, <2>5, QuietStep DEF catalogue
  <1> QED
    BY <1>3, <1>4, <1>5 DEF Request

\* Steps of workers and clocks that touch neither the catalogue nor the job status.
LEMMA IdleStepInv ==
  ASSUME IngestionInv, UNCHANGED <<catalogue, version>>, WorkersOwnGeneration',
         \A v \in Versions : job'[v].status = job[v].status
  PROVE  /\ GenerationsLinked' /\ PublishedOnce' /\ PreparedFromParent'
         /\ JobsFollowVersions' /\ ManifestMatchesPointers' /\ WorkersOwnGeneration'
  BY QuietStep DEF IngestionInv, JobsFollowVersions

\* ARQ and reconciliation hand out jobs.
LEMMA TakeJobInv ==
  ASSUME IngestionInv, NEW w \in Workers,
         ListJobs(w) \/ \E v \in Versions : Deliver(w, v) \/ NextListed(w, v)
  PROVE  /\ GenerationsLinked' /\ PublishedOnce' /\ PreparedFromParent'
         /\ JobsFollowVersions' /\ ManifestMatchesPointers' /\ WorkersOwnGeneration'
  <1>1. UNCHANGED <<catalogue, version, job>>
    BY DEF ListJobs, Deliver, NextListed
  <1>2. CASE ListJobs(w)
    BY <1>1, <1>2, IdleStepInv DEF ListJobs, WorkersOwnGeneration, IngestionInv, catalogue
  <1>3. ASSUME NEW v \in Versions, Deliver(w, v) \/ NextListed(w, v)
        PROVE  WorkersOwnGeneration'
    <2>1. PICK arq \in BOOLEAN : worker' = [worker EXCEPT ![w] = Claimed(w, v, arq)]
      BY <1>3 DEF Deliver, NextListed
    <2>2. worker \in [Workers -> WorkerState]
      BY DEF IngestionInv, TypeOK
    <2>3. /\ worker'[w].pc = "claim"
          /\ \A x \in Workers \ {w} : worker'[x] = worker[x]
      BY <2>1, <2>2 DEF Claimed, Idle
    <2> QED
      BY <1>1, <2>3, OwnershipKept DEF Running, catalogue
  <1> QED
    BY <1>1, <1>2, <1>3, IdleStepInv

\* Exceptions, heartbeats and crashes.
LEMMA AccidentInv ==
  ASSUME IngestionInv, NEW w \in Workers, StepFails(w) \/ Heartbeat(w) \/ Crash(w)
  PROVE  /\ GenerationsLinked' /\ PublishedOnce' /\ PreparedFromParent'
         /\ JobsFollowVersions' /\ ManifestMatchesPointers' /\ WorkersOwnGeneration'
  <1>1. worker \in [Workers -> WorkerState] /\ job \in [Versions -> JobRow]
    BY DEF IngestionInv, TypeOK
  <1>2. CASE StepFails(w)
    <2>1. UNCHANGED <<catalogue, version, job>>
      BY <1>2 DEF StepFails
    <2>2. /\ worker'[w].pc = "failing"
          /\ \A x \in Workers \ {w} : worker'[x] = worker[x]
      BY <1>1, <1>2 DEF StepFails, WorkerState
    <2> QED
      BY <2>1, <2>2, IdleStepInv, OwnershipKept DEF Running, catalogue
  <1>3. CASE Heartbeat(w)
    <2>1. UNCHANGED <<catalogue, version, worker>>
      BY <1>3 DEF Heartbeat
    <2>2. \A v \in Versions : job'[v].status = job[v].status
      BY <1>1, <1>3 DEF Heartbeat, Beat, JobRow
    <2> QED
      BY <2>1, <2>2, IdleStepInv DEF IngestionInv, WorkersOwnGeneration, catalogue
  <1>4. CASE Crash(w)
    <2>1. UNCHANGED <<catalogue, version, job>>
      BY <1>4 DEF Crash
    <2>2. /\ worker'[w].pc = "idle"
          /\ \A x \in Workers \ {w} : worker'[x] = worker[x]
      BY <1>1, <1>4 DEF Crash, Idle
    <2> QED
      BY <2>1, <2>2, IdleStepInv, OwnershipKept DEF Running, catalogue
  <1> QED
    BY <1>2, <1>3, <1>4

\* A lease lapses.
LEMMA LeaseInv ==
  ASSUME IngestionInv, NEW v \in Versions, LeaseExpires(v)
  PROVE  /\ GenerationsLinked' /\ PublishedOnce' /\ PreparedFromParent'
         /\ JobsFollowVersions' /\ ManifestMatchesPointers' /\ WorkersOwnGeneration'
  <1>1. UNCHANGED <<catalogue, version, worker>>
    BY DEF LeaseExpires
  <1>2. \A u \in Versions : job'[u].status = job[u].status
    BY DEF LeaseExpires, IngestionInv, TypeOK, JobRow
  <1> QED
    BY <1>1, <1>2, IdleStepInv DEF IngestionInv, WorkersOwnGeneration, catalogue

-------------------------------------------------------------------------------
(* Steps of process *)

\* The steps of process that leave the catalogue alone.
LEMMA QuietProcessInv ==
  ASSUME NoStaleReads, IngestionInv, NEW w \in Workers,
         \/ StartDeclined(w) \/ Start(w) \/ ClearPoints(w) \/ Upsert(w) \/ Validate(w)
         \/ ValidateFails(w) \/ MarkReady(w) \/ ActivateDone(w) \/ ActivateRefused(w)
         \/ FailureIgnored(w) \/ ReadBeforeFail(w)
  PROVE  /\ GenerationsLinked' /\ PublishedOnce' /\ PreparedFromParent'
         /\ JobsFollowVersions' /\ ManifestMatchesPointers' /\ WorkersOwnGeneration'
  <1> DEFINE v == worker[w].job
  <1>1. worker \in [Workers -> WorkerState] /\ job \in [Versions -> JobRow]
           /\ version \in [Versions -> VersionRow]
    BY DEF IngestionInv, TypeOK
  <1>2. \A u \in Versions : version[u].status = "none" => job[u].status = "none"
    BY DEF IngestionInv, JobsFollowVersions
  <1>3. ASSUME Finish(w)
        PROVE  \A x \in Workers : worker'[x] = worker[x] \/ worker'[x].pc = "idle"
    BY <1>1, <1>3 DEF Finish, Idle
  <1>4. ASSUME NEW pc, Goto(w, pc)
        PROVE  /\ \A x \in Workers \ {w} : worker'[x] = worker[x]
               /\ worker'[w].pc = pc /\ worker'[w].job = v /\ worker'[w].gen = worker[w].gen
    BY <1>1, <1>4 DEF Goto, WorkerState
  <1>5. CASE StartDeclined(w) \/ ActivateDone(w) \/ FailureIgnored(w)
    <2>1. UNCHANGED <<catalogue, version, job>> /\ Finish(w)
      BY <1>5 DEF StartDeclined, ActivateDone, FailureIgnored
    <2>2. WorkersOwnGeneration'
      BY <1>3, <2>1 DEF IngestionInv, WorkersOwnGeneration, Running, catalogue
    <2> QED
      BY <2>1, <2>2, IdleStepInv
  <1>6. CASE ClearPoints(w) \/ Validate(w) \/ ValidateFails(w) \/ ActivateRefused(w)
    <2>1. UNCHANGED <<catalogue, version, job>>
      BY <1>6 DEF ClearPoints, Validate, ValidateFails, ActivateRefused
    <2>2. /\ worker[w].pc \in Running \ {"parse"}
          /\ \E pc \in {"embed", "ready", "failing"} : Goto(w, pc)
      BY <1>6 DEF ClearPoints, Validate, ValidateFails, ActivateRefused, Running
    <2>3. WorkersOwnGeneration'
      BY <1>4, <2>1, <2>2, OwnershipKept DEF catalogue
    <2> QED
      BY <2>1, <2>3, IdleStepInv
  <1>7. CASE Start(w)
    <2> DEFINE seen == SeenAtStart(w)
    <2>1. seen.job = job[v].status /\ seen.job # "succeeded"
      BY <1>7 DEF Start, SeenAtStart, Taken, NoStaleReads
    <2>2. UNCHANGED catalogue
      BY <1>7 DEF Start
    <2>3. /\ job' = [job EXCEPT ![v] =
                [status |-> IF seen.job = "processing" THEN job[v].status ELSE "processing",
                 fresh |-> TRUE]]
          /\ version' = [version EXCEPT ![v].status =
                IF seen.version = "processing" THEN version[v].status ELSE "processing"]
          /\ worker' = [worker EXCEPT ![w].pc = "parse", ![w].seen = NotSeen]
      BY <1>7 DEF Start
    <2>4. v \in Versions /\ seen.version = version[v].status
      BY <1>7 DEF Start, IngestionInv, WorkersBusy, SeenAtStart, NoStaleReads
    <2>5. \A u \in Versions : job[u].status = "succeeded" => job'[u].status = "succeeded"
      BY <1>1, <2>1, <2>3
    <2>6. \A u \in Versions : version'[u].status = "none" => job'[u].status = "none"
      BY <1>1, <1>2, <2>3, <2>4 DEF VersionRow
    <2>7. /\ worker'[w].pc = "parse"
          /\ \A x \in Workers \ {w} : worker'[x] = worker[x]
      BY <1>1, <2>3 DEF WorkerState
    <2>8. WorkersOwnGeneration'
      BY <2>2, <2>7, OwnershipKept DEF catalogue
    <2> QED
      BY <2>2, <2>5, <2>6, <2>8, QuietStep
  <1>8. CASE Upsert(w)
    <2>1. UNCHANGED <<catalogue, version>>
      BY <1>8 DEF Upsert
    <2>2. \A u \in Versions : job'[u].status = job[u].status
      BY <1>1, <1>8 DEF Upsert, Beat, JobRow
    <2>3. PICK pc : worker' = [worker EXCEPT ![w].sent = worker[w].sent + 1, ![w].pc = pc]
      BY <1>8 DEF Upsert
    <2>4. /\ worker'[w].job = v /\ worker'[w].gen = worker[w].gen
          /\ \A x \in Workers \ {w} : worker'[x] = worker[x]
      BY <1>1, <2>3 DEF WorkerState
    <2>5. WorkersOwnGeneration'
      BY <1>8, <2>1, <2>4, OwnershipKept DEF Upsert, Running, catalogue
    <2> QED
      BY <2>1, <2>2, <2>5, IdleStepInv
  <1>9. CASE MarkReady(w)
    <2>1. UNCHANGED catalogue /\ Goto(w, "activate") /\ worker[w].pc = "ready"
      BY <1>9 DEF MarkReady
    <2>2. WorkersOwnGeneration'
      BY <1>4, <2>1, OwnershipKept DEF Running, catalogue
    <2>3. \A u \in Versions : job'[u].status = job[u].status
      BY <1>1, <1>9 DEF MarkReady, JobRow
    <2>4. \A u \in Versions : version'[u].status = "none" => version[u].status = "none"
      BY <1>1, <1>9 DEF MarkReady, VersionRow
    <2> QED
      BY <1>2, <2>1, <2>2, <2>3, <2>4, QuietStep
  <1>10. CASE ReadBeforeFail(w)
    BY <1>10 DEF ReadBeforeFail, NoStaleReads
  <1> QED
    BY <1>5, <1>6, <1>7, <1>8, <1>9, <1>10

\* The preparing generation is not the active one and nobody's parent, so writing it
\* shows nothing.
LEMMA PersistInv ==
  ASSUME IngestionInv, NEW w \in Workers, Persist(w)
  PROVE  /\ GenerationsLinked' /\ PublishedOnce' /\ PreparedFromParent'
         /\ JobsFollowVersions' /\ ManifestMatchesPointers' /\ WorkersOwnGeneration'
  <1> DEFINE v == worker[w].job
             new == [status |-> "preparing", parent |-> activeGen, revision |-> revision + 1,
                     changed |-> v, manifest |-> CopyManifest(activeGen, DocOf[v]) \cup {v}]
  <1>1. /\ worker \in [Workers -> WorkerState] /\ job \in [Versions -> JobRow]
        /\ version \in [Versions -> VersionRow] /\ generation \in [Gens -> GenerationRow]
        /\ activeGen \in Gens \cup {NoGen}
    BY DEF IngestionInv, TypeOK
  <1>2. v \in Versions
    BY DEF Persist, IngestionInv, WorkersBusy
  <1>3. PICK g \in Gens :
          /\ \/ generation[g].status = "none"
             \/ generation[g].status = "preparing" /\ generation[g].changed = v
          /\ generation' = [generation EXCEPT ![g] = new]
          /\ version' = [version EXCEPT ![v] = [status |-> "processing", gen |-> g]]
          /\ worker' = [worker EXCEPT ![w].pc = "clear", ![w].gen = g]
    <2> HIDE DEF new
    <2> QED
      BY DEF Persist, IsNewGen, new
  <1>4. UNCHANGED <<activeGen, document>> /\ job' = [job EXCEPT ![v].fresh = TRUE]
    BY DEF Persist
  <1>5. generation'[g] = new /\ \A h \in Gens \ {g} : generation'[h] = generation[h]
    BY <1>1, <1>3
  <1>6. \A u \in Versions : job'[u].status = job[u].status
    BY <1>1, <1>4 DEF JobRow
  <1>7. activeGen # g
    BY <1>3, Constant DEF IngestionInv, GenerationsLinked
  <1>8. activeGen # NoGen => generation'[activeGen] = generation[activeGen]
    BY <1>1, <1>5, <1>7
  <1>9. \A h \in Gens : generation[h].parent \in Gens \cup {NoGen}
    BY <1>1 DEF GenerationRow
  <1>10. GenerationsLinked'
    <2>1. \A h \in Gens : generation[h].parent # NoGen =>
            generation'[generation[h].parent].status = "active"
      BY <1>3, <1>5, <1>9 DEF IngestionInv, GenerationsLinked
    <2>2. activeGen # NoGen => generation'[activeGen].status = "active"
      BY <1>8 DEF IngestionInv, GenerationsLinked
    <2>3. \A h \in Gens :
            /\ generation'[h].status = "none" => generation'[h].changed = NoVersion
            /\ generation'[h].status \in {"preparing", "failed"} =>
                  generation'[h].changed \in Versions
      BY <1>2, <1>5 DEF IngestionInv, GenerationsLinked
    <2> QED
      BY <1>4, <1>5, <2>1, <2>2, <2>3 DEF GenerationsLinked
  <1>11. PublishedOnce'
    BY <1>4, <1>5, <1>6 DEF IngestionInv, PublishedOnce
  <1>12. PreparedFromParent'
    BY <1>4, <1>5, <1>8 DEF IngestionInv, PreparedFromParent, CopyManifest
  <1>13. JobsFollowVersions'
    <2>1. \A d \in Docs : document[d].active # NoVersion => document[d].active \in Versions
      BY DEF IngestionInv, TypeOK, DocumentRow
    <2>2. \A u \in Versions : version'[u].status = "none" => version[u].status = "none"
      BY <1>1, <1>3
    <2> QED
      BY <1>4, <1>6, <2>1, <2>2 DEF IngestionInv, JobsFollowVersions
  <1>14. ManifestMatchesPointers'
    BY <1>4, <1>8 DEF IngestionInv, ManifestMatchesPointers, Visible
  <1>15. WorkersOwnGeneration'
    <2>1. worker'[w].gen = g /\ worker'[w].job = v
      BY <1>1, <1>3 DEF WorkerState
    <2>2. \A x \in Workers \ {w} : worker'[x] = worker[x]
      BY <1>1, <1>3
    <2>3. \A x \in Workers : worker[x].pc \in Running \ {"parse"} /\ worker[x].gen = g =>
            worker[x].job = v
      BY <1>3, Constant
      DEF IngestionInv, WorkersOwnGeneration, WorkersBusy, GenerationsLinked, Running
    <2> QED
      BY <1>5, <2>1, <2>2, <2>3 DEF IngestionInv, WorkersOwnGeneration
  <1> QED
    BY <1>10, <1>11, <1>12, <1>13, <1>14, <1>15

\* Failing a job closes its preparing generation; what is published stays.
LEMMA MarkFailedInv ==
  ASSUME NoStaleReads, IngestionInv, NEW w \in Workers, MarkFailed(w)
  PROVE  /\ GenerationsLinked' /\ PublishedOnce' /\ PreparedFromParent'
         /\ JobsFollowVersions' /\ ManifestMatchesPointers' /\ WorkersOwnGeneration'
  <1> DEFINE v == worker[w].job
  <1>1. /\ worker \in [Workers -> WorkerState] /\ job \in [Versions -> JobRow]
        /\ version \in [Versions -> VersionRow] /\ generation \in [Gens -> GenerationRow]
        /\ activeGen \in Gens \cup {NoGen}
    BY DEF IngestionInv, TypeOK
  <1>2. v \in Versions /\ job[v].status # "succeeded"
    BY DEF MarkFailed, FailsIn, NoStaleReads, IngestionInv, WorkersBusy
  <1>3. \A u \in Versions : job[u].status = "succeeded" => job'[u] = job[u]
    BY <1>1, <1>2 DEF MarkFailed
  <1>4. \A u \in Versions : version'[u].status = "none" =>
          u # v /\ version[u].status = "none"
    BY <1>1, <1>2 DEF MarkFailed
  <1>5. \A u \in Versions \ {v} : job'[u] = job[u]
    BY <1>1 DEF MarkFailed
  <1>6. \A h \in Gens :
          \/ generation'[h] = generation[h]
          \/ /\ generation[h].status = "preparing"
             /\ generation'[h] = [generation[h] EXCEPT !.status = "failed"]
    BY <1>1 DEF MarkFailed
  <1>7. \A h \in Gens :
          /\ generation'[h].parent = generation[h].parent
          /\ generation'[h].changed = generation[h].changed
          /\ generation'[h].manifest = generation[h].manifest
          /\ \/ generation'[h].status = generation[h].status
             \/ generation[h].status = "preparing" /\ generation'[h].status = "failed"
    <2> TAKE h \in Gens
    <2>1. generation[h] \in GenerationRow
      BY <1>1
    <2>2. CASE generation'[h] = [generation[h] EXCEPT !.status = "failed"]
      BY <1>6, <2>1, <2>2 DEF GenerationRow
    <2> QED
      BY <1>6, <2>2
  <1>8. UNCHANGED <<activeGen, document>>
    BY DEF MarkFailed
  <1>9. \A h \in Gens : generation[h].parent \in Gens \cup {NoGen}
    BY <1>1 DEF GenerationRow
  <1>10. GenerationsLinked'
    BY <1>1, <1>7, <1>8, <1>9 DEF IngestionInv, GenerationsLinked
  <1>11. PublishedOnce'
    BY <1>3, <1>7, <1>8 DEF IngestionInv, PublishedOnce
  <1>12. PreparedFromParent'
    BY <1>1, <1>7, <1>8 DEF IngestionInv, PreparedFromParent, CopyManifest
  <1>13. JobsFollowVersions'
    <2>1. \A d \in Docs : document[d].active # NoVersion => document[d].active \in Versions
      BY DEF IngestionInv, TypeOK, DocumentRow
    <2> QED
      BY <1>3, <1>4, <1>5, <1>8, <2>1 DEF IngestionInv, JobsFollowVersions
  <1>14. ManifestMatchesPointers'
    BY <1>1, <1>7, <1>8 DEF IngestionInv, ManifestMatchesPointers, Visible
  <1>15. WorkersOwnGeneration'
    <2>1. \A x \in Workers : worker'[x] = worker[x] \/ worker'[x].pc = "idle"
      BY <1>1 DEF MarkFailed, Finish, Idle
    <2> QED
      BY <1>7, <2>1 DEF IngestionInv, WorkersOwnGeneration, Running
  <1> QED
    BY <1>10, <1>11, <1>12, <1>13, <1>14, <1>15

-------------------------------------------------------------------------------
(* Publications *)

\* What an activation does to the catalogue: a generation that was never active
\* becomes active, and its manifest is the active one with the new version put in
\* place of its document's rows, whether or not it had to be rebased.
LEMMA Activation ==
  ASSUME IngestionInv, NEW w \in Workers, Activate(w)
  PROVE  LET v == worker[w].job
             g == worker[w].gen
             d == DocOf[v]
         IN  /\ v \in Versions /\ d \in Docs /\ g \in Gens
             /\ generation[g].status # "active" /\ generation[g].changed = v
             /\ \A h \in Gens \ {g} : generation'[h] = generation[h]
             /\ generation'[g].status = "active" /\ generation'[g].parent = activeGen
             /\ generation'[g].changed = v
             /\ generation'[g].manifest = {u \in Visible : DocOf[u] # d} \cup {v}
  <1> DEFINE v == worker[w].job
             g == worker[w].gen
             d == DocOf[v]
  <1>1. v \in Versions /\ d \in Docs
    BY ConstantsAssumption DEF Activate, IngestionInv, WorkersBusy, ConstantsAssumption
  <1>2. g \in Gens /\ generation[g].changed = v
    BY DEF Activate, IngestionInv, WorkersOwnGeneration, Running
  <1>3. generation \in [Gens -> GenerationRow]
    BY DEF IngestionInv, TypeOK
  <1>4. generation[g].status \in {"preparing", "failed"}
    <2>1. generation[g].status # "active"
      BY <1>1, <1>2 DEF Activate, Done, Refused, IngestionInv, PublishedOnce
    <2>2. generation[g].status # "none"
      BY <1>1, <1>2, Constant DEF IngestionInv, GenerationsLinked
    <2> QED
      BY <1>2, <1>3, <2>1, <2>2 DEF GenerationRow, GenStatus
  <1>5. g # activeGen
    BY <1>4, Constant, <1>2 DEF IngestionInv, GenerationsLinked
  <1>6. CopyManifest(activeGen, d) = {u \in Visible : DocOf[u] # d}
    BY DEF CopyManifest, Visible
  <1>7. ActivatedManifest(g, v) = {u \in Visible : DocOf[u] # d} \cup {v}
    BY <1>2, <1>4, <1>5, <1>6 DEF ActivatedManifest, IngestionInv, PreparedFromParent
  <1>8. generation' = [generation EXCEPT
            ![g].status = "active", ![g].parent = activeGen, ![g].revision = revision + 1,
            ![g].manifest = ActivatedManifest(g, v)]
    BY DEF Activate
  <1>9. \A h \in Gens \ {g} : generation'[h] = generation[h]
    BY <1>3, <1>8
  <1>10. generation'[g] = [generation[g] EXCEPT !.status = "active", !.parent = activeGen,
                           !.revision = revision + 1, !.manifest = ActivatedManifest(g, v)]
    BY <1>2, <1>3, <1>8
  <1>11. /\ generation'[g].status = "active" /\ generation'[g].parent = activeGen
         /\ generation'[g].changed = generation[g].changed
         /\ generation'[g].manifest = ActivatedManifest(g, v)
    <2>1. generation[g] \in GenerationRow
      BY <1>2, <1>3
    <2> QED
      BY <2>1, <1>10 DEF GenerationRow
  <1> QED
    BY <1>1, <1>2, <1>4, <1>7, <1>9, <1>11

\* _activate: tenant, document, versions, generation and job move together.
LEMMA ActivateInv ==
  ASSUME IngestionInv, NEW w \in Workers, Activate(w)
  PROVE  /\ GenerationsLinked' /\ PublishedOnce' /\ PreparedFromParent'
         /\ JobsFollowVersions' /\ ManifestMatchesPointers' /\ WorkersOwnGeneration'
  <1> DEFINE v == worker[w].job
             g == worker[w].gen
             d == DocOf[v]
             M == {u \in Visible : DocOf[u] # d} \cup {v}
  <1>1. /\ worker \in [Workers -> WorkerState] /\ job \in [Versions -> JobRow]
        /\ version \in [Versions -> VersionRow] /\ generation \in [Gens -> GenerationRow]
        /\ document \in [Docs -> DocumentRow] /\ activeGen \in Gens \cup {NoGen}
    BY DEF IngestionInv, TypeOK
  <1>2. /\ v \in Versions /\ d \in Docs /\ g \in Gens
        /\ generation[g].status # "active" /\ generation[g].changed = v
        /\ \A h \in Gens \ {g} : generation'[h] = generation[h]
    BY Activation
  <1>3. /\ generation'[g].status = "active" /\ generation'[g].parent = activeGen
        /\ generation'[g].changed = v /\ generation'[g].manifest = M
    BY Activation
  <1>4. /\ job[v].status # "succeeded" /\ ~document[d].deleted /\ activeGen' = g
        /\ document' = [document EXCEPT ![d].active = v]
        /\ job' = [job EXCEPT ![v] = [status |-> "succeeded", fresh |-> TRUE]]
    BY DEF Activate, Done, Refused
  <1>5. /\ document'[d].active = v /\ document'[d].deleted = document[d].deleted
        /\ \A e \in Docs \ {d} : document'[e] = document[e]
    BY <1>1, <1>2, <1>4 DEF DocumentRow
  <1>6. /\ job'[v].status = "succeeded"
        /\ \A u \in Versions \ {v} : job'[u] = job[u]
    BY <1>1, <1>2, <1>4
  <1>7. \A u \in Versions : version'[u].status = "none" => u # v /\ version[u].status = "none"
    <2>1. /\ version'[v].status = "active"
          /\ \A u \in Versions \ {v} : \/ version'[u].status = "superseded"
                                      \/ version'[u] = version[u]
      <3>1. version' = [u \in Versions |->
                IF u = v THEN [version[v] EXCEPT !.status = "active"]
                ELSE IF u = document[d].active THEN [version[u] EXCEPT !.status = "superseded"]
                ELSE version[u]]
        BY DEF Activate
      <3>2. \A u \in Versions : version[u] \in VersionRow
        BY <1>1
      <3>3. ASSUME NEW row \in VersionRow
            PROVE  /\ [row EXCEPT !.status = "active"].status = "active"
                   /\ [row EXCEPT !.status = "superseded"].status = "superseded"
        BY DEF VersionRow
      <3> QED
        BY <1>2, <3>1, <3>2, <3>3
    <2> QED
      BY <2>1
  <1>8. activeGen # NoGen => generation[activeGen].status = "active"
    BY DEF IngestionInv, GenerationsLinked
  <1>9. \A h \in Gens : generation[h].parent \in Gens \cup {NoGen}
    BY <1>1 DEF GenerationRow
  <1>10. GenerationsLinked'
    <2>1. \A h \in Gens : generation'[h].parent # NoGen =>
            generation'[generation'[h].parent].status = "active"
      BY <1>1, <1>2, <1>3, <1>8, <1>9 DEF IngestionInv, GenerationsLinked
    <2> QED
      BY <1>2, <1>3, <1>4, <2>1 DEF IngestionInv, GenerationsLinked
  <1>11. PublishedOnce'
    BY <1>2, <1>3, <1>5, <1>6, ConstantsAssumption
    DEF IngestionInv, PublishedOnce, ConstantsAssumption
  <1>12. PreparedFromParent'
    <2>1. \A h \in Gens \ {g} : generation[h].parent # g
      BY <1>2, <1>9, Constant DEF IngestionInv, GenerationsLinked
    <2> QED
      BY <1>2, <1>3, <1>4, <2>1 DEF PreparedFromParent
  <1>13. JobsFollowVersions'
    <2>1. \A e \in Docs : document[e].active # NoVersion => document[e].active \in Versions
      BY <1>1 DEF DocumentRow
    <2> QED
      BY <1>2, <1>5, <1>6, <1>7, <2>1 DEF IngestionInv, JobsFollowVersions
  <1>14. ManifestMatchesPointers'
    <2>1. Visible' = M
      BY <1>2, <1>3, <1>4, Constant DEF Visible
    <2>2. ASSUME NEW e \in Docs \ {d}
          PROVE  {u \in M : DocOf[u] = e} = {document'[e].active} \ {NoVersion}
      BY <1>2, <1>5, <2>2 DEF IngestionInv, ManifestMatchesPointers
    <2>3. {u \in M : DocOf[u] = d} = {document'[d].active} \ {NoVersion}
      BY <1>2, <1>5, Constant
    <2>4. \A e \in Docs : document'[e].deleted => document'[e].active = NoVersion
      BY <1>4, <1>5 DEF IngestionInv, ManifestMatchesPointers
    <2> QED
      BY <2>1, <2>2, <2>3, <2>4 DEF ManifestMatchesPointers
  <1>15. WorkersOwnGeneration'
    <2>1. \A x \in Workers : worker'[x] = worker[x] \/ worker'[x].pc = "idle"
      BY <1>1 DEF Activate, Finish, Idle
    <2> QED
      BY <1>2, <1>3, <2>1 DEF IngestionInv, WorkersOwnGeneration, Running
  <1> QED
    BY <1>10, <1>11, <1>12, <1>13, <1>14, <1>15

\* What a deletion does to the catalogue: a new generation without the document.
LEMMA Deletion ==
  ASSUME IngestionInv, NEW d \in Docs, Tombstone(d)
  PROVE  \E g \in Gens :
           /\ generation[g].status = "none" /\ activeGen' = g
           /\ generation'[g].status = "active" /\ generation'[g].parent = activeGen
           /\ generation'[g].changed = NoVersion
           /\ generation'[g].manifest = {u \in Visible : DocOf[u] # d}
           /\ \A h \in Gens \ {g} :
                 /\ generation'[h].parent = generation[h].parent
                 /\ generation'[h].changed = generation[h].changed
                 /\ generation'[h].manifest = generation[h].manifest
                 /\ \/ generation'[h].status = generation[h].status
                    \/ generation[h].status = "preparing" /\ generation'[h].status = "failed"
  <1> DEFINE doomed == {v \in Existing(d) : version[v].status \in Pending}
             new == [status |-> "active", parent |-> activeGen, revision |-> revision + 1,
                     changed |-> NoVersion, manifest |-> CopyManifest(activeGen, d)]
  <1>1. PICK g \in Gens :
          /\ generation[g].status = "none" /\ activeGen' = g
          /\ generation' =
                [h \in Gens |->
                    IF h = g THEN new
                    ELSE IF generation[h].changed \in doomed /\ generation[h].status = "preparing"
                    THEN [generation[h] EXCEPT !.status = "failed"]
                    ELSE generation[h]]
    BY DEF Tombstone, IsNewGen
  <1>2. generation'[g] = new /\ new.manifest = {u \in Visible : DocOf[u] # d}
    BY <1>1 DEF CopyManifest, Visible
  <1>3. ASSUME NEW h \in Gens \ {g}
        PROVE  /\ generation'[h].parent = generation[h].parent
               /\ generation'[h].changed = generation[h].changed
               /\ generation'[h].manifest = generation[h].manifest
               /\ \/ generation'[h].status = generation[h].status
                  \/ generation[h].status = "preparing" /\ generation'[h].status = "failed"
    <2>1. generation[h] \in GenerationRow
      BY DEF IngestionInv, TypeOK
    <2>2. \/ generation'[h] = generation[h]
          \/ /\ generation[h].status = "preparing"
             /\ generation'[h] = [generation[h] EXCEPT !.status = "failed"]
      BY <1>1, <1>3
    <2> QED
      BY <2>1, <2>2 DEF GenerationRow
  <1> QED
    BY <1>1, <1>2, <1>3

\* tombstone_document publishes a manifest without the document.
LEMMA TombstoneInv ==
  ASSUME IngestionInv, NEW d \in Docs, Tombstone(d)
  PROVE  /\ GenerationsLinked' /\ PublishedOnce' /\ PreparedFromParent'
         /\ JobsFollowVersions' /\ ManifestMatchesPointers' /\ WorkersOwnGeneration'
  <1> DEFINE M == {u \in Visible : DocOf[u] # d}
  <1>1. /\ worker \in [Workers -> WorkerState] /\ job \in [Versions -> JobRow]
        /\ version \in [Versions -> VersionRow] /\ generation \in [Gens -> GenerationRow]
        /\ document \in [Docs -> DocumentRow] /\ activeGen \in Gens \cup {NoGen}
    BY DEF IngestionInv, TypeOK
  <1>2. PICK g \in Gens :
          /\ generation[g].status = "none" /\ activeGen' = g
          /\ generation'[g].status = "active" /\ generation'[g].parent = activeGen
          /\ generation'[g].changed = NoVersion /\ generation'[g].manifest = M
          /\ \A h \in Gens \ {g} :
                /\ generation'[h].parent = generation[h].parent
                /\ generation'[h].changed = generation[h].changed
                /\ generation'[h].manifest = generation[h].manifest
                /\ \/ generation'[h].status = generation[h].status
                   \/ generation[h].status = "preparing" /\ generation'[h].status = "failed"
    BY Deletion
  <1>3. /\ document'[d].active = NoVersion /\ document'[d].deleted
        /\ \A e \in Docs \ {d} : document'[e] = document[e]
    BY <1>1 DEF Tombstone
  <1>4. \A u \in Versions : DocOf[u] # d => job'[u] = job[u]
    BY DEF Tombstone, Existing
  <1>5. \A u \in Versions : version'[u].status = "none" =>
          version[u].status = "none" /\ job'[u] = job[u]
    BY <1>1 DEF Tombstone, VersionRow, Pending
  <1>6. \A h \in Gens : generation[h].parent \in Gens \cup {NoGen} /\ generation[h].parent # g
    BY <1>1, <1>2, Constant DEF GenerationRow, IngestionInv, GenerationsLinked
  <1>7. activeGen # NoGen => activeGen # g /\ generation[activeGen].status = "active"
    BY <1>2 DEF IngestionInv, GenerationsLinked
  <1>8. GenerationsLinked'
    <2>1. \A h \in Gens : generation'[h].parent # NoGen =>
            generation'[generation'[h].parent].status = "active"
      BY <1>1, <1>2, <1>6, <1>7 DEF IngestionInv, GenerationsLinked
    <2> QED
      BY <1>2, <2>1 DEF IngestionInv, GenerationsLinked
  <1>9. PublishedOnce'
    <2>1. \A e \in Docs : document[e].deleted => document'[e].deleted
      BY <1>3
    <2>2. \A u \in Versions : DocOf[u] \in Docs
      BY ConstantsAssumption DEF ConstantsAssumption
    <2> QED
      BY <1>2, <1>3, <1>4, <2>1, <2>2, Constant DEF IngestionInv, PublishedOnce
  <1>10. PreparedFromParent'
    BY <1>2, <1>6 DEF PreparedFromParent
  <1>11. JobsFollowVersions'
    <2>1. \A e \in Docs : document[e].active # NoVersion => document[e].active \in Versions
      BY <1>1 DEF DocumentRow
    <2> QED
      BY <1>3, <1>4, <1>5, <2>1 DEF IngestionInv, JobsFollowVersions
  <1>12. ManifestMatchesPointers'
    <2>1. Visible' = M
      BY <1>2, Constant DEF Visible
    <2>2. \A e \in Docs \ {d} : {u \in M : DocOf[u] = e} = {document'[e].active} \ {NoVersion}
      BY <1>3 DEF IngestionInv, ManifestMatchesPointers
    <2>3. {u \in M : DocOf[u] = d} = {document'[d].active} \ {NoVersion}
      BY <1>3
    <2>4. \A e \in Docs : document'[e].deleted => document'[e].active = NoVersion
      BY <1>3 DEF IngestionInv, ManifestMatchesPointers
    <2> QED
      BY <2>1, <2>2, <2>3, <2>4 DEF ManifestMatchesPointers
  <1>13. WorkersOwnGeneration'
    <2>1. worker' = worker
      BY DEF Tombstone
    <2>2. \A x \in Workers : worker[x].pc \in Running \ {"parse"} => worker[x].gen # g
      BY <1>2, Constant
      DEF IngestionInv, WorkersOwnGeneration, WorkersBusy, GenerationsLinked, Running
    <2> QED
      BY <1>2, <2>1, <2>2 DEF IngestionInv, WorkersOwnGeneration
  <1> QED
    BY <1>8, <1>9, <1>10, <1>11, <1>12, <1>13

-------------------------------------------------------------------------------
(* The invariant and its consequences *)

\* Every step keeps the invariant.
LEMMA InvStep ==
  ASSUME NoStaleReads, IngestionInv, [Next]_vars
  PROVE  IngestionInv'
  <1> DEFINE Rest == /\ GenerationsLinked /\ PublishedOnce /\ PreparedFromParent
                     /\ JobsFollowVersions /\ ManifestMatchesPointers /\ WorkersOwnGeneration
  <1>1. TypeOK' /\ WorkersBusy'
    BY TypeStep, BusyStep DEF IngestionInv
  <1>2. ASSUME NEW v \in Versions, Request(v) \/ LeaseExpires(v)
        PROVE  Rest'
    BY <1>2, RequestInv, LeaseInv
  <1>3. ASSUME NEW d \in Docs, Tombstone(d)
        PROVE  Rest'
    BY <1>3, TombstoneInv
  <1>4. ASSUME NEW w \in Workers, Process(w)
        PROVE  Rest'
    BY <1>4, QuietProcessInv, PersistInv, ActivateInv, MarkFailedInv DEF Process
  <1>5. ASSUME NEW w \in Workers,
               \/ \E v \in Versions : Deliver(w, v) \/ NextListed(w, v)
               \/ ListJobs(w) \/ StepFails(w) \/ Heartbeat(w) \/ Crash(w)
        PROVE  Rest'
    BY <1>5, TakeJobInv, AccidentInv
  <1>6. ASSUME UNCHANGED vars
        PROVE  Rest'
    <2>1. UNCHANGED <<catalogue, version, job, worker>>
      BY <1>6 DEF vars
    <2>2. WorkersOwnGeneration'
      BY <2>1 DEF IngestionInv, WorkersOwnGeneration, catalogue
    <2> QED
      BY <2>1, <2>2, IdleStepInv
  <1>7. Rest'
    <2> HIDE DEF Rest
    <2> QED
      BY <1>2, <1>3, <1>4, <1>5, <1>6 DEF Next
  <1> QED
    BY <1>1, <1>7 DEF IngestionInv

\* The strengthened invariant of the pipeline: with every interleaving of workers,
\* requests, deletions, crashes and lost leases, but no job status trusted from before
\* its lock.
THEOREM InvariantHolds ==
  ASSUME NoStaleReads
  PROVE  Spec => []IngestionInv
  <1>1. Init => IngestionInv
    BY InvInit
  <1>2. IngestionInv /\ [Next]_vars => IngestionInv'
    BY InvStep
  <1> QED
    BY <1>1, <1>2, PTL DEF Spec

\* Retrieval's manifest and the documents' active pointers agree in every state: no
\* interleaving of activations and deletions undoes another one.
THEOREM RetrievalMatchesDocuments ==
  ASSUME NoStaleReads
  PROVE  Spec => []ManifestMatchesPointers
  <1>1. IngestionInv => ManifestMatchesPointers
    BY DEF IngestionInv
  <1> QED
    BY <1>1, InvariantHolds, PTL

\* Only an activation and a deletion touch document rows, the active generation and
\* the retrieval revision.
LEMMA OnlyPublicationsShow ==
  ASSUME [Next]_vars
  PROVE  \/ UNCHANGED <<document, activeGen, revision>>
         \/ \E w \in Workers : Activate(w)
         \/ \E d \in Docs : Tombstone(d)
  <1>1. ASSUME NEW v \in Versions, Request(v) \/ LeaseExpires(v)
        PROVE  UNCHANGED <<document, activeGen, revision>>
    BY <1>1 DEF Request, Upload, Reindex, Stage, Enqueue, RecordQueued, RequestGivesUp,
                LeaseExpires, catalogue
  <1>2. ASSUME NEW w \in Workers,
               \/ \E v \in Versions : Deliver(w, v) \/ NextListed(w, v)
               \/ ListJobs(w) \/ StepFails(w) \/ Heartbeat(w) \/ Crash(w)
        PROVE  UNCHANGED <<document, activeGen, revision>>
    BY <1>2 DEF Deliver, NextListed, ListJobs, StepFails, Heartbeat, Crash, catalogue
  <1>3. ASSUME NEW w \in Workers, Process(w)
        PROVE  Activate(w) \/ UNCHANGED <<document, activeGen, revision>>
    BY <1>3 DEF Process, StartDeclined, Start, Persist, ClearPoints, Upsert, Validate,
                ValidateFails, MarkReady, ActivateDone, ActivateRefused, FailureIgnored,
                ReadBeforeFail, MarkFailed, catalogue
  <1>4. ASSUME UNCHANGED vars
        PROVE  UNCHANGED <<document, activeGen, revision>>
    BY <1>4 DEF vars, catalogue
  <1> QED
    BY <1>1, <1>2, <1>3, <1>4 DEF Next

\* Likewise for the manifests: apart from publications, a step writes at most one
\* generation, which is new or preparing.
LEMMA ActiveManifestsKept ==
  ASSUME NoStaleReads, IngestionInv, [Next]_vars,
         NEW g \in Gens, generation[g].status = "active"
  PROVE  generation'[g].status = "active" /\ generation'[g].manifest = generation[g].manifest
  <1>1. generation \in [Gens -> GenerationRow]
    BY DEF IngestionInv, TypeOK
  <1>2. ASSUME NEW v \in Versions, Request(v) \/ LeaseExpires(v)
        PROVE  UNCHANGED generation
    BY <1>2 DEF Request, Upload, Reindex, Stage, Enqueue, RecordQueued, RequestGivesUp,
                LeaseExpires, catalogue
  <1>3. ASSUME NEW w \in Workers,
               \/ \E v \in Versions : Deliver(w, v) \/ NextListed(w, v)
               \/ ListJobs(w) \/ StepFails(w) \/ Heartbeat(w) \/ Crash(w)
        PROVE  UNCHANGED generation
    BY <1>3 DEF Deliver, NextListed, ListJobs, StepFails, Heartbeat, Crash, catalogue
  <1>4. ASSUME NEW d \in Docs, Tombstone(d)
        PROVE  generation'[g].status = "active" /\ generation'[g].manifest = generation[g].manifest
    BY <1>4, Deletion
  <1>5. ASSUME NEW w \in Workers, Process(w)
        PROVE  generation'[g].status = "active" /\ generation'[g].manifest = generation[g].manifest
    <2>1. CASE Activate(w)
      BY <2>1, Activation
    <2>2. CASE Persist(w)
      <3>1. PICK h \in Gens :
              /\ generation[h].status # "active"
              /\ \A k \in Gens \ {h} : generation'[k] = generation[k]
        BY <1>1, <2>2 DEF Persist, IsNewGen
      <3> QED
        BY <1>1, <3>1
    <2>3. CASE MarkFailed(w)
      <3>1. \/ UNCHANGED generation
            \/ \E h : /\ generation[h].status # "active"
                     /\ generation' = [generation EXCEPT ![h].status = "failed"]
        BY <2>3 DEF MarkFailed
      <3> QED
        BY <1>1, <3>1
    <2>4. CASE ~Activate(w) /\ ~Persist(w) /\ ~MarkFailed(w)
      BY <1>5, <2>4 DEF Process, StartDeclined, Start, ClearPoints, Upsert, Validate,
                ValidateFails, MarkReady, ActivateDone, ActivateRefused, FailureIgnored,
                ReadBeforeFail, catalogue
    <2> QED
      BY <2>1, <2>2, <2>3, <2>4
  <1>6. ASSUME UNCHANGED vars
        PROVE  UNCHANGED generation
    BY <1>6 DEF vars, catalogue
  <1> QED
    BY <1>2, <1>3, <1>4, <1>5, <1>6 DEF Next

\* An activated manifest is never rewritten, so a query that resolved it keeps
\* reading one snapshot and a derived manifest is derived from what was searchable.
THEOREM ActiveManifestsNeverChange ==
  ASSUME NoStaleReads
  PROVE  Spec => ActiveManifestImmutable
  <1>1. IngestionInv /\ [Next]_vars =>
          [\A g \in Gens : generation[g].status = "active" =>
              /\ generation'[g].status = "active"
              /\ generation'[g].manifest = generation[g].manifest]_vars
    BY ActiveManifestsKept
  <1> QED
    BY <1>1, InvariantHolds, PTL DEF Spec, ActiveManifestImmutable

\* Nothing refers to a version that does not exist yet.
FreshVersions ==
  \A v \in Versions : version[v].status = "none" =>
      /\ job[v].status = "none" /\ api[v] = "none" /\ v \notin queue
      /\ \A w \in Workers : worker[w].job # v /\ v \notin todo[w]

\* A worker keeps its job or gives it up.
LEMMA JobKept ==
  ASSUME TypeOK, NEW w \in Workers, NEW x \in Workers,
         Process(w) \/ StepFails(w) \/ Heartbeat(w) \/ Crash(w)
  PROVE  worker'[x].job \in {worker[x].job, NoVersion}
  <1>1. worker \in [Workers -> WorkerState]
    BY DEF TypeOK
  <1>2. ASSUME Finish(w) \/ worker' = [worker EXCEPT ![w] = Idle]
        PROVE  worker'[x].job \in {worker[x].job, NoVersion}
    BY <1>1, <1>2 DEF Finish, Idle
  <1>3. ASSUME NEW pc, Goto(w, pc)
        PROVE  worker'[x].job \in {worker[x].job, NoVersion}
    BY <1>1, <1>3 DEF Goto, WorkerState
  <1>4. CASE Start(w) \/ StepFails(w) \/ ReadBeforeFail(w)
    BY <1>1, <1>4 DEF Start, StepFails, ReadBeforeFail, WorkerState
  <1>5. CASE Persist(w)
    BY <1>1, <1>5 DEF Persist, WorkerState
  <1>6. CASE Upsert(w)
    BY <1>1, <1>6 DEF Upsert, WorkerState
  <1>7. CASE ClearPoints(w) \/ Validate(w) \/ ValidateFails(w) \/ MarkReady(w)
             \/ ActivateRefused(w)
    BY <1>3, <1>7 DEF ClearPoints, Validate, ValidateFails, MarkReady, ActivateRefused
  <1>8. CASE StartDeclined(w) \/ ActivateDone(w) \/ Activate(w) \/ FailureIgnored(w)
             \/ MarkFailed(w) \/ Crash(w)
    BY <1>2, <1>8 DEF StartDeclined, ActivateDone, Activate, FailureIgnored, MarkFailed, Crash
  <1>9. CASE Heartbeat(w)
    BY <1>9 DEF Heartbeat
  <1> QED
    BY <1>4, <1>5, <1>6, <1>7, <1>8, <1>9 DEF Process

\* Rows are only added, and what is handed on was there before.
LEMMA FreshStep ==
  ASSUME TypeOK, WorkersBusy, FreshVersions, [Next]_vars
  PROVE  FreshVersions'
  <1>1. SUFFICES ASSUME NEW v \in Versions, version'[v].status = "none"
                 PROVE  /\ job'[v].status = "none" /\ api'[v] = "none" /\ v \notin queue'
                        /\ \A w \in Workers : worker'[w].job # v /\ v \notin todo'[w]
    BY DEF FreshVersions
  <1>2. /\ version \in [Versions -> VersionRow] /\ job \in [Versions -> JobRow]
        /\ worker \in [Workers -> WorkerState] /\ todo \in [Workers -> SUBSET Versions]
        /\ api \in [Versions -> {"none", "accepted", "enqueued", "done"}]
        /\ v # NoVersion
    BY ConstantsAssumption DEF TypeOK, ConstantsAssumption
  <1>3. version[v].status = "none" =>
           /\ job[v].status = "none" /\ api[v] = "none" /\ v \notin queue
           /\ \A w \in Workers : worker[w].job # v /\ v \notin todo[w]
    BY DEF FreshVersions
  <1>4. CASE UNCHANGED vars
    BY <1>1, <1>3, <1>4 DEF vars, payload, transport
  <1>5. ASSUME NEW u \in Versions, Request(u) \/ LeaseExpires(u)
        PROVE  /\ job'[v].status = "none" /\ api'[v] = "none" /\ v \notin queue'
               /\ UNCHANGED <<worker, todo>> /\ version[v].status = "none"
    <2>1. CASE Upload(u) \/ Reindex(u)
      <3>1. Stage(u)
        BY <2>1 DEF Upload, Reindex
      <3>2. u # v /\ version'[v] = version[v]
        BY <1>1, <1>2, <3>1 DEF Stage, VersionRow
      <3> QED
        BY <1>1, <1>2, <1>3, <3>1, <3>2 DEF Stage
    <2>2. CASE Enqueue(u) \/ RequestGivesUp(u)
      BY <1>1, <1>2, <1>3, <2>2 DEF Enqueue, RequestGivesUp
    <2>3. CASE RecordQueued(u)
      <3>1. version'[v] = version[v] /\ u # v /\ job'[v] = job[v]
        BY <1>1, <1>2, <1>3, <2>3 DEF RecordQueued
      <3> QED
        BY <1>1, <1>2, <1>3, <2>3, <3>1 DEF RecordQueued
    <2>4. CASE LeaseExpires(u)
      BY <1>1, <1>2, <1>3, <2>4 DEF LeaseExpires, payload, transport
    <2> QED
      BY <1>5, <2>1, <2>2, <2>3, <2>4 DEF Request
  <1>6. ASSUME NEW d \in Docs, Tombstone(d)
        PROVE  /\ UNCHANGED <<transport, worker, todo>> /\ version[v].status = "none"
               /\ job'[v].status = "none"
    <2>1. version[v].status = "none"
      BY <1>1, <1>2, <1>6 DEF Tombstone, VersionRow
    <2>2. job'[v] = job[v]
      BY <1>2, <1>6, <2>1 DEF Tombstone, Existing, Pending
    <2> QED
      BY <1>3, <1>6, <2>1, <2>2 DEF Tombstone
  <1>7. ASSUME NEW w \in Workers, NEW u \in Versions, Deliver(w, u) \/ NextListed(w, u)
        PROVE  /\ UNCHANGED <<version, job, api, queue>>
               /\ \A x \in Workers : worker'[x].job # v /\ v \notin todo'[x]
    <2>1. UNCHANGED <<version, job, api, queue>> /\ version[v].status = "none"
      BY <1>1, <1>7 DEF Deliver, NextListed, transport
    <2>2. u # v
      BY <1>3, <1>7, <2>1 DEF Deliver, NextListed
    <2>3. \A arq \in BOOLEAN : Claimed(w, u, arq).job = u
      BY DEF Claimed, Idle
    <2>4. \A x \in Workers : worker'[x].job \in {worker[x].job, u}
      BY <1>2, <1>7, <2>3 DEF Deliver, NextListed
    <2>5. \A x \in Workers : todo'[x] \subseteq todo[x]
      BY <1>2, <1>7 DEF Deliver, NextListed
    <2> QED
      BY <1>3, <2>1, <2>2, <2>4, <2>5
  <1>8. ASSUME NEW w \in Workers, ListJobs(w)
        PROVE  /\ UNCHANGED <<version, job, api, queue, worker>>
               /\ \A x \in Workers : v \notin todo'[x]
    <2>1. UNCHANGED <<version, job, api, queue, worker>> /\ version[v].status = "none"
      BY <1>1, <1>8 DEF ListJobs, transport
    <2>2. v \notin Reconcilable
      BY <1>3, <2>1 DEF Reconcilable
    <2> QED
      BY <1>2, <1>3, <1>8, <2>1, <2>2 DEF ListJobs
  <1>9. ASSUME NEW w \in Workers, Process(w) \/ StepFails(w) \/ Heartbeat(w) \/ Crash(w)
        PROVE  /\ version[v].status = "none" /\ job'[v].status = "none"
               /\ UNCHANGED api /\ queue' \subseteq queue
               /\ \A x \in Workers : todo'[x] \subseteq todo[x]
    <2> DEFINE u == worker[w].job
    <2>1. /\ UNCHANGED api /\ queue' \subseteq queue
          /\ \A x \in Workers : todo'[x] \subseteq todo[x]
      BY <1>2, <1>9
      DEF Process, StartDeclined, Start, Persist, ClearPoints, Upsert, Validate, ValidateFails,
          MarkReady, ActivateDone, ActivateRefused, Activate, FailureIgnored, ReadBeforeFail,
          MarkFailed, StepFails, Heartbeat, Crash, Finish, transport
    <2>2. u = v => version[v].status # "none"
      BY <1>3
    <2>3. version[v].status = "none" /\ job'[v] = job[v]
      <3>1. CASE UNCHANGED <<version, job>>
        BY <1>1, <3>1
      <3>2. CASE Start(w)
        BY <1>1, <1>2, <2>2, <3>2 DEF Start, VersionRow
      <3>3. CASE Persist(w)
        BY <1>1, <1>2, <2>2, <3>3 DEF Persist
      <3>4. CASE Upsert(w) \/ Heartbeat(w)
        <4>1. UNCHANGED version /\ (u # v => job'[v] = job[v])
          BY <1>2, <3>4 DEF Upsert, Heartbeat, Beat
        <4> QED
          BY <1>1, <2>2, <4>1
      <3>5. CASE MarkReady(w)
        BY <1>1, <1>2, <2>2, <3>5 DEF MarkReady, VersionRow
      <3>6. CASE Activate(w)
        BY <1>1, <1>2, <2>2, <3>6 DEF Activate, VersionRow
      <3>7. CASE MarkFailed(w)
        BY <1>1, <1>2, <2>2, <3>7 DEF MarkFailed, VersionRow
      <3> QED
        BY <1>9, <3>1, <3>2, <3>3, <3>4, <3>5, <3>6, <3>7
        DEF Process, StartDeclined, ClearPoints, Validate, ValidateFails, ActivateDone,
            ActivateRefused, FailureIgnored, ReadBeforeFail, StepFails, Crash
    <2> QED
      BY <1>3, <2>1, <2>3
  <1>10. ASSUME NEW w \in Workers, Process(w) \/ StepFails(w) \/ Heartbeat(w) \/ Crash(w)
         PROVE  \A x \in Workers : worker'[x].job # v
    BY <1>2, <1>3, <1>9, <1>10, JobKept
  <1> QED
    BY <1>1, <1>3, <1>4, <1>5, <1>6, <1>7, <1>8, <1>9, <1>10 DEF Next, transport

\* Only a deletion and the sessions that are behind take "succeeded" from a job.
LEMMA SucceededKept ==
  ASSUME TypeOK, FreshVersions, [Next]_vars,
         NEW v \in Versions, job[v].status = "succeeded", job'[v].status # "succeeded",
         ~document'[DocOf[v]].deleted
  PROVE  \/ RequestIsBehind(v) /\ api'[v] = "done" /\ job'[v].status = "queued"
         \/ \E w \in Workers :
               /\ WorkerIsBehind(w, v)
               /\ \/ worker'[w].pc = "idle" /\ job'[v].status = "failed"
                  \/ worker'[w].pc = "parse" /\ job'[v].status = "processing"
  <1>1. /\ job \in [Versions -> JobRow] /\ worker \in [Workers -> WorkerState]
        /\ api \in [Versions -> {"none", "accepted", "enqueued", "done"}]
        /\ version[v].status # "none" /\ job'[v] # job[v]
    BY DEF TypeOK, FreshVersions
  <1>2. ASSUME NEW u \in Versions, Request(u) \/ LeaseExpires(u)
        PROVE  RequestIsBehind(v) /\ api'[v] = "done" /\ job'[v].status = "queued"
    <2>1. ~Upload(u) /\ ~Reindex(u)
      BY <1>1 DEF Upload, Reindex, IsNextVersion, Stage
    <2>2. ~LeaseExpires(u)
      BY <1>1 DEF LeaseExpires
    <2>3. RecordQueued(u) /\ u = v /\ SeenByRequest(v) = "staged"
      BY <1>1, <1>2, <2>1, <2>2 DEF Request, Enqueue, RequestGivesUp, RecordQueued
    <2> QED
      BY <1>1, <2>3 DEF RecordQueued, SeenByRequest, RequestIsBehind
  <1>3. ASSUME NEW d \in Docs, Tombstone(d)
        PROVE  FALSE
    <2>1. document'[d].deleted
      BY <1>3 DEF Tombstone, TypeOK
    <2>2. DocOf[v] # d => job'[v] = job[v]
      BY <1>3 DEF Tombstone, Existing
    <2> QED
      BY <1>1, <2>1, <2>2
  <1>4. ASSUME NEW w \in Workers, Process(w)
        PROVE  /\ WorkerIsBehind(w, v)
               /\ \/ worker'[w].pc = "idle" /\ job'[v].status = "failed"
                  \/ worker'[w].pc = "parse" /\ job'[v].status = "processing"
    <2>1. CASE Start(w)
      <3>1. worker[w].job = v /\ SeenAtStart(w).job # "processing"
            /\ job'[v].status = "processing"
        BY <1>1, <2>1 DEF Start, JobRow
      <3>2. SeenAtStart(w).job # "succeeded" /\ worker[w].pc = "claim"
            /\ worker'[w].pc = "parse"
        BY <1>1, <2>1 DEF Start, Taken, WorkerState
      <3> QED
        BY <3>1, <3>2 DEF SeenAtStart, WorkerIsBehind
    <2>2. CASE MarkFailed(w)
      <3>1. worker[w].job = v /\ job'[v].status = "failed" /\ worker[w].pc = "failing"
            /\ worker'[w].pc = "idle"
        BY <1>1, <2>2 DEF MarkFailed, Finish, Idle, JobRow
      <3> QED
        BY <2>2, <3>1 DEF MarkFailed, FailsIn, WorkerIsBehind
    <2>3. ~Persist(w)
      BY <1>1 DEF Persist, JobRow
    <2>4. ~Upsert(w)
      BY <1>1 DEF Upsert, Beat, JobRow
    <2>5. ~MarkReady(w)
      BY <1>1 DEF MarkReady, JobRow
    <2>6. ~Activate(w)
      BY <1>1 DEF Activate
    <2> QED
      BY <1>1, <1>4, <2>1, <2>2, <2>3, <2>4, <2>5, <2>6
      DEF Process, StartDeclined, ClearPoints, Validate, ValidateFails, ActivateDone,
          ActivateRefused, FailureIgnored, ReadBeforeFail
  <1>5. ASSUME NEW w \in Workers,
               \/ \E u \in Versions : Deliver(w, u) \/ NextListed(w, u)
               \/ ListJobs(w) \/ StepFails(w) \/ Heartbeat(w) \/ Crash(w)
        PROVE  FALSE
    <2>1. ~Heartbeat(w)
      BY <1>1 DEF Heartbeat, Beat, JobRow
    <2> QED
      BY <1>1, <1>5, <2>1 DEF Deliver, NextListed, ListJobs, StepFails, Crash
  <1>6. ASSUME UNCHANGED vars
        PROVE  FALSE
    BY <1>1, <1>6 DEF vars
  <1> QED
    BY <1>2, <1>3, <1>4, <1>5, <1>6 DEF Next

\* Whatever the accidents, a finished job of a living document is reopened only by the
\* request that accepted it or by a worker, when either still holds what it read before.
THEOREM FinishedJobsStay == Spec => SucceededIsFinal
  <1>1. Init => FreshVersions
    BY ConstantsAssumption DEF Init, FreshVersions, Idle, ConstantsAssumption
  <1>2. TypeOK /\ WorkersBusy /\ FreshVersions /\ [Next]_vars => FreshVersions'
    BY FreshStep
  <1> DEFINE Kept ==
        \A v \in Versions :
          /\ job[v].status = "succeeded" /\ job'[v].status # "succeeded"
          /\ ~document'[DocOf[v]].deleted
          => \/ RequestIsBehind(v) /\ api'[v] = "done" /\ job'[v].status = "queued"
             \/ \E w \in Workers :
                   /\ WorkerIsBehind(w, v)
                   /\ \/ worker'[w].pc = "idle" /\ job'[v].status = "failed"
                      \/ worker'[w].pc = "parse" /\ job'[v].status = "processing"
  <1>3. TypeOK /\ FreshVersions /\ [Next]_vars => Kept
    BY SucceededKept
  <1>4. Spec => []FreshVersions
    BY <1>1, <1>2, TypeCorrect, PTL DEF Spec
  <1>5. SucceededIsFinal <=> [][Kept]_vars
    BY DEF SucceededIsFinal
  <1> QED
    BY <1>3, <1>4, <1>5, TypeCorrect, PTL DEF Spec

-------------------------------------------------------------------------------
(* Refinement *)

\* The manifest shows exactly the documents' active versions.
LEMMA ShownIsActive ==
  /\ ManifestMatchesPointers => Shown = [d \in Docs |-> document[d].active]
  /\ ManifestMatchesPointers' => Shown' = [d \in Docs |-> document'[d].active]
  <1>1. ASSUME ManifestMatchesPointers, NEW d \in Docs
        PROVE  document[d].active = IF \E v \in Visible : DocOf[v] = d
                                    THEN CHOOSE v \in Visible : DocOf[v] = d ELSE NoVersion
    <2>1. {v \in Visible : DocOf[v] = d} = {document[d].active} \ {NoVersion}
      BY <1>1 DEF ManifestMatchesPointers
    <2> QED
      BY <2>1
  <1>2. ASSUME ManifestMatchesPointers', NEW d \in Docs
        PROVE  document'[d].active = IF \E v \in Visible' : DocOf[v] = d
                                     THEN CHOOSE v \in Visible' : DocOf[v] = d ELSE NoVersion
    <2>1. {v \in Visible' : DocOf[v] = d} = {document'[d].active} \ {NoVersion}
      BY <1>2 DEF ManifestMatchesPointers
    <2> QED
      BY <2>1
  <1> QED
    BY <1>1, <1>2 DEF Shown

\* The empty tenant shows nothing.
LEMMA InitRefines == Init => Abstract!Init
  <1> SUFFICES ASSUME Init PROVE Abstract!Init
    OBVIOUS
  <1>1. Shown = [d \in Docs |-> document[d].active]
    BY InvInit, ShownIsActive DEF IngestionInv
  <1> QED
    BY <1>1 DEF Init, Abstract!Init

\* Only _activate and tombstone_document change what is shown, and both as Catalogue says.
LEMMA StepRefines ==
  ASSUME IngestionInv, IngestionInv', [Next]_vars
  PROVE  [Abstract!Next]_(Abstract!vars)
  <1>1. /\ Shown = [d \in Docs |-> document[d].active]
        /\ Shown' = [d \in Docs |-> document'[d].active]
    BY ShownIsActive DEF IngestionInv
  <1>2. document \in [Docs -> DocumentRow]
    BY DEF IngestionInv, TypeOK
  <1>3. CASE UNCHANGED <<document, activeGen, revision>>
    BY <1>1, <1>3 DEF Abstract!vars
  <1>4. ASSUME NEW w \in Workers, Activate(w)
        PROVE  Abstract!Publish(worker[w].job)
    <2> DEFINE v == worker[w].job
               d == DocOf[v]
    <2>1. v \in Versions /\ d \in Docs
      BY <1>4, Activation
    <2>2. /\ ~document[d].deleted /\ ~NewerIsActive(v) /\ job[v].status # "succeeded"
          /\ document' = [document EXCEPT ![d].active = v]
          /\ revision' = revision + 1
      BY <1>4 DEF Activate, Done, Refused
    <2>3. \A e \in Docs : document'[e].deleted = document[e].deleted
      BY <1>2, <2>1, <2>2 DEF DocumentRow
    <2>4. \A e \in Docs : document'[e].active = IF e = d THEN v ELSE document[e].active
      BY <1>2, <2>1, <2>2 DEF DocumentRow
    <2>5. Shown' = [Shown EXCEPT ![d] = v]
      BY <1>1, <2>1, <2>4
    <2>6. ASSUME Shown[d] # NoVersion
          PROVE  Number[Shown[d]] < Number[v]
      <3> DEFINE u == document[d].active
      <3>1. u \in Versions /\ DocOf[u] = d /\ u # v
        BY <1>1, <1>2, <2>1, <2>2, <2>6 DEF IngestionInv, JobsFollowVersions, DocumentRow
      <3>2. ~(Number[u] > Number[v])
        BY <3>1, <2>2, <1>1, <2>1, <2>6 DEF NewerIsActive
      <3>3. Number[u] # Number[v] /\ Number[u] \in Nat /\ Number[v] \in Nat
        BY <2>1, <3>1, ConstantsAssumption DEF ConstantsAssumption
      <3> QED
        BY <1>1, <2>1, <3>2, <3>3, SMTT(40)
    <2> QED
      BY <2>1, <2>2, <2>3, <2>5, <2>6 DEF Abstract!Publish
  <1>5. ASSUME NEW d \in Docs, Tombstone(d)
        PROVE  Abstract!Retire(d)
    <2>1. /\ ~document[d].deleted /\ revision' = revision + 1
          /\ document' = [document EXCEPT ![d] = [active |-> NoVersion, deleted |-> TRUE]]
      BY <1>5 DEF Tombstone
    <2>2. Shown' = [Shown EXCEPT ![d] = NoVersion]
      BY <1>1, <1>2, <2>1
    <2>3. {e \in Docs : document'[e].deleted} = {e \in Docs : document[e].deleted} \cup {d}
      BY <1>2, <2>1
    <2> QED
      BY <2>1, <2>2, <2>3 DEF Abstract!Retire
  <1>6. ASSUME NEW w \in Workers, Activate(w)
        PROVE  worker[w].job \in Versions
    BY <1>6, Activation
  <1> QED
    BY <1>3, <1>4, <1>5, <1>6, OnlyPublicationsShow DEF Abstract!Next

\* The pipeline implements the catalogue: seen through the active manifest, every
\* behaviour is a sequence of single publications and deletions.
THEOREM PipelineImplementsCatalogue ==
  ASSUME NoStaleReads
  PROVE  Spec => ImplementsCatalogue
  <1>1. Init => Abstract!Init
    BY InitRefines
  <1>2. IngestionInv /\ IngestionInv' /\ [Next]_vars => [Abstract!Next]_(Abstract!vars)
    BY StepRefines
  <1> QED
    BY <1>1, <1>2, InvariantHolds, PTL DEF Spec, ImplementsCatalogue, Abstract!Spec

\* The same seen from any state that already satisfies the invariant.
THEOREM StepsAreCatalogueSteps ==
  ASSUME NoStaleReads
  PROVE  Spec => StepsImplementCatalogue
  <1>1. IngestionInv /\ IngestionInv' /\ [Next]_vars => [Abstract!Next]_(Abstract!vars)
    BY StepRefines
  <1> QED
    BY <1>1, InvariantHolds, PTL DEF Spec, StepsImplementCatalogue

-------------------------------------------------------------------------------
(* The inductive invariant of the pipeline *)

\* The coroutine is between _start and the end of process or _mark_failed.
Busy(w) == worker[w].pc \in Running \cup {"failing"}

Deleted(v) == document[DocOf[v]].deleted

\* What retrieval and garbage collection expect of a version that was published.
Intact(v) == points[v] = Batches /\ v \in chunks /\ v \in files

\* A busy worker holds the lease of its job until the document is deleted, and nothing
\* that was published is worked on again.
Held(w) ==
    Busy(w) =>
        /\ job[worker[w].job].status # "succeeded"
        /\ ~Deleted(worker[w].job) =>
              /\ job[worker[w].job].status = "processing"
              /\ job[worker[w].job].fresh
              /\ version[worker[w].job].status \in {"processing", "ready"}

\* Two workers are busy with one job only after its document was deleted.
Apart(w, x) ==
    w # x /\ Busy(w) /\ Busy(x) /\ worker[w].job = worker[x].job => Deleted(worker[w].job)

LeaseSound ==
    /\ \A w \in Workers : Held(w)
    /\ \A w, x \in Workers : Apart(w, x)

\* The status of a version and that of its job move together.
Paired(v) ==
    /\ version[v].status = "failed" => job[v].status = "failed"
    /\ version[v].status \in {"active", "superseded"} <=> job[v].status = "succeeded"
    /\ version[v].status \in Pending /\ ~Deleted(v) =>
          job[v].status \in {"staged", "queued", "processing"}

StatusSound ==
    /\ \A v \in Versions : Paired(v)
    /\ \A d \in Docs : document[d].active # NoVersion =>
          version[document[d].active].status = "active"

\* What a worker has done so far is there, while nobody else touches its version.
Progressed(w) ==
    worker[w].pc \in Running \ {"parse"} /\ ~Deleted(worker[w].job) =>
        /\ worker[w].job \in chunks /\ worker[w].job \in files
        /\ worker[w].pc \in {"ready", "activate"} => points[worker[w].job] = Batches

ProgressSound == \A w \in Workers : Progressed(w)

\* An activated manifest lists what was published.
ManifestsPublished ==
    \A g \in Gens : generation[g].status = "active" =>
        \A v \in generation[g].manifest : job[v].status = "succeeded"

ServiceInv ==
    /\ IngestionInv
    /\ LeaseSound
    /\ StatusSound
    /\ ProgressSound
    /\ ManifestsPublished

\* Nothing deletes what was published, as long as garbage collection does not.
PublishedIntact == \A v \in Versions : job[v].status = "succeeded" => Intact(v)

-------------------------------------------------------------------------------
(* Workers and their rows *)

\* Without accidents no session trusts a status it read before its lock.
LEMMA NoRaces == Races = {} => NoStaleReads
  BY DEF NoStaleReads

\* The types that the steps below read.
LEMMA Rows ==
    ASSUME IngestionInv
    PROVE  /\ worker \in [Workers -> WorkerState] /\ job \in [Versions -> JobRow]
           /\ version \in [Versions -> VersionRow] /\ generation \in [Gens -> GenerationRow]
           /\ document \in [Docs -> DocumentRow] /\ points \in [Versions -> SUBSET Batches]
           /\ activeGen \in Gens \cup {NoGen}
           /\ \A w \in Workers : Busy(w) \/ worker[w].pc = "claim" => worker[w].job \in Versions
           /\ \A v \in Versions : DocOf[v] \in Docs
           /\ \A d \in Docs : document[d].active # NoVersion =>
                 /\ document[d].active \in Versions /\ DocOf[document[d].active] = d
                 /\ job[document[d].active].status = "succeeded"
<1>1. /\ worker \in [Workers -> WorkerState] /\ job \in [Versions -> JobRow]
      /\ version \in [Versions -> VersionRow] /\ generation \in [Gens -> GenerationRow]
      /\ document \in [Docs -> DocumentRow] /\ points \in [Versions -> SUBSET Batches]
      /\ activeGen \in Gens \cup {NoGen}
  BY DEF IngestionInv, TypeOK
<1>2. \A w \in Workers : Busy(w) \/ worker[w].pc = "claim" => worker[w].job \in Versions
  BY DEF IngestionInv, WorkersBusy, Busy, Running
<1>3. \A v \in Versions : DocOf[v] \in Docs
  BY ConstantsAssumption DEF ConstantsAssumption
<1>4. \A d \in Docs : document[d].active # NoVersion => document[d].active \in Versions
  BY <1>1 DEF DocumentRow
<1> QED
  BY <1>1, <1>2, <1>3, <1>4 DEF IngestionInv, JobsFollowVersions

\* A worker moves on in process.
LEMMA GotoFields ==
    ASSUME IngestionInv, NEW w \in Workers, NEW pc, Goto(w, pc)
    PROVE  /\ worker'[w].pc = pc /\ worker'[w].job = worker[w].job
           /\ \A x \in Workers \ {w} : worker'[x] = worker[x]
  BY Rows DEF Goto, WorkerState

\* A worker is done with process.
LEMMA FinishFields ==
    ASSUME IngestionInv, NEW w \in Workers, Finish(w)
    PROVE  worker'[w].pc = "idle" /\ \A x \in Workers \ {w} : worker'[x] = worker[x]
  BY Rows DEF Finish, Idle

\* Who was free is not busy unless it starts.
NobodyStarts == \A x \in Workers : Busy(x)' => Busy(x) /\ worker'[x].job = worker[x].job

\* All workers but w stay as they are, and w is not busy with anything new.
LEMMA OneMoves ==
    ASSUME NEW w \in Workers, \A x \in Workers \ {w} : worker'[x] = worker[x],
           \/ ~Busy(w)'
           \/ Busy(w) /\ worker'[w].job = worker[w].job
    PROVE  NobodyStarts
  BY DEF NobodyStarts, Busy

\* Busy workers stay apart while nobody starts and deletions last.
LEMMA ApartKept ==
    ASSUME LeaseSound, NobodyStarts, \A d : document[d].deleted => document'[d].deleted,
           \A x \in Workers : Held(x)'
    PROVE  LeaseSound'
<1>1. ASSUME NEW w \in Workers, NEW x \in Workers PROVE Apart(w, x)'
  BY DEF LeaseSound, Apart, NobodyStarts, Deleted
<1> QED
  BY <1>1 DEF LeaseSound

\* A lease is held while job and version keep their status.
LEMMA HeldKept ==
    ASSUME IngestionInv, LeaseSound, NobodyStarts, UNCHANGED <<document, version>>,
           \A v \in Versions : job'[v].status = job[v].status /\ (job[v].fresh => job'[v].fresh)
    PROVE  \A x \in Workers : Held(x)'
<1> SUFFICES ASSUME NEW x \in Workers, Busy(x)' PROVE Held(x)'
  BY DEF Held
<1>1. Busy(x) /\ worker'[x].job = worker[x].job /\ worker[x].job \in Versions
  BY Rows DEF NobodyStarts
<1>2. Held(x)
  BY DEF LeaseSound
<1>3. PICK v \in Versions : v = worker[x].job /\ v = worker'[x].job
  BY <1>1
<1> QED
  BY <1>1, <1>2, <1>3 DEF Held, Deleted

\* The status of versions and jobs, and what is listed, stay.
LEMMA StatusKept ==
    ASSUME IngestionInv, StatusSound, ManifestsPublished, UNCHANGED <<catalogue, version>>,
           \A v \in Versions : job'[v].status = job[v].status
    PROVE  StatusSound' /\ ManifestsPublished'
<1>1. UNCHANGED <<document, generation, activeGen, version>>
  BY DEF catalogue
<1>2. \A v \in Versions : Paired(v)'
  BY <1>1 DEF StatusSound, Paired, Deleted
<1>3. StatusSound'
  BY <1>1, <1>2 DEF StatusSound
<1>4. \A g \in Gens : generation[g].manifest \subseteq Versions
  BY Rows DEF GenerationRow
<1> QED
  BY <1>1, <1>3, <1>4 DEF ManifestsPublished

\* What the others have done stays, when w touches no points but those of the job it holds.
LEMMA ProgressKept ==
    ASSUME ServiceInv, NEW w \in Workers, \A x \in Workers \ {w} : worker'[x] = worker[x],
           \A d : document[d].deleted => document'[d].deleted,
           chunks \subseteq chunks', files \subseteq files',
           \A v \in Versions :
               points'[v] = points[v] \/ (Busy(w) /\ worker[w].job = v),
           Progressed(w)'
    PROVE  ProgressSound'
<1> SUFFICES ASSUME NEW x \in Workers \ {w}, worker[x].pc \in Running \ {"parse"},
                    NEW v, v = worker[x].job, ~document'[DocOf[v]].deleted
             PROVE  /\ v \in chunks' /\ v \in files'
                    /\ worker[x].pc \in {"ready", "activate"} => points'[v] = Batches
  BY DEF ProgressSound, Progressed, Deleted
<1>1. Busy(x) /\ v \in Versions /\ ~Deleted(v)
  BY Rows DEF ServiceInv, Busy, Deleted
<1>2. Progressed(x) /\ Apart(w, x)
  BY DEF ServiceInv, ProgressSound, LeaseSound
<1>3. points'[v] = points[v]
  BY <1>1, <1>2 DEF Apart
<1> QED
  BY <1>1, <1>2, <1>3 DEF Progressed

-------------------------------------------------------------------------------
(* Every step of the pipeline keeps the invariant *)

Service == LeaseSound /\ StatusSound /\ ProgressSound /\ ManifestsPublished

\* A step of one worker that changes the status of nothing.
LEMMA CalmStep ==
    ASSUME ServiceInv, NEW w \in Workers, \A x \in Workers \ {w} : worker'[x] = worker[x],
           \/ ~Busy(w)'
           \/ Busy(w) /\ worker'[w].job = worker[w].job,
           UNCHANGED <<catalogue, version>>,
           \A v \in Versions : job'[v].status = job[v].status /\ (job[v].fresh => job'[v].fresh),
           chunks \subseteq chunks', files \subseteq files',
           \A v \in Versions :
               points'[v] = points[v] \/ (Busy(w) /\ worker[w].job = v),
           Progressed(w)'
    PROVE  Service'
<1>1. NobodyStarts
  BY OneMoves
<1>2. UNCHANGED <<document, version>>
  BY DEF catalogue
<1>3. LeaseSound'
  BY <1>1, <1>2, HeldKept, ApartKept DEF ServiceInv
<1>4. StatusSound' /\ ManifestsPublished'
  BY StatusKept DEF ServiceInv
<1>5. ProgressSound'
  BY <1>2, ProgressKept
<1> QED
  BY <1>3, <1>4, <1>5 DEF Service

\* Requests stage a version nobody has, or leave jobs that run alone; a lease lapses
\* only when nobody is busy with its job.
LEMMA RequestService ==
    ASSUME Races = {}, ServiceInv, NEW v \in Versions, Request(v) \/ LeaseExpires(v)
    PROVE  Service'
<1>1. UNCHANGED <<worker, catalogue, chunks, points>> /\ files \subseteq files'
  BY DEF Request, Upload, Reindex, Stage, Enqueue, RecordQueued, RequestGivesUp, LeaseExpires,
         payload
<1>2. UNCHANGED <<document, generation, activeGen>>
  BY <1>1 DEF catalogue
<1>3. ProgressSound'
  BY <1>1, <1>2 DEF ServiceInv, ProgressSound, Progressed, Deleted
<1>4. NobodyStarts
  BY <1>1 DEF NobodyStarts, Busy
<1>5. IngestionInv /\ LeaseSound /\ StatusSound /\ ManifestsPublished
  BY DEF ServiceInv
<1>6. \A g \in Gens : generation[g].manifest \subseteq Versions
  BY <1>5, Rows DEF GenerationRow
<1>7. CASE Enqueue(v) \/ RequestGivesUp(v)
  <2>1. UNCHANGED <<job, version>>
    BY <1>7 DEF Enqueue, RequestGivesUp
  <2> QED
    BY <1>1, <1>2, <1>3, <1>4, <1>5, <2>1, HeldKept, ApartKept, StatusKept DEF Service
<1>8. CASE LeaseExpires(v)
  <2>1. /\ version' = version
        /\ job' = [job EXCEPT ![v].fresh = FALSE]
        /\ \A w \in Workers : ~(worker[w].job = v /\ Busy(w))
    BY <1>8 DEF LeaseExpires, Busy
  <2>2. \A u \in Versions : job'[u].status = job[u].status /\ (u # v => job'[u] = job[u])
    BY <1>5, <2>1, Rows DEF JobRow
  <2>3. ASSUME NEW x \in Workers, Busy(x) PROVE Held(x)'
    <3>1. PICK u \in Versions : u = worker[x].job /\ u # v
      BY <1>5, <2>1, <2>3, Rows
    <3>2. Held(x) /\ job'[u] = job[u]
      BY <1>5, <2>2, <3>1 DEF LeaseSound
    <3> QED
      BY <1>1, <1>2, <2>1, <2>3, <3>1, <3>2 DEF Held, Busy, Deleted
  <2>4. \A x \in Workers : Held(x)'
    BY <1>1, <2>3 DEF Held, Busy
  <2> QED
    BY <1>1, <1>2, <1>3, <1>4, <1>5, <2>1, <2>2, <2>4, ApartKept, StatusKept DEF Service
<1>9. CASE Upload(v) \/ Reindex(v)
  <2>1. Stage(v) /\ IsNextVersion(v) /\ ~Deleted(v)
    BY <1>9 DEF Upload, Reindex, Deleted
  <2>2. /\ version[v].status = "none" /\ job[v].status = "none"
        /\ version'[v].status = "staged" /\ job'[v].status = "staged"
        /\ \A u \in Versions \ {v} : version'[u] = version[u] /\ job'[u] = job[u]
    BY <1>5, <2>1, Rows
    DEF Stage, IsNextVersion, VersionRow, JobRow, IngestionInv, JobsFollowVersions
  <2>3. ASSUME NEW x \in Workers, Busy(x) PROVE Held(x)'
    <3>1. PICK u \in Versions : u = worker[x].job
      BY <1>5, <2>3, Rows
    <3>2. Held(x)
      BY <1>5 DEF LeaseSound
    <3>3. u # v
      BY <2>1, <2>2, <2>3, <3>1, <3>2 DEF Held
    <3> QED
      BY <1>1, <1>2, <2>2, <2>3, <3>1, <3>2, <3>3 DEF Held, Busy, Deleted
  <2>4. \A x \in Workers : Held(x)'
    BY <1>1, <2>3 DEF Held, Busy
  <2>5. ASSUME NEW u \in Versions PROVE Paired(u)'
    <3>1. CASE u = v
      BY <2>2, <3>1 DEF Paired, Pending
    <3>2. CASE u # v
      BY <1>2, <1>5, <2>2, <3>2 DEF StatusSound, Paired, Deleted
    <3> QED
      BY <3>1, <3>2
  <2>6. ASSUME NEW d \in Docs, document'[d].active # NoVersion
        PROVE  version'[document'[d].active].status = "active"
    <3>1. PICK u \in Versions : u = document[d].active /\ version[u].status = "active"
      BY <1>2, <1>5, <2>6, Rows DEF StatusSound
    <3> QED
      BY <1>2, <2>2, <3>1
  <2>7. ManifestsPublished'
    BY <1>2, <1>5, <1>6, <2>2 DEF ManifestsPublished
  <2>8. StatusSound'
    BY <2>5, <2>6 DEF StatusSound
  <2> QED
    BY <1>1, <1>2, <1>3, <1>4, <1>5, <2>4, <2>7, <2>8, ApartKept DEF Service
<1>10. CASE RecordQueued(v)
  <2>1. /\ version' = version
        /\ \/ job' = job
           \/ /\ job[v].status = "staged"
              /\ job' = [job EXCEPT ![v] = [status |-> "queued", fresh |-> TRUE]]
    BY <1>10 DEF RecordQueued, SeenByRequest
  <2>2. /\ \A u \in Versions \ {v} : job'[u] = job[u]
        /\ \/ job'[v] = job[v]
           \/ job[v].status = "staged" /\ job'[v].status = "queued"
    BY <1>5, <2>1, Rows
  <2>3. ASSUME NEW x \in Workers, Busy(x) PROVE Held(x)'
    <3>1. PICK u \in Versions : u = worker[x].job
      BY <1>5, <2>3, Rows
    <3>2. Held(x)
      BY <1>5 DEF LeaseSound
    <3> QED
      BY <1>1, <1>2, <2>1, <2>2, <2>3, <3>1, <3>2 DEF Held, Busy, Deleted
  <2>4. \A x \in Workers : Held(x)'
    BY <1>1, <2>3 DEF Held, Busy
  <2>5. ASSUME NEW u \in Versions PROVE Paired(u)'
    <3>1. Paired(u)
      BY <1>5 DEF StatusSound
    <3> QED
      BY <1>2, <2>1, <2>2, <3>1 DEF Paired, Deleted
  <2>6. StatusSound'
    BY <1>2, <1>5, <2>1, <2>5 DEF StatusSound
  <2>7. ManifestsPublished'
    BY <1>2, <1>5, <1>6, <2>2 DEF ManifestsPublished
  <2> QED
    BY <1>1, <1>2, <1>3, <1>4, <1>5, <2>4, <2>6, <2>7, ApartKept DEF Service
<1> QED
  BY <1>7, <1>8, <1>9, <1>10 DEF Request

\* Coroutines that take a job, lose it or give it up change no status.
LEMMA TakeJobService ==
    ASSUME Races = {}, ServiceInv, NEW w \in Workers,
           \/ \E v \in Versions : Deliver(w, v) \/ NextListed(w, v)
           \/ ListJobs(w) \/ StepFails(w) \/ Crash(w)
           \/ StartDeclined(w) \/ ActivateDone(w) \/ FailureIgnored(w)
           \/ ValidateFails(w) \/ ActivateRefused(w)
    PROVE  Service'
<1>1. worker \in [Workers -> WorkerState] /\ IngestionInv
  BY Rows DEF ServiceInv
<1>2. UNCHANGED <<catalogue, version, job, payload>>
  BY DEF Deliver, NextListed, ListJobs, StepFails, Crash, StartDeclined, ActivateDone,
         FailureIgnored, ValidateFails, ActivateRefused
<1>3. ASSUME \A x \in Workers \ {w} : worker'[x] = worker[x],
             \/ worker'[w].pc \in {"idle", "claim"}
             \/ Busy(w) /\ worker'[w].pc = "failing" /\ worker'[w].job = worker[w].job
      PROVE  Service'
  <2>1. Progressed(w)'
    BY <1>3 DEF Progressed, Running
  <2>2. ~Busy(w)' \/ (Busy(w) /\ worker'[w].job = worker[w].job)
    <3>1. worker'[w].pc \in {"idle", "claim"} => ~Busy(w)'
      BY DEF Busy, Running
    <3> QED
      BY <1>3, <3>1, Zenon
  <2>3. UNCHANGED <<catalogue, version, job, chunks, points, files>>
    BY <1>2 DEF payload
  <2>4. /\ UNCHANGED <<catalogue, version>> /\ chunks \subseteq chunks' /\ files \subseteq files'
        /\ \A u \in Versions :
              job'[u].status = job[u].status /\ (job[u].fresh => job'[u].fresh)
    BY <2>3
  <2>5. \A u \in Versions : points'[u] = points[u] \/ (Busy(w) /\ worker[w].job = u)
    BY <2>3
  <2> QED
    BY <1>3, <2>1, <2>2, <2>4, <2>5, CalmStep
<1>4. CASE \E v \in Versions : Deliver(w, v) \/ NextListed(w, v)
  <2>1. PICK v \in Versions, arq \in BOOLEAN :
            worker' = [worker EXCEPT ![w] = Claimed(w, v, arq)]
    BY <1>4 DEF Deliver, NextListed
  <2>2. Claimed(w, v, arq).pc = "claim"
    BY DEF Claimed, Idle
  <2> QED
    BY <1>1, <1>3, <2>1, <2>2
<1>5. CASE StartDeclined(w) \/ ActivateDone(w) \/ FailureIgnored(w)
  <2>1. Finish(w)
    BY <1>5 DEF StartDeclined, ActivateDone, FailureIgnored
  <2> QED
    BY <1>1, <1>3, <2>1, FinishFields
<1>6. CASE ValidateFails(w) \/ ActivateRefused(w)
  <2>1. Goto(w, "failing") /\ Busy(w)
    BY <1>6 DEF ValidateFails, ActivateRefused, Busy, Running
  <2> QED
    BY <1>1, <1>3, <2>1, GotoFields
<1>7. CASE StepFails(w)
  <2>1. Busy(w) /\ worker' = [worker EXCEPT ![w].pc = "failing", ![w].seen = NotSeen]
    BY <1>7 DEF StepFails, Busy
  <2>2. worker'[w].pc = "failing" /\ worker'[w].job = worker[w].job
    BY <1>1, <2>1 DEF WorkerState
  <2> QED
    BY <1>1, <1>3, <2>1, <2>2
<1>8. CASE Crash(w)
  BY <1>1, <1>3, <1>8 DEF Crash, Idle
<1>9. CASE ListJobs(w)
  BY <1>1, <1>3, <1>9 DEF ListJobs
<1> QED
  BY <1>4, <1>5, <1>6, <1>7, <1>8, <1>9

\* Points come and go only for the job the worker holds, and are counted before it
\* calls the version ready.
LEMMA ContentService ==
    ASSUME ServiceInv, NEW w \in Workers,
           ClearPoints(w) \/ Upsert(w) \/ Validate(w) \/ Heartbeat(w)
    PROVE  Service'
<1>1. /\ worker \in [Workers -> WorkerState] /\ IngestionInv /\ Progressed(w)
      /\ points \in [Versions -> SUBSET Batches] /\ job \in [Versions -> JobRow]
  BY Rows DEF ServiceInv, ProgressSound
<1>2. UNCHANGED <<catalogue, version, chunks, files>>
  BY DEF ClearPoints, Upsert, Validate, Heartbeat, payload
<1>3. Busy(w)
  BY DEF ClearPoints, Upsert, Validate, Heartbeat, Busy, Running
<1>4. PICK v \in Versions : v = worker[w].job
  BY <1>1, <1>3, Rows
<1>5. /\ \A x \in Workers \ {w} : worker'[x] = worker[x]
      /\ worker'[w].job = v
  <2>1. CASE ClearPoints(w) \/ Validate(w)
    BY <1>1, <1>4, <2>1, GotoFields DEF ClearPoints, Validate
  <2>2. CASE Upsert(w)
    BY <1>1, <1>4, <2>2 DEF Upsert, WorkerState
  <2>3. CASE Heartbeat(w)
    BY <1>4, <2>3 DEF Heartbeat
  <2> QED
    BY <2>1, <2>2, <2>3
<1>6. \A u \in Versions : job'[u].status = job[u].status /\ (job[u].fresh => job'[u].fresh)
  BY <1>1, <1>4 DEF ClearPoints, Upsert, Validate, Heartbeat, Beat, payload, JobRow
<1>7. \A u \in Versions : points'[u] = points[u] \/ u = v
  BY <1>1, <1>4 DEF ClearPoints, Upsert, Validate, Heartbeat, payload
<1>8. Progressed(w)'
  <2>1. UNCHANGED document
    BY <1>2 DEF catalogue
  <2>2. CASE ClearPoints(w)
    <3>1. worker[w].pc = "clear" /\ worker'[w].pc = "embed"
      BY <1>1, <2>2, GotoFields DEF ClearPoints
    <3> QED
      BY <1>1, <1>2, <1>4, <1>5, <2>1, <3>1 DEF Progressed, Deleted, Running
  <2>3. CASE Upsert(w)
    <3>1. worker[w].pc = "embed" /\ worker'[w].pc \in {"embed", "validate"}
      BY <1>1, <2>3 DEF Upsert, WorkerState
    <3> QED
      BY <1>1, <1>2, <1>4, <1>5, <2>1, <3>1 DEF Progressed, Deleted, Running
  <2>4. CASE Validate(w)
    <3>1. worker[w].pc = "validate" /\ worker'[w].pc = "ready" /\ points'[v] = Batches
      BY <1>1, <1>4, <2>4, GotoFields DEF Validate, payload
    <3> QED
      BY <1>1, <1>2, <1>4, <1>5, <2>1, <3>1 DEF Progressed, Deleted, Running
  <2>5. CASE Heartbeat(w)
    BY <1>1, <1>2, <2>1, <2>5 DEF Heartbeat, payload, Progressed, Deleted
  <2> QED
    BY <2>2, <2>3, <2>4, <2>5
<1>9. UNCHANGED <<catalogue, version>> /\ chunks \subseteq chunks' /\ files \subseteq files'
  BY <1>2
<1>10. Busy(w) /\ worker'[w].job = worker[w].job
  BY <1>3, <1>4, <1>5
<1>11. \A u \in Versions : points'[u] = points[u] \/ (Busy(w) /\ worker[w].job = u)
  BY <1>3, <1>4, <1>7
<1> QED
  BY <1>5, <1>6, <1>8, <1>9, <1>10, <1>11, CalmStep

\* One unfinished job and its version move on: all other rows and what is listed stay.
LEMMA RowMoves ==
    ASSUME ServiceInv, NEW v \in Versions, job[v].status # "succeeded", UNCHANGED document,
           \A u \in Versions \ {v} : version'[u] = version[u] /\ job'[u] = job[u],
           \A g \in Gens : generation'[g].status = "active" => generation'[g] = generation[g],
           Paired(v)'
    PROVE  StatusSound' /\ ManifestsPublished'
<1>1. IngestionInv /\ StatusSound /\ ManifestsPublished
  BY DEF ServiceInv
<1>2. ASSUME NEW u \in Versions PROVE Paired(u)'
  <2>1. Paired(u)
    BY <1>1 DEF StatusSound
  <2> QED
    BY <2>1 DEF Paired, Deleted
<1>3. ASSUME NEW d \in Docs, document'[d].active # NoVersion
      PROVE  version'[document'[d].active].status = "active"
  <2>1. PICK u \in Versions : u = document[d].active /\ job[u].status = "succeeded"
    BY <1>1, <1>3, Rows
  <2>2. version[u].status = "active"
    BY <1>1, <1>3, <2>1 DEF StatusSound
  <2> QED
    BY <2>1, <2>2
<1>4. StatusSound'
  BY <1>2, <1>3 DEF StatusSound
<1>5. \A g \in Gens : generation[g].manifest \subseteq Versions
  BY <1>1, Rows DEF GenerationRow
<1>6. ASSUME NEW g \in Gens, generation'[g].status = "active", NEW u \in generation'[g].manifest
      PROVE  job'[u].status = "succeeded"
  <2>1. generation[g].status = "active" /\ u \in generation[g].manifest /\ u \in Versions
    BY <1>5, <1>6
  <2>2. job[u].status = "succeeded"
    BY <1>1, <2>1 DEF ManifestsPublished
  <2> QED
    BY <2>1, <2>2
<1> QED
  BY <1>4, <1>6 DEF ManifestsPublished

\* A worker takes the lease only of a job that nobody else is busy with, unless its
\* document is gone.
LEMMA StartService ==
    ASSUME Races = {}, ServiceInv, NEW w \in Workers, Start(w)
    PROVE  Service'
<1>1. IngestionInv /\ LeaseSound
  BY DEF ServiceInv
<1>2. PICK v \in Versions : v = worker[w].job
  BY <1>1, Rows DEF Start
<1>3. /\ job[v].status # "succeeded"
      /\ ~(job[v].status = "processing" /\ job[v].fresh)
      /\ job' = [job EXCEPT
            ![v] = [status |-> IF job[v].status = "processing" THEN @.status ELSE "processing",
                    fresh |-> TRUE]]
      /\ version' = [version EXCEPT
            ![v].status = IF version[v].status = "processing" THEN @ ELSE "processing"]
  BY <1>2 DEF Start, SeenAtStart, Taken
<1>4. /\ \A x \in Workers \ {w} : worker'[x] = worker[x]
      /\ worker'[w].pc = "parse" /\ worker'[w].job = v
  BY <1>1, <1>2, Rows DEF Start, WorkerState
<1>5. UNCHANGED <<document, generation, chunks, points, files>>
  BY DEF Start, catalogue, payload
<1>6. /\ job'[v].status = "processing" /\ job'[v].fresh /\ version'[v].status = "processing"
      /\ \A u \in Versions \ {v} : version'[u] = version[u] /\ job'[u] = job[u]
  BY <1>1, <1>3, Rows DEF JobRow, VersionRow
<1>7. ASSUME NEW x \in Workers \ {w}, Busy(x)
      PROVE  Held(x)' /\ (worker[x].job = v => Deleted(v))
  <2>1. PICK u \in Versions : u = worker[x].job
    BY <1>1, <1>7, Rows
  <2>2. Held(x)
    BY <1>1 DEF LeaseSound
  <2> QED
    BY <1>3, <1>4, <1>5, <1>6, <1>7, <2>1, <2>2 DEF Held, Busy, Deleted
<1>8. Held(w)'
  BY <1>4, <1>6 DEF Held
<1>9. \A x \in Workers : Held(x)'
  BY <1>4, <1>7, <1>8 DEF Held, Busy
<1>10. ASSUME NEW x \in Workers, NEW y \in Workers PROVE Apart(x, y)'
  <2>1. Apart(x, y)
    BY <1>1 DEF LeaseSound
  <2> QED
    BY <1>4, <1>5, <1>7, <2>1 DEF Apart, Busy, Deleted
<1>11. LeaseSound'
  BY <1>9, <1>10 DEF LeaseSound
<1>12. Paired(v)'
  BY <1>6 DEF Paired, Pending
<1>13. StatusSound' /\ ManifestsPublished'
  BY <1>3, <1>5, <1>6, <1>12, RowMoves
<1>14. Progressed(w)'
  BY <1>4 DEF Progressed
<1>15. ProgressSound'
  BY <1>4, <1>5, <1>14, ProgressKept
<1> QED
  BY <1>11, <1>13, <1>15 DEF Service

\* The rows and the raw file of a version are there once its content is persisted.
LEMMA PersistService ==
    ASSUME ServiceInv, NEW w \in Workers, Persist(w)
    PROVE  Service'
<1>1. IngestionInv /\ LeaseSound /\ Held(w) /\ Busy(w)
  BY DEF ServiceInv, LeaseSound, Persist, Busy, Running
<1>2. PICK v \in Versions : v = worker[w].job
  BY <1>1, Rows
<1>3. PICK g \in Gens :
        /\ \/ generation[g].status = "none"
           \/ generation[g].status = "preparing"
        /\ generation' = [generation EXCEPT ![g] =
              [status |-> "preparing", parent |-> activeGen,
               revision |-> revision + 1, changed |-> v,
               manifest |-> CopyManifest(activeGen, DocOf[v]) \cup {v}]]
        /\ version' = [version EXCEPT ![v] = [status |-> "processing", gen |-> g]]
        /\ worker' = [worker EXCEPT ![w].pc = "clear", ![w].gen = g]
  BY <1>2 DEF Persist, IsNewGen
<1>4. /\ \A x \in Workers \ {w} : worker'[x] = worker[x]
      /\ worker'[w].pc = "clear" /\ worker'[w].job = v
  BY <1>1, <1>2, <1>3, Rows DEF WorkerState
<1>5. /\ UNCHANGED <<document, points, files>> /\ chunks' = chunks \cup {v} /\ v \in files
      /\ job' = [job EXCEPT ![v].fresh = TRUE]
  BY <1>2 DEF Persist
<1>6. \A h \in Gens : generation'[h].status = "active" => generation'[h] = generation[h]
  <2>1. generation'[g].status = "preparing" /\ \A h \in Gens \ {g} : generation'[h] = generation[h]
    BY <1>1, <1>3, Rows
  <2> QED
    BY <2>1
<1>7. /\ version'[v].status = "processing"
      /\ job'[v].status = job[v].status /\ job'[v].fresh
      /\ \A u \in Versions \ {v} : version'[u] = version[u] /\ job'[u] = job[u]
  BY <1>1, <1>3, <1>5, Rows DEF JobRow
<1>8. /\ job[v].status # "succeeded"
      /\ ~Deleted(v) => job[v].status = "processing"
  BY <1>1, <1>2 DEF Held
<1>9. NobodyStarts
  BY <1>1, <1>2, <1>4, OneMoves
<1>10. ASSUME NEW x \in Workers, Busy(x)' PROVE Held(x)'
  <2>1. Busy(x) /\ worker'[x].job = worker[x].job
    BY <1>9, <1>10 DEF NobodyStarts
  <2>2. PICK u \in Versions : u = worker[x].job
    BY <1>1, <2>1, Rows
  <2>3. Held(x)
    BY <1>1 DEF LeaseSound
  <2> QED
    BY <1>5, <1>7, <2>1, <2>2, <2>3 DEF Held, Deleted
<1>11. LeaseSound'
  <2>1. \A x \in Workers : Held(x)'
    BY <1>10 DEF Held
  <2> QED
    BY <1>1, <1>5, <1>9, <2>1, ApartKept
<1>12. Paired(v)'
  BY <1>5, <1>7, <1>8 DEF Paired, Deleted
<1>13. StatusSound' /\ ManifestsPublished'
  BY <1>5, <1>6, <1>7, <1>8, <1>12, RowMoves
<1>14. Progressed(w)'
  BY <1>4, <1>5 DEF Progressed
<1>15. ProgressSound'
  BY <1>4, <1>5, <1>14, ProgressKept
<1> QED
  BY <1>11, <1>13, <1>15 DEF Service

\* A version becomes ready with its points, and its job stays where it is.
LEMMA MarkReadyService ==
    ASSUME ServiceInv, NEW w \in Workers, MarkReady(w)
    PROVE  Service'
<1>1. IngestionInv /\ LeaseSound /\ Held(w) /\ Busy(w) /\ Progressed(w)
  BY DEF ServiceInv, LeaseSound, ProgressSound, MarkReady, Busy, Running
<1>2. PICK v \in Versions : v = worker[w].job
  BY <1>1, Rows
<1>3. /\ job[v].status # "succeeded"
      /\ ~Deleted(v) => job[v].status = "processing"
  BY <1>1, <1>2 DEF Held
<1>4. /\ version' = [version EXCEPT ![v].status = "ready"]
      /\ job' = [job EXCEPT ![v].fresh = TRUE]
      /\ Goto(w, "activate") /\ worker[w].pc = "ready"
      /\ UNCHANGED <<document, generation, chunks, points, files>>
  BY <1>2, <1>3 DEF MarkReady, Done, catalogue, payload
<1>5. /\ \A x \in Workers \ {w} : worker'[x] = worker[x]
      /\ worker'[w].pc = "activate" /\ worker'[w].job = v
  BY <1>1, <1>2, <1>4, GotoFields
<1>6. /\ version'[v].status = "ready"
      /\ job'[v].status = job[v].status /\ job'[v].fresh
      /\ \A u \in Versions \ {v} : version'[u] = version[u] /\ job'[u] = job[u]
  BY <1>1, <1>4, Rows DEF JobRow, VersionRow
<1>7. NobodyStarts
  BY <1>1, <1>2, <1>5, OneMoves
<1>8. ASSUME NEW x \in Workers, Busy(x)' PROVE Held(x)'
  <2>1. Busy(x) /\ worker'[x].job = worker[x].job
    BY <1>7, <1>8 DEF NobodyStarts
  <2>2. PICK u \in Versions : u = worker[x].job
    BY <1>1, <2>1, Rows
  <2>3. Held(x)
    BY <1>1 DEF LeaseSound
  <2> QED
    BY <1>4, <1>6, <2>1, <2>2, <2>3 DEF Held, Deleted
<1>9. LeaseSound'
  <2>1. \A x \in Workers : Held(x)'
    BY <1>8 DEF Held
  <2> QED
    BY <1>1, <1>4, <1>7, <2>1, ApartKept
<1>10. Paired(v)'
  BY <1>3, <1>4, <1>6 DEF Paired, Deleted
<1>11. StatusSound' /\ ManifestsPublished'
  BY <1>3, <1>4, <1>6, <1>10, RowMoves
<1>12. Progressed(w)'
  BY <1>1, <1>2, <1>4, <1>5 DEF Progressed, Deleted, Running
<1>13. ProgressSound'
  BY <1>4, <1>5, <1>12, ProgressKept
<1> QED
  BY <1>9, <1>11, <1>13 DEF Service

\* A worker fails the job it holds; whoever else is busy with it has a deleted document.
LEMMA MarkFailedService ==
    ASSUME Races = {}, ServiceInv, NEW w \in Workers, MarkFailed(w)
    PROVE  Service'
<1>1. IngestionInv /\ LeaseSound /\ StatusSound /\ Busy(w)
  BY DEF ServiceInv, MarkFailed, Busy
<1>2. PICK v \in Versions : v = worker[w].job
  BY <1>1, Rows
<1>3. /\ job[v].status # "succeeded" /\ Finish(w)
      /\ job' = [job EXCEPT
            ![v] = [status |-> IF job[v].status = "failed" THEN @.status ELSE "failed",
                    fresh |-> TRUE]]
      /\ version' = IF version[v].status = "active" THEN version
                    ELSE [version EXCEPT ![v].status = "failed"]
      /\ UNCHANGED <<document, chunks, points, files>>
  BY <1>2 DEF MarkFailed, FailsIn, payload
<1>4. version[v].status # "active"
  BY <1>1, <1>3 DEF StatusSound, Paired
<1>5. /\ version'[v].status = "failed" /\ job'[v].status = "failed"
      /\ \A u \in Versions \ {v} : version'[u] = version[u] /\ job'[u] = job[u]
  BY <1>1, <1>3, <1>4, Rows DEF JobRow, VersionRow
<1>6. \A g \in Gens : generation'[g].status = "active" => generation'[g] = generation[g]
  <2>1. \/ generation' = generation
        \/ \E g : generation' = [generation EXCEPT ![g].status = "failed"]
    BY DEF MarkFailed
  <2>2. ASSUME NEW g, generation' = [generation EXCEPT ![g].status = "failed"],
               NEW h \in Gens, generation'[h].status = "active"
        PROVE  generation'[h] = generation[h]
    <3>1. generation[h] \in GenerationRow
      BY <1>1, Rows
    <3>2. g = h => generation'[h] = [generation[h] EXCEPT !.status = "failed"]
      BY <1>1, <2>2, Rows
    <3>3. g # h
      BY <2>2, <3>1, <3>2 DEF GenerationRow
    <3> QED
      BY <1>1, <2>2, <3>3, Rows
  <2> QED
    BY <2>1, <2>2
<1>7. worker'[w].pc = "idle" /\ \A x \in Workers \ {w} : worker'[x] = worker[x]
  BY <1>1, <1>3, FinishFields
<1>8. ASSUME NEW x \in Workers, Busy(x)' PROVE Held(x)'
  <2>1. x # w /\ Busy(x) /\ worker'[x].job = worker[x].job
    BY <1>7, <1>8 DEF Busy, Running
  <2>2. PICK u \in Versions : u = worker[x].job
    BY <1>1, <2>1, Rows
  <2>3. Held(x) /\ Apart(w, x)
    BY <1>1 DEF LeaseSound
  <2>4. u = v => Deleted(u)
    BY <1>1, <1>2, <2>1, <2>2, <2>3 DEF Apart
  <2> QED
    BY <1>3, <1>5, <2>1, <2>2, <2>3, <2>4 DEF Held, Deleted
<1>9. ~Busy(w)'
  BY <1>7 DEF Busy, Running
<1>10. LeaseSound'
  <2>1. \A x \in Workers : Held(x)'
    BY <1>8 DEF Held
  <2>2. NobodyStarts
    BY <1>7, <1>9, OneMoves
  <2> QED
    BY <1>1, <1>3, <2>1, <2>2, ApartKept
<1>11. Paired(v)'
  BY <1>5 DEF Paired, Pending
<1>12. StatusSound' /\ ManifestsPublished'
  BY <1>3, <1>5, <1>6, <1>11, RowMoves
<1>13. Progressed(w)'
  BY <1>7 DEF Progressed, Running
<1>14. ProgressSound'
  BY <1>3, <1>7, <1>13, ProgressKept
<1> QED
  BY <1>10, <1>12, <1>14 DEF Service

\* The active manifest lists published versions only.
LEMMA VisiblePublished ==
    ASSUME ServiceInv
    PROVE  Visible \subseteq Versions /\ \A u \in Visible : job[u].status = "succeeded"
<1>1. activeGen # NoGen => activeGen \in Gens /\ generation[activeGen].status = "active"
  BY Rows DEF ServiceInv, IngestionInv, GenerationsLinked
<1>2. \A g \in Gens : generation[g].manifest \subseteq Versions
  BY Rows DEF ServiceInv, GenerationRow
<1> QED
  BY <1>1, <1>2 DEF Visible, ServiceInv, ManifestsPublished

\* Activation finishes the job for good: nobody else is busy with it, and the version it
\* replaces was finished before.
LEMMA ActivateService ==
    ASSUME ServiceInv, NEW w \in Workers, Activate(w)
    PROVE  Service'
<1>1. IngestionInv /\ LeaseSound /\ StatusSound /\ ManifestsPublished /\ Busy(w)
  BY DEF ServiceInv, Activate, Busy, Running
<1>2. PICK v \in Versions, d \in Docs : v = worker[w].job /\ d = DocOf[v]
  BY <1>1, Rows
<1>3. PICK g \in Gens :
        /\ \A h \in Gens \ {g} : generation'[h] = generation[h]
        /\ generation'[g].manifest = {u \in Visible : DocOf[u] # d} \cup {v}
  BY <1>1, <1>2, Activation
<1>4. PICK p : p = document[d].active
  OBVIOUS
<1>5. /\ job[v].status # "succeeded" /\ ~Deleted(v) /\ Finish(w)
      /\ document' = [document EXCEPT ![d].active = v]
      /\ version' =
            [u \in Versions |->
                IF u = v THEN [version[v] EXCEPT !.status = "active"]
                ELSE IF u = p THEN [version[u] EXCEPT !.status = "superseded"]
                ELSE version[u]]
      /\ job' = [job EXCEPT ![v] = [status |-> "succeeded", fresh |-> TRUE]]
      /\ UNCHANGED <<chunks, points, files>>
  BY <1>2, <1>4 DEF Activate, Done, Refused, Deleted, payload
<1>6. p # NoVersion => p \in Versions /\ job[p].status = "succeeded" /\ DocOf[p] = d
  BY <1>1, <1>2, <1>4, Rows
<1>7. /\ version'[v].status = "active" /\ job'[v].status = "succeeded"
      /\ \A u \in Versions \ {v} : job'[u] = job[u]
      /\ \A u \in Versions \ {v, p} : version'[u] = version[u]
      /\ p \in Versions => version'[p].status = "superseded"
  <2>1. p # v
    BY <1>5, <1>6, Constant
  <2> QED
    BY <1>1, <1>5, <2>1, Rows DEF VersionRow
<1>8. /\ document'[d].active = v
      /\ \A e \in Docs : document'[e].deleted = document[e].deleted
      /\ \A e \in Docs \ {d} : document'[e] = document[e]
  BY <1>1, <1>2, <1>5, Rows DEF DocumentRow
<1>9. \A u \in Versions : DocOf[u] \in Docs
  BY <1>1, Rows
<1>10. worker'[w].pc = "idle" /\ \A x \in Workers \ {w} : worker'[x] = worker[x]
  BY <1>1, <1>5, FinishFields
<1>11. ASSUME NEW x \in Workers, Busy(x)'
       PROVE  /\ Held(x)'
              /\ x # w /\ Busy(x) /\ worker'[x].job = worker[x].job
              /\ worker[x].job \in Versions \ {v}
  <2>1. x # w /\ Busy(x) /\ worker'[x].job = worker[x].job
    BY <1>10, <1>11 DEF Busy, Running
  <2>2. PICK u \in Versions : u = worker[x].job
    BY <1>1, <2>1, Rows
  <2>3. Held(x) /\ Apart(w, x)
    BY <1>1 DEF LeaseSound
  <2>4. u # v
    BY <1>1, <1>2, <1>5, <2>1, <2>2, <2>3 DEF Apart
  <2>5. job[u].status # "succeeded" /\ u # p
    BY <1>6, <2>1, <2>2, <2>3, Constant DEF Held
  <2>6. version'[u] = version[u] /\ job'[u] = job[u]
    BY <1>7, <2>4, <2>5
  <2>7. document'[DocOf[u]].deleted = document[DocOf[u]].deleted
    BY <1>8, <1>9
  <2> QED
    BY <2>1, <2>2, <2>3, <2>4, <2>5, <2>6, <2>7 DEF Held, Deleted
<1>12. LeaseSound'
  <2>1. ASSUME NEW x \in Workers, NEW y \in Workers PROVE Apart(x, y)'
    <3>1. Apart(x, y)
      BY <1>1 DEF LeaseSound
    <3>2. \A u \in Versions : document'[DocOf[u]].deleted = document[DocOf[u]].deleted
      BY <1>8, <1>9
    <3> QED
      BY <1>11, <3>1, <3>2 DEF Apart, Deleted
  <2>2. \A x \in Workers : Held(x)'
    BY <1>11 DEF Held
  <2> QED
    BY <2>1, <2>2 DEF LeaseSound
<1>13. ASSUME NEW u \in Versions PROVE Paired(u)'
  <2>1. Paired(u)
    BY <1>1 DEF StatusSound
  <2>2. document'[DocOf[u]].deleted = document[DocOf[u]].deleted
    BY <1>8, <1>9
  <2>3. CASE u = v
    BY <1>7, <2>3 DEF Paired, Pending
  <2>4. CASE u # v /\ u = p
    <3>1. job'[u].status = "succeeded" /\ version'[u].status = "superseded"
      BY <1>6, <1>7, <2>4, Constant
    <3> QED
      BY <3>1 DEF Paired, Pending
  <2>5. CASE u # v /\ u # p
    BY <1>7, <2>1, <2>2, <2>5 DEF Paired, Deleted
  <2> QED
    BY <2>3, <2>4, <2>5
<1>14. ASSUME NEW e \in Docs, document'[e].active # NoVersion
       PROVE  version'[document'[e].active].status = "active"
  <2>1. CASE e = d
    BY <1>7, <1>8, <2>1
  <2>2. CASE e # d
    <3>1. document'[e] = document[e]
      BY <1>8, <2>2
    <3>2. PICK u \in Versions : u = document[e].active /\ DocOf[u] = e
      BY <1>1, <1>14, <3>1, Rows
    <3>3. version[u].status = "active"
      BY <1>1, <1>14, <3>1, <3>2 DEF StatusSound
    <3>4. u # v /\ u # p
      BY <1>2, <1>6, <2>2, <3>2, Constant
    <3> QED
      BY <1>7, <3>1, <3>2, <3>3, <3>4
  <2> QED
    BY <2>1, <2>2
<1>15. StatusSound'
  BY <1>13, <1>14 DEF StatusSound
<1>16. ASSUME NEW h \in Gens, generation'[h].status = "active", NEW u \in generation'[h].manifest
       PROVE  job'[u].status = "succeeded"
  <2>1. u \in Versions /\ (job[u].status = "succeeded" \/ u = v)
    <3>1. CASE h = g
      BY <1>3, <3>1, VisiblePublished
    <3>2. CASE h # g
      <4>1. generation[h] \in GenerationRow /\ generation'[h] = generation[h]
        BY <1>1, <1>3, <3>2, Rows
      <4> QED
        BY <1>1, <1>16, <4>1 DEF ManifestsPublished, GenerationRow
    <3> QED
      BY <3>1, <3>2
  <2> QED
    BY <1>7, <2>1
<1>17. ManifestsPublished'
  BY <1>16 DEF ManifestsPublished
<1>18. Progressed(w)'
  BY <1>10 DEF Progressed, Running
<1>19. \A e : document[e].deleted => document'[e].deleted
  BY <1>1, <1>2, <1>5, Rows DEF DocumentRow
<1>20. ProgressSound'
  BY <1>5, <1>10, <1>18, <1>19, ProgressKept
<1> QED
  BY <1>12, <1>15, <1>17, <1>20 DEF Service

\* A deletion fails what is pending, under a running worker too, and publishes a
\* manifest without the document.
LEMMA TombstoneService ==
    ASSUME ServiceInv, NEW d \in Docs, Tombstone(d)
    PROVE  Service'
<1>1. IngestionInv /\ LeaseSound /\ StatusSound /\ ManifestsPublished
  BY DEF ServiceInv
<1>0. PICK p : p = document[d].active
  OBVIOUS
<1>2. PICK doomed \in SUBSET Versions :
        doomed = {v \in Existing(d) : version[v].status \in Pending}
  BY DEF Existing
<1>3. /\ document' = [document EXCEPT ![d] = [active |-> NoVersion, deleted |-> TRUE]]
      /\ version' =
            [v \in Versions |->
                IF v \in doomed THEN [version[v] EXCEPT !.status = "failed"]
                ELSE IF v = p THEN [version[v] EXCEPT !.status = "superseded"]
                ELSE version[v]]
      /\ job' = [v \in Versions |->
                    IF v \in doomed THEN [job[v] EXCEPT !.status = "failed"] ELSE job[v]]
      /\ UNCHANGED <<chunks, points, files, worker>>
  BY <1>0, <1>2 DEF Tombstone, payload
<1>4. PICK g \in Gens :
        /\ generation'[g].manifest = {u \in Visible : DocOf[u] # d}
        /\ \A h \in Gens \ {g} :
              /\ generation'[h].manifest = generation[h].manifest
              /\ \/ generation'[h].status = generation[h].status
                 \/ generation'[h].status = "failed"
  BY <1>1, Deletion
<1>5. /\ document'[d].deleted /\ document'[d].active = NoVersion
      /\ \A e \in Docs \ {d} : document'[e] = document[e]
  BY <1>1, <1>3, Rows
<1>6. \A u \in Versions : DocOf[u] \in Docs
  BY <1>1, Rows
<1>7. p # NoVersion =>
        /\ p \in Versions /\ DocOf[p] = d /\ p \notin doomed
        /\ job[p].status = "succeeded" /\ version[p].status = "active"
  BY <1>0, <1>1, <1>2, Rows DEF StatusSound, Pending
<1>8. /\ \A v \in doomed : /\ version'[v].status = "failed" /\ job'[v].status = "failed"
                           /\ job[v].status # "succeeded" /\ DocOf[v] = d
      /\ \A v \in Versions \ doomed : job'[v] = job[v]
      /\ \A v \in Versions \ doomed : v # p => version'[v] = version[v]
      /\ p # NoVersion => version'[p].status = "superseded" /\ job'[p].status = "succeeded"
  <2>1. \A v \in doomed : job[v].status # "succeeded" /\ DocOf[v] = d
    BY <1>1, <1>2 DEF StatusSound, Paired, Pending, Existing
  <2> QED
    BY <1>1, <1>2, <1>3, <1>7, <2>1, Rows DEF JobRow, VersionRow
<1>9. ASSUME NEW x \in Workers, Busy(x) PROVE Held(x)'
  <2>1. PICK u \in Versions : u = worker[x].job
    BY <1>1, <1>9, Rows
  <2>2. Held(x)
    BY <1>1 DEF LeaseSound
  <2>3. job'[u].status # "succeeded"
    BY <1>8, <1>9, <2>1, <2>2 DEF Held
  <2>4. DocOf[u] # d =>
          /\ version'[u] = version[u] /\ job'[u] = job[u]
          /\ document'[DocOf[u]] = document[DocOf[u]]
    BY <1>5, <1>6, <1>7, <1>8, Constant
  <2> QED
    BY <1>3, <1>5, <1>9, <2>1, <2>2, <2>3, <2>4 DEF Held, Busy, Deleted
<1>10. NobodyStarts /\ \A x \in Workers : Held(x)'
  BY <1>3, <1>9 DEF NobodyStarts, Held, Busy
<1>11. \A e : document[e].deleted => document'[e].deleted
  BY <1>1, <1>3, <1>5, Rows
<1>12. LeaseSound'
  BY <1>1, <1>10, <1>11, ApartKept
<1>13. ASSUME NEW u \in Versions PROVE Paired(u)'
  <2>1. Paired(u)
    BY <1>1 DEF StatusSound
  <2>2. CASE u \in doomed
    BY <1>8, <2>2 DEF Paired, Pending
  <2>3. CASE u = p /\ u \notin doomed
    <3>1. job'[u].status = "succeeded" /\ version'[u].status = "superseded"
      BY <1>8, <2>3, Constant
    <3> QED
      BY <3>1 DEF Paired, Pending
  <2>4. CASE u \notin doomed /\ u # p
    <3>1. version'[u] = version[u] /\ job'[u] = job[u]
      BY <1>8, <2>4
    <3>2. ~document'[DocOf[u]].deleted => ~document[DocOf[u]].deleted
      BY <1>11
    <3> QED
      BY <2>1, <3>1, <3>2 DEF Paired, Deleted
  <2> QED
    BY <2>2, <2>3, <2>4
<1>14. ASSUME NEW e \in Docs, document'[e].active # NoVersion
       PROVE  version'[document'[e].active].status = "active"
  <2>1. e # d /\ document'[e] = document[e]
    BY <1>5, <1>14
  <2>2. PICK u \in Versions : u = document[e].active /\ DocOf[u] = e
    BY <1>1, <1>14, <2>1, Rows
  <2>3. version[u].status = "active"
    BY <1>1, <1>14, <2>1, <2>2 DEF StatusSound
  <2>4. u \notin doomed /\ u # p
    BY <1>7, <1>8, <2>1, <2>2, Constant
  <2> QED
    BY <1>8, <2>1, <2>2, <2>3, <2>4
<1>15. StatusSound'
  BY <1>13, <1>14 DEF StatusSound
<1>16. ASSUME NEW h \in Gens, generation'[h].status = "active", NEW u \in generation'[h].manifest
       PROVE  job'[u].status = "succeeded"
  <2>1. u \in Versions /\ job[u].status = "succeeded"
    <3>1. CASE h = g
      BY <1>4, <3>1, VisiblePublished
    <3>2. CASE h # g
      <4>1. /\ generation[h] \in GenerationRow
            /\ generation'[h].manifest = generation[h].manifest
            /\ generation[h].status = "active"
        BY <1>1, <1>4, <1>16, <3>2, Rows
      <4> QED
        BY <1>1, <1>16, <4>1 DEF ManifestsPublished, GenerationRow
    <3> QED
      BY <3>1, <3>2
  <2> QED
    BY <1>8, <2>1
<1>17. ManifestsPublished'
  BY <1>16 DEF ManifestsPublished
<1>18. ProgressSound'
  BY <1>3, <1>11 DEF ServiceInv, ProgressSound, Progressed, Deleted
<1> QED
  BY <1>12, <1>15, <1>17, <1>18 DEF Service

\* An empty tenant satisfies it.
LEMMA ServiceInit == Init => ServiceInv
<1> SUFFICES ASSUME Init PROVE ServiceInv
  OBVIOUS
<1>1. LeaseSound /\ ProgressSound
  BY DEF Init, LeaseSound, Held, Apart, Busy, ProgressSound, Progressed, Running, Idle
<1>2. StatusSound /\ ManifestsPublished
  BY DEF Init, StatusSound, Paired, Pending, ManifestsPublished, NoGeneration
<1> QED
  BY <1>1, <1>2, InvInit DEF ServiceInv

\* Every step of the pipeline keeps it.
LEMMA ServiceStep ==
    ASSUME Races = {}, ServiceInv, [Next]_vars
    PROVE  ServiceInv'
<1>1. ASSUME NEW v \in Versions, Request(v) \/ LeaseExpires(v) PROVE Service'
  BY <1>1, RequestService
<1>2. ASSUME NEW d \in Docs, Tombstone(d) PROVE Service'
  BY <1>2, TombstoneService
<1>3. ASSUME NEW w \in Workers, Process(w) PROVE Service'
  <2>1. ~ReadBeforeFail(w)
    BY DEF ReadBeforeFail
  <2> QED
    BY <1>3, <2>1, TakeJobService, StartService, PersistService, ContentService,
       MarkReadyService, ActivateService, MarkFailedService DEF Process
<1>4. ASSUME NEW w \in Workers,
             \/ \E v \in Versions : Deliver(w, v) \/ NextListed(w, v)
             \/ ListJobs(w) \/ StepFails(w) \/ Heartbeat(w) \/ Crash(w)
      PROVE  Service'
  BY <1>4, TakeJobService, ContentService
<1>5. ASSUME UNCHANGED vars PROVE Service'
  <2>1. UNCHANGED <<document, version, job, generation, chunks, points, files, worker>>
    BY <1>5 DEF vars, catalogue, payload
  <2> QED
    BY <2>1 DEF ServiceInv, Service, LeaseSound, Held, Apart, Busy, Deleted, StatusSound,
                Paired, ProgressSound, Progressed, ManifestsPublished
<1>6. Service'
  BY <1>1, <1>2, <1>3, <1>4, <1>5 DEF Next
<1> QED
  BY <1>6, NoRaces, InvStep DEF ServiceInv, Service

-------------------------------------------------------------------------------
(* Published content *)

\* The pipeline takes nothing from a version that was published.
LEMMA PublishedKept ==
    ASSUME Races = {}, ServiceInv, [Next]_vars, NEW v \in Versions, job[v].status = "succeeded"
    PROVE  /\ points'[v] = points[v]
           /\ v \in chunks => v \in chunks'
           /\ v \in files => v \in files'
<1>1. ASSUME NEW u \in Versions, Request(u) \/ LeaseExpires(u)
      PROVE  points' = points /\ chunks' = chunks /\ files \subseteq files'
  BY <1>1 DEF Request, Upload, Reindex, Stage, Enqueue, RecordQueued, RequestGivesUp,
              LeaseExpires, payload
<1>2. ASSUME NEW d \in Docs, Tombstone(d) PROVE UNCHANGED payload
  BY <1>2 DEF Tombstone
<1>3. ASSUME NEW w \in Workers,
             \/ \E u \in Versions : Deliver(w, u) \/ NextListed(w, u)
             \/ ListJobs(w) \/ StepFails(w) \/ Heartbeat(w) \/ Crash(w)
      PROVE  UNCHANGED payload
  BY <1>3 DEF Deliver, NextListed, ListJobs, StepFails, Heartbeat, Crash
<1>4. ASSUME NEW w \in Workers, Process(w)
      PROVE  points'[v] = points[v] /\ chunks \subseteq chunks' /\ files = files'
  <2>1. CASE ClearPoints(w) \/ Upsert(w)
    <3>1. Busy(w) /\ Held(w) /\ points \in [Versions -> SUBSET Batches]
      BY <2>1, Rows DEF ServiceInv, LeaseSound, ClearPoints, Upsert, Busy, Running
    <3>2. worker[w].job # v
      BY <3>1 DEF Held
    <3> QED
      BY <2>1, <3>1, <3>2 DEF ClearPoints, Upsert
  <2>2. CASE Persist(w)
    BY <2>2 DEF Persist
  <2>3. CASE ~ClearPoints(w) /\ ~Upsert(w) /\ ~Persist(w)
    <3>1. UNCHANGED payload
      BY <1>4, <2>3 DEF Process, StartDeclined, Start, Validate, ValidateFails, MarkReady,
                        ActivateDone, ActivateRefused, Activate, FailureIgnored,
                        ReadBeforeFail, MarkFailed
    <3> QED
      BY <3>1 DEF payload
  <2> QED
    BY <2>1, <2>2, <2>3
<1>5. UNCHANGED vars => UNCHANGED payload
  BY DEF vars
<1>6. UNCHANGED payload => points' = points /\ chunks' = chunks /\ files' = files
  BY DEF payload
<1> QED
  BY <1>1, <1>2, <1>3, <1>4, <1>5, <1>6 DEF Next

\* Whatever an activation publishes is complete.
LEMMA ActivatedWhole ==
    ASSUME ServiceInv, NEW w \in Workers, NEW v \in Versions, Activate(w), worker[w].job = v
    PROVE  Intact(v)'
<1>1. /\ Progressed(w) /\ worker[w].pc = "activate"
      /\ ~Deleted(v) /\ UNCHANGED <<points, chunks, files>>
  BY DEF ServiceInv, ProgressSound, Activate, Refused, Deleted, payload
<1>2. points[v] = Batches /\ v \in chunks /\ v \in files
  BY <1>1 DEF Progressed, Running
<1> QED
  BY <1>1, <1>2 DEF Intact

\* Nothing but an activation finishes a job with success.
LEMMA OnlyActivationSucceeds ==
    ASSUME Races = {}, ServiceInv, [Next]_vars, NEW v \in Versions,
           job'[v].status = "succeeded", job[v].status # "succeeded"
    PROVE  \E w \in Workers : Activate(w) /\ worker[w].job = v
<1>1. job \in [Versions -> JobRow] /\ IngestionInv
  BY Rows DEF ServiceInv
<1>2. ASSUME NEW u \in Versions, Request(u) \/ LeaseExpires(u) PROVE FALSE
  BY <1>1, <1>2 DEF Request, Upload, Reindex, Stage, Enqueue, RecordQueued, RequestGivesUp,
                    LeaseExpires, JobRow
<1>3. ASSUME NEW d \in Docs, Tombstone(d) PROVE FALSE
  <2>1. job'[v] = job[v] \/ job'[v] = [job[v] EXCEPT !.status = "failed"]
    BY <1>3 DEF Tombstone
  <2> QED
    BY <1>1, <2>1 DEF JobRow
<1>4. ASSUME NEW w \in Workers,
             \/ \E u \in Versions : Deliver(w, u) \/ NextListed(w, u)
             \/ ListJobs(w) \/ StepFails(w) \/ Crash(w)
      PROVE  FALSE
  BY <1>4 DEF Deliver, NextListed, ListJobs, StepFails, Crash
<1>5. ASSUME NEW w \in Workers, Heartbeat(w) PROVE FALSE
  BY <1>1, <1>5 DEF Heartbeat, Beat, JobRow
<1>6. ASSUME NEW w \in Workers, Process(w) PROVE Activate(w) /\ worker[w].job = v
  <2>1. CASE Activate(w)
    <3>1. job' = [job EXCEPT ![worker[w].job] = [status |-> "succeeded", fresh |-> TRUE]]
      BY <2>1 DEF Activate
    <3> QED
      BY <1>1, <2>1, <3>1
  <2>2. CASE Start(w)
    <3>1. PICK seen : job' = [job EXCEPT
              ![worker[w].job] = [status |-> IF seen.job = "processing" THEN @.status
                                             ELSE "processing",
                                  fresh |-> TRUE]]
      BY <2>2 DEF Start
    <3> QED
      BY <1>1, <3>1
  <2>3. CASE MarkFailed(w)
    <3>1. PICK seen : job' = [job EXCEPT
              ![worker[w].job] = [status |-> IF seen = "failed" THEN @.status ELSE "failed",
                                  fresh |-> TRUE]]
      BY <2>3 DEF MarkFailed
    <3> QED
      BY <1>1, <3>1
  <2>4. CASE Persist(w) \/ MarkReady(w) \/ Upsert(w)
    BY <1>1, <2>4 DEF Persist, MarkReady, Upsert, Beat, JobRow
  <2>5. CASE ~Activate(w) /\ ~Start(w) /\ ~MarkFailed(w) /\ ~Persist(w) /\ ~MarkReady(w)
             /\ ~Upsert(w)
    BY <1>6, <2>5 DEF Process, StartDeclined, ClearPoints, Validate, ValidateFails,
                      ActivateDone, ActivateRefused, FailureIgnored, ReadBeforeFail
  <2> QED
    BY <2>1, <2>2, <2>3, <2>4, <2>5
<1>7. UNCHANGED vars => job' = job
  BY DEF vars
<1> QED
  BY <1>2, <1>3, <1>4, <1>5, <1>6, <1>7 DEF Next

\* What is published is complete, and stays so.
LEMMA IntactStep ==
    ASSUME Races = {}, ServiceInv, PublishedIntact, [Next]_vars
    PROVE  PublishedIntact'
<1> SUFFICES ASSUME NEW v \in Versions, job'[v].status = "succeeded" PROVE Intact(v)'
  BY DEF PublishedIntact
<1>1. CASE job[v].status = "succeeded"
  BY <1>1, PublishedKept DEF PublishedIntact, Intact
<1>2. CASE job[v].status # "succeeded"
  <2>1. PICK w \in Workers : Activate(w) /\ worker[w].job = v
    BY <1>2, OnlyActivationSucceeds
  <2> QED
    BY <2>1, ActivatedWhole
<1> QED
  BY <1>1, <1>2

\* The versions in the active manifest are the active versions of their documents.
LEMMA VisibleActive ==
    ASSUME ServiceInv, NEW v \in Visible
    PROVE  v \in Versions /\ version[v].status = "active"
<1>1. v \in Versions /\ DocOf[v] \in Docs
  BY VisiblePublished, Rows DEF ServiceInv
<1>2. v = document[DocOf[v]].active /\ v # NoVersion
  BY <1>1, Constant DEF ServiceInv, IngestionInv, ManifestMatchesPointers
<1> QED
  BY <1>1, <1>2 DEF ServiceInv, StatusSound

\* The lease of _start, the two transactions that fail or finish a job, and the status of
\* versions agree, whatever requests, deletions, crashes and expired leases come between.
THEOREM ServiceHolds ==
    ASSUME Races = {}
    PROVE  Spec => [](ServiceInv /\ PublishedIntact)
<1>1. Init => ServiceInv /\ PublishedIntact
  BY ServiceInit DEF Init, PublishedIntact
<1>2. ServiceInv /\ PublishedIntact /\ [Next]_vars => (ServiceInv /\ PublishedIntact)'
  BY ServiceStep, IntactStep
<1> QED
  BY <1>1, <1>2, PTL DEF Spec

\* _start hands a job to one coroutine at a time, until a deletion fails it under way.
THEOREM LeaseHolds ==
    ASSUME Races = {}
    PROVE  Spec => []OneWorkerPerJob
<1>1. ServiceInv => OneWorkerPerJob
  BY DEF ServiceInv, LeaseSound, Apart, Busy, Deleted, OneWorkerPerJob
<1> QED
  BY <1>1, ServiceHolds, PTL

\* reconcile_ingestion_jobs finds every accepted version that is neither published nor
\* given up: the status of its job never says that somebody else has finished it.
THEOREM NothingIsLost ==
    ASSUME Races = {}
    PROVE  Spec => []PendingIsRecoverable
<1>1. ServiceInv => PendingIsRecoverable
  BY DEF ServiceInv, StatusSound, Paired, Deleted, PendingIsRecoverable
<1> QED
  BY <1>1, ServiceHolds, PTL

\* _activate publishes complete versions only, and no retry, late worker or deletion takes
\* points, rows or the file of what retrieval may read.
THEOREM SearchableIsComplete ==
    ASSUME Races = {}
    PROVE  Spec => []VisibleIsServable
<1>1. ServiceInv /\ PublishedIntact => VisibleIsServable
  BY VisiblePublished, VisibleActive DEF PublishedIntact, Intact, VisibleIsServable
<1> QED
  BY <1>1, ServiceHolds, PTL

\* docs/p4-ingestion.md:86, of retries, is true as long as heartbeats are on time: run
\* late_retry shows the step that breaks it when they are not.
THEOREM SearchablePointsStay ==
    ASSUME Races = {}
    PROVE  Spec => VisiblePointsKept
<1>1. ServiceInv /\ [Next]_vars => [\A v \in Visible : points[v] \subseteq points'[v]]_vars
  BY VisiblePublished, PublishedKept
<1> QED
  BY <1>1, ServiceHolds, PTL DEF Spec, VisiblePointsKept

-------------------------------------------------------------------------------
(* The inductive invariant of garbage collection *)

Dead == {"failed", "superseded"}

\* Revisions number the activated generations in the order of their activation.
RevisionsOrdered ==
    /\ \A g \in Gens : generation[g].status = "active" =>
          generation[g].revision \in Nat /\ generation[g].revision <= revision
    /\ activeGen # NoGen => generation[activeGen].revision = revision

\* What is being collected, or was, is dead, and nobody will work on it again.
SweptIdle ==
    /\ collected \subseteq Versions
    /\ sweep \in [pc : {"idle", "points", "files"},
                  victims : SUBSET Versions, left : SUBSET Versions]
    /\ sweep.left \subseteq sweep.victims
    /\ \A v \in sweep.victims \cup collected : version[v].status \in Dead /\ ~HasWork(v)
    /\ (collected \cup (sweep.victims \ sweep.left)) \cap files = {}

\* No retained manifest lists a victim.
VictimsForgotten ==
    \A g \in RetainedGens : generation[g].manifest \cap sweep.victims = {}

GarbageSound ==
    /\ ServiceInv
    /\ RevisionsOrdered
    /\ SweptIdle
    /\ VictimsForgotten
    /\ RetainedIsServable

-------------------------------------------------------------------------------
(* The pipeline under a running collection *)

\* An activated generation keeps its row, and a row that was not activated is not by now.
RowKept(g) ==
    generation[g].status = "active" \/ generation'[g].status = "active" =>
        generation'[g] = generation[g]

\* A step that activates no generation.
NoGenActivated ==
    /\ \A g \in Gens : RowKept(g)
    /\ UNCHANGED <<activeGen, revision>>

\* A step that activates generation n: it takes over what was searchable, and at most one
\* version more, which is published by this step.
GenActivated(n) ==
    /\ n \in Gens
    /\ generation[n].status # "active"
    /\ \A g \in Gens \ {n} : RowKept(g)
    /\ activeGen' = n
    /\ revision' = revision + 1
    /\ generation'[n].status = "active"
    /\ generation'[n].revision = revision + 1
    /\ \A u \in generation'[n].manifest :
          u \in Visible \/ \E w \in Workers : Activate(w) /\ worker[w].job = u

\* One transaction activates at most one generation, and no other row changes with it.
LEMMA GenerationMoves ==
    ASSUME ServiceInv, [Next]_vars
    PROVE  NoGenActivated \/ \E n : GenActivated(n)
<1>1. /\ IngestionInv /\ generation \in [Gens -> GenerationRow]
      /\ worker \in [Workers -> WorkerState]
  BY Rows DEF ServiceInv
<1>2. UNCHANGED <<generation, activeGen, revision>> => NoGenActivated
  BY DEF NoGenActivated, RowKept
<1>3. ASSUME NEW v \in Versions, Request(v) \/ LeaseExpires(v) PROVE NoGenActivated
  BY <1>2, <1>3 DEF Request, Upload, Reindex, Stage, Enqueue, RecordQueued, RequestGivesUp,
                    LeaseExpires, catalogue
<1>4. ASSUME NEW w \in Workers,
             \/ \E v \in Versions : Deliver(w, v) \/ NextListed(w, v)
             \/ ListJobs(w) \/ StepFails(w) \/ Heartbeat(w) \/ Crash(w)
      PROVE  NoGenActivated
  BY <1>2, <1>4 DEF Deliver, NextListed, ListJobs, StepFails, Heartbeat, Crash, catalogue
<1>5. ASSUME NEW d \in Docs, Tombstone(d) PROVE \E n : GenActivated(n)
  <2>1. PICK n \in Gens, doomed \in SUBSET Versions :
          /\ generation[n].status = "none"
          /\ generation' =
                [h \in Gens |->
                    IF h = n
                    THEN [status |-> "active", parent |-> activeGen,
                          revision |-> revision + 1, changed |-> NoVersion,
                          manifest |-> CopyManifest(activeGen, d)]
                    ELSE IF generation[h].changed \in doomed /\ generation[h].status = "preparing"
                    THEN [generation[h] EXCEPT !.status = "failed"]
                    ELSE generation[h]]
          /\ activeGen' = n
          /\ revision' = revision + 1
    <3>1. PICK doomed \in SUBSET Versions :
            doomed = {v \in Existing(d) : version[v].status \in Pending}
      BY DEF Existing
    <3> QED
      BY <1>5, <3>1 DEF Tombstone, IsNewGen
  <2>2. ASSUME NEW g \in Gens \ {n} PROVE RowKept(g)
    <3>1. \/ generation'[g] = generation[g]
          \/ /\ generation[g].status = "preparing"
             /\ generation'[g] = [generation[g] EXCEPT !.status = "failed"]
      BY <2>1
    <3> QED
      BY <1>1, <3>1 DEF RowKept, GenerationRow
  <2>3. generation'[n].manifest \subseteq Visible
    BY <2>1 DEF CopyManifest, Visible
  <2> QED
    BY <2>1, <2>2, <2>3 DEF GenActivated
<1>6. ASSUME NEW w \in Workers, Process(w)
      PROVE  NoGenActivated \/ \E n : GenActivated(n)
  <2>1. CASE Activate(w)
    <3>1. PICK n \in Gens, v \in Versions :
            /\ v = worker[w].job /\ n = worker[w].gen /\ generation[n].status # "active"
            /\ \A h \in Gens \ {n} : generation'[h] = generation[h]
            /\ generation'[n].status = "active"
            /\ generation'[n].manifest = {u \in Visible : DocOf[u] # DocOf[v]} \cup {v}
      BY <1>1, <2>1, Activation
    <3>2. PICK m : generation' = [generation EXCEPT
              ![n].status = "active", ![n].parent = activeGen, ![n].revision = revision + 1,
              ![n].manifest = m]
      BY <2>1, <3>1 DEF Activate
    <3>3. generation'[n].revision = revision + 1 /\ activeGen' = n /\ revision' = revision + 1
      BY <1>1, <2>1, <3>1, <3>2 DEF Activate, GenerationRow
    <3> QED
      BY <2>1, <3>1, <3>3 DEF GenActivated, RowKept
  <2>2. CASE Persist(w)
    <3>1. PICK g \in Gens :
            /\ generation[g].status # "active" /\ generation'[g].status # "active"
            /\ \A h \in Gens \ {g} : generation'[h] = generation[h]
      BY <1>1, <2>2 DEF Persist, IsNewGen
    <3> QED
      BY <2>2, <3>1 DEF NoGenActivated, RowKept, Persist
  <2>3. CASE MarkFailed(w)
    <3>1. /\ UNCHANGED <<activeGen, revision>>
          /\ \/ generation' = generation
             \/ \E g : /\ generation[g].status = "preparing"
                       /\ generation' = [generation EXCEPT ![g].status = "failed"]
      BY <2>3 DEF MarkFailed
    <3>2. ASSUME NEW g, NEW h \in Gens, generation[g].status = "preparing",
                 generation' = [generation EXCEPT ![g].status = "failed"]
          PROVE  RowKept(h)
      <4>1. generation[h] \in GenerationRow
        BY <1>1
      <4>2. h = g => generation'[h] = [generation[h] EXCEPT !.status = "failed"]
        BY <1>1, <3>2
      <4>3. h # g => generation'[h] = generation[h]
        BY <1>1, <3>2
      <4>4. CASE h = g
        <5>1. generation'[h].status = "failed"
          BY <4>1, <4>2, <4>4 DEF GenerationRow
        <5> QED
          BY <3>2, <4>4, <5>1 DEF RowKept
      <4> QED
        BY <4>3, <4>4 DEF RowKept
    <3> QED
      BY <1>2, <3>1, <3>2 DEF NoGenActivated
  <2>4. CASE ~Activate(w) /\ ~Persist(w) /\ ~MarkFailed(w)
    BY <1>2, <1>6, <2>4 DEF Process, StartDeclined, Start, ClearPoints, Upsert, Validate,
              ValidateFails, MarkReady, ActivateDone, ActivateRefused, FailureIgnored,
              ReadBeforeFail, catalogue
  <2> QED
    BY <2>1, <2>2, <2>3, <2>4
<1>7. UNCHANGED vars => NoGenActivated
  BY <1>2 DEF vars, catalogue
<1> QED
  BY <1>3, <1>4, <1>5, <1>6, <1>7 DEF Next

\* Activations, and only they, raise the revision.
LEMMA RevisionsStep ==
    ASSUME ServiceInv, RevisionsOrdered, [Next]_vars
    PROVE  RevisionsOrdered'
<1>1. revision \in Nat /\ activeGen \in Gens \cup {NoGen}
  BY DEF ServiceInv, IngestionInv, TypeOK
<1>2. activeGen # NoGen => generation[activeGen].status = "active"
  BY DEF ServiceInv, IngestionInv, GenerationsLinked
<1>3. CASE NoGenActivated
  BY <1>1, <1>2, <1>3 DEF NoGenActivated, RowKept, RevisionsOrdered
<1>4. ASSUME NEW n, GenActivated(n) PROVE RevisionsOrdered'
  <2>1. ASSUME NEW g \in Gens, generation'[g].status = "active"
        PROVE  generation'[g].revision \in Nat /\ generation'[g].revision <= revision'
    <3>1. CASE g = n
      BY <1>1, <1>4, <3>1 DEF GenActivated
    <3>2. CASE g # n
      <4>1. generation'[g] = generation[g]
        BY <1>4, <2>1, <3>2 DEF GenActivated, RowKept
      <4>2. generation[g].revision \in Nat /\ generation[g].revision <= revision
        BY <2>1, <4>1 DEF RevisionsOrdered
      <4> QED
        BY <1>1, <1>4, <4>1, <4>2 DEF GenActivated
    <3> QED
      BY <3>1, <3>2
  <2> QED
    BY <1>4, <2>1 DEF GenActivated, RevisionsOrdered
<1> QED
  BY <1>3, <1>4, GenerationMoves

\* The activated generations that are newer than g.
Newer(g) == {h \in Gens : /\ generation[h].status = "active"
                          /\ generation[h].revision > generation[g].revision}

\* MaxGens bounds the sets of generations that are counted.
LEMMA GensFinite == \A S \in SUBSET Gens : IsFiniteSet(S)
<1>1. MaxGens \in Int /\ 1 \in Int
  BY ConstantsAssumption DEF ConstantsAssumption
<1>2. IsFiniteSet(Gens)
  BY <1>1, FS_Interval DEF Gens
<1> QED
  BY <1>2, FS_Subset

\* The active generation is retained.
LEMMA ActiveRetained ==
    ASSUME ServiceInv, RevisionsOrdered, activeGen # NoGen
    PROVE  activeGen \in RetainedGens
<1>1. activeGen \in Gens /\ generation[activeGen].status = "active"
  BY Rows DEF ServiceInv, IngestionInv, GenerationsLinked
<1>2. Newer(activeGen) = {}
  <2>1. ASSUME NEW h \in Gens, generation[h].status = "active",
               generation[h].revision > generation[activeGen].revision
        PROVE  FALSE
    <3>1. /\ revision \in Nat /\ generation[h].revision \in Nat
          /\ generation[h].revision <= revision /\ generation[activeGen].revision = revision
      BY <2>1 DEF RevisionsOrdered, ServiceInv, IngestionInv, TypeOK
    <3> QED
      BY <2>1, <3>1
  <2> QED
    BY <2>1 DEF Newer
<1>3. Cardinality(Newer(activeGen)) = 0 /\ 0 < Retained
  BY <1>2, FS_EmptySet, GarbageAssumption DEF GarbageAssumption
<1> QED
  BY <1>1, <1>3 DEF RetainedGens, Newer

\* A generation that falls out of the retained ones does not come back.
LEMMA RetainedStep ==
    ASSUME ServiceInv, [Next]_vars, NEW g \in RetainedGens'
    PROVE  \/ g \in RetainedGens /\ generation'[g] = generation[g]
           \/ GenActivated(g)
<1>1. PICK h : h = g /\ h \in Gens /\ generation'[h].status = "active"
               /\ Cardinality(Newer(h)') < Retained
  BY DEF RetainedGens, Newer
<1>2. \A k \in Gens : generation[k].status = "active" => generation'[k] = generation[k]
  BY GenerationMoves DEF NoGenActivated, GenActivated, RowKept
<1>3. generation'[h] = generation[h] \/ GenActivated(h)
  BY <1>1, GenerationMoves DEF NoGenActivated, GenActivated, RowKept
<1>4. CASE generation'[h] = generation[h]
  <2>1. Newer(h) \subseteq Newer(h)'
    BY <1>2, <1>4 DEF Newer
  <2>2. IsFiniteSet(Newer(h)')
    BY GensFinite DEF Newer
  <2>3. PICK S, T : S = Newer(h) /\ T = Newer(h)'
    OBVIOUS
  <2>4. Cardinality(S) <= Cardinality(T) /\ Cardinality(S) \in Nat /\ Cardinality(T) \in Nat
    BY <2>1, <2>2, <2>3, FS_Subset, FS_CardinalityType
  <2>5. Cardinality(S) < Retained
    BY <1>1, <2>3, <2>4, GarbageAssumption DEF GarbageAssumption
  <2> QED
    BY <1>1, <1>4, <2>3, <2>5 DEF RetainedGens, Newer
<1> QED
  BY <1>1, <1>3, <1>4

\* A dead version that nobody has work for stays dead, and nobody gets work for it.
LEMMA DeadStays ==
    ASSUME Races = {}, ServiceInv, [Next]_vars, NEW v \in Versions,
           version[v].status \in Dead, ~HasWork(v)
    PROVE  version'[v].status \in Dead /\ ~HasWork(v)' /\ (v \in files' => v \in files)
<1>1. /\ IngestionInv /\ Paired(v) /\ v \notin queue /\ api[v] \notin {"accepted", "enqueued"}
      /\ \A w \in Workers : worker[w].job # v /\ v \notin todo[w]
      /\ worker \in [Workers -> WorkerState] /\ version \in [Versions -> VersionRow]
      /\ api \in [Versions -> {"none", "accepted", "enqueued", "done"}]
      /\ todo \in [Workers -> SUBSET Versions] /\ v # NoVersion
  BY Rows, Constant DEF ServiceInv, StatusSound, HasWork, IngestionInv, TypeOK
<1>2. v \notin Reconcilable
  BY <1>1 DEF Reconcilable, Paired, Dead
<1> DEFINE Calm == /\ version'[v].status \in Dead /\ (v \in files' => v \in files)
                   /\ v \notin queue' /\ api'[v] \notin {"accepted", "enqueued"}
                   /\ \A w \in Workers : worker'[w].job # v /\ v \notin todo'[w]
<1>3. ASSUME NEW u \in Versions, Request(u) \/ LeaseExpires(u) PROVE Calm
  <2>1. CASE Upload(u) \/ Reindex(u)
    <3>1. Stage(u) /\ version[u].status = "none"
      BY <2>1 DEF Upload, Reindex, IsNextVersion
    <3>2. u # v
      BY <3>1 DEF Dead
    <3> QED
      BY <1>1, <3>1, <3>2 DEF Stage
  <2>2. CASE ~Upload(u) /\ ~Reindex(u)
    BY <1>1, <1>3, <2>2
    DEF Request, Enqueue, RecordQueued, RequestGivesUp, LeaseExpires, payload, transport
  <2> QED
    BY <2>1, <2>2
<1>4. ASSUME NEW d \in Docs, Tombstone(d) PROVE Calm
  <2>1. UNCHANGED <<files, queue, api, worker, todo>>
    BY <1>4 DEF Tombstone, payload, transport
  <2>2. \/ version'[v] = version[v]
        \/ version'[v] = [version[v] EXCEPT !.status = "failed"]
        \/ version'[v] = [version[v] EXCEPT !.status = "superseded"]
    BY <1>4 DEF Tombstone
  <2>3. version'[v].status \in Dead
    BY <1>1, <2>2 DEF Dead, VersionRow
  <2> QED
    BY <1>1, <2>1, <2>3
<1>5. ASSUME NEW w \in Workers, NEW u \in Versions, Deliver(w, u) \/ NextListed(w, u)
      PROVE  Calm
  <2>1. PICK arq \in BOOLEAN : worker' = [worker EXCEPT ![w] = Claimed(w, u, arq)]
    BY <1>5 DEF Deliver, NextListed
  <2>2. u # v /\ Claimed(w, u, arq).job = u
    BY <1>1, <1>5 DEF Deliver, NextListed, Claimed, Idle
  <2>3. /\ UNCHANGED <<version, files, queue, api>>
        /\ \A x \in Workers : todo'[x] \subseteq todo[x]
    BY <1>1, <1>5 DEF Deliver, NextListed, payload, transport
  <2> QED
    BY <1>1, <2>1, <2>2, <2>3
<1>6. ASSUME NEW w \in Workers, ListJobs(w) PROVE Calm
  BY <1>1, <1>2, <1>6 DEF ListJobs, payload, transport
<1>7. ASSUME NEW w \in Workers, StepFails(w) \/ Heartbeat(w) \/ Crash(w) PROVE Calm
  <2>1. /\ UNCHANGED <<version, files, queue, api>>
        /\ \A x \in Workers : todo'[x] \subseteq todo[x]
    BY <1>1, <1>7 DEF StepFails, Heartbeat, Crash, payload, transport
  <2>2. \/ worker' = worker
        \/ worker' = [worker EXCEPT ![w].pc = "failing", ![w].seen = NotSeen]
        \/ worker' = [worker EXCEPT ![w] = Idle]
    BY <1>7 DEF StepFails, Heartbeat, Crash
  <2>3. \A x \in Workers : worker'[x].job \in {worker[x].job, NoVersion}
    BY <1>1, <2>2 DEF WorkerState, Idle
  <2> QED
    BY <1>1, <2>1, <2>3
<1>8. ASSUME NEW w \in Workers, Process(w) PROVE Calm
  <2>1. worker[w].job # v
    BY <1>1
  <2>2. UNCHANGED <<todo, files, api>> /\ queue' \subseteq queue
    BY <1>8 DEF Process, StartDeclined, Start, Persist, ClearPoints, Upsert, Validate,
                ValidateFails, MarkReady, ActivateDone, ActivateRefused, Activate,
                FailureIgnored, ReadBeforeFail, MarkFailed, Finish, payload, transport
  <2>3. \A x \in Workers : worker'[x].job \in {worker[x].job, NoVersion}
    <3>1. CASE StartDeclined(w) \/ ActivateDone(w) \/ Activate(w) \/ FailureIgnored(w)
               \/ MarkFailed(w)
      <4>1. worker' = [worker EXCEPT ![w] = Idle]
        BY <3>1 DEF StartDeclined, ActivateDone, Activate, FailureIgnored, MarkFailed, Finish
      <4> QED
        BY <1>1, <4>1 DEF Idle
    <3>2. CASE Start(w) \/ Persist(w) \/ Upsert(w)
      <4>1. CASE Start(w)
        BY <1>1, <4>1 DEF Start, WorkerState
      <4>2. CASE Persist(w)
        <5>1. PICK g \in Gens : worker' = [worker EXCEPT ![w].pc = "clear", ![w].gen = g]
          BY <4>2 DEF Persist
        <5> QED
          BY <1>1, <5>1 DEF WorkerState
      <4>3. CASE Upsert(w)
        <5>1. PICK n, pc : worker' = [worker EXCEPT ![w].sent = n, ![w].pc = pc]
          BY <4>3 DEF Upsert
        <5> QED
          BY <1>1, <5>1 DEF WorkerState
      <4> QED
        BY <3>2, <4>1, <4>2, <4>3
    <3>3. CASE ClearPoints(w) \/ Validate(w) \/ ValidateFails(w) \/ MarkReady(w)
               \/ ActivateRefused(w)
      BY <1>1, <3>3
      DEF ClearPoints, Validate, ValidateFails, MarkReady, ActivateRefused, Goto, WorkerState
    <3>4. ~ReadBeforeFail(w)
      BY DEF ReadBeforeFail
    <3> QED
      BY <1>8, <3>1, <3>2, <3>3, <3>4 DEF Process
  <2>4. version'[v].status \in Dead
    <3>1. CASE Activate(w)
      <4>1. \/ version'[v] = version[v]
            \/ version'[v] = [version[v] EXCEPT !.status = "superseded"]
        BY <2>1, <3>1 DEF Activate
      <4> QED
        BY <1>1, <4>1 DEF Dead, VersionRow
    <3>2. CASE ~Activate(w)
      <4>1. version'[v] = version[v]
        BY <1>1, <1>8, <2>1, <3>2
        DEF Process, StartDeclined, Start, Persist, ClearPoints, Upsert, Validate,
            ValidateFails, MarkReady, ActivateDone, ActivateRefused,
            FailureIgnored, ReadBeforeFail, MarkFailed
      <4> QED
        BY <4>1
    <3> QED
      BY <3>1, <3>2
  <2> QED
    BY <1>1, <2>2, <2>3, <2>4
<1>9. ASSUME UNCHANGED vars PROVE Calm
  BY <1>1, <1>9 DEF vars, payload, transport
<1>10. Calm
  <2> HIDE DEF Calm
  <2> QED
    BY <1>3, <1>4, <1>5, <1>6, <1>7, <1>8, <1>9 DEF Next
<1> QED
  BY <1>10 DEF HasWork

\* The pipeline keeps what garbage collection relies on while it runs: the victims stay
\* dead and idle, and no manifest retained by now lists them.
LEMMA PipelineSound ==
    ASSUME Races = {}, GarbageSound, [Next]_vars, UNCHANGED gcVars
    PROVE  GarbageSound'
<1>1. /\ ServiceInv /\ RevisionsOrdered /\ SweptIdle /\ VictimsForgotten /\ RetainedIsServable
      /\ UNCHANGED <<collected, sweep>>
  BY DEF GarbageSound, gcVars
<1>2. ServiceInv' /\ RevisionsOrdered'
  BY <1>1, ServiceStep, RevisionsStep
<1>3. SweptIdle'
  <2>1. ASSUME NEW v \in sweep.victims \cup collected
        PROVE  /\ version'[v].status \in Dead /\ ~HasWork(v)'
               /\ v \in files' => v \in files
    BY <1>1, DeadStays DEF SweptIdle
  <2> QED
    BY <1>1, <2>1 DEF SweptIdle
<1>4. Visible \cap sweep.victims = {} /\ \A u \in Visible : Intact(u)
  <2>1. CASE activeGen = NoGen
    BY <2>1 DEF Visible
  <2>2. CASE activeGen # NoGen
    BY <1>1, <2>2, ActiveRetained DEF Visible, VictimsForgotten, RetainedIsServable, Intact
  <2> QED
    BY <2>1, <2>2
<1>5. ASSUME NEW g \in RetainedGens', NEW u \in generation'[g].manifest
      PROVE  u \notin sweep.victims /\ Intact(u)'
  <2>1. CASE g \in RetainedGens /\ generation'[g] = generation[g]
    <3>1. g \in Gens /\ generation[g].status = "active" /\ generation[g] \in GenerationRow
      BY <1>1, <2>1, Rows DEF RetainedGens, ServiceInv
    <3>2. u \in Versions /\ job[u].status = "succeeded"
      BY <1>1, <1>5, <2>1, <3>1 DEF ServiceInv, ManifestsPublished, GenerationRow
    <3> QED
      BY <1>1, <1>5, <2>1, <3>2, PublishedKept DEF VictimsForgotten, RetainedIsServable, Intact
  <2>2. CASE GenActivated(g)
    <3>1. CASE u \in Visible
      BY <1>1, <1>4, <3>1, VisiblePublished, PublishedKept DEF Intact
    <3>2. ASSUME NEW w \in Workers, Activate(w), worker[w].job = u
          PROVE  u \notin sweep.victims /\ Intact(u)'
      <4>1. Busy(w) /\ u \in Versions
        BY <1>1, <3>2, Rows DEF ServiceInv, Activate, Busy, Running
      <4>2. HasWork(u)
        BY <3>2 DEF HasWork
      <4> QED
        BY <1>1, <3>2, <4>1, <4>2, ActivatedWhole DEF SweptIdle
    <3> QED
      BY <1>5, <2>2, <3>1, <3>2 DEF GenActivated
  <2> QED
    BY <1>1, <1>5, <2>1, <2>2, RetainedStep
<1>6. VictimsForgotten' /\ RetainedIsServable'
  BY <1>1, <1>5 DEF VictimsForgotten, RetainedIsServable, Intact
<1> QED
  BY <1>2, <1>3, <1>6 DEF GarbageSound

-------------------------------------------------------------------------------
(* The steps of a collection *)

\* A collection step takes stored content of its victims only.
LEMMA SweepService ==
    ASSUME ServiceInv, SweptIdle,
           UNCHANGED <<catalogue, version, job, transport, worker, todo, crashes>>,
           points' \in [Versions -> SUBSET Batches],
           chunks' \subseteq Versions, files' \subseteq Versions,
           \A v \in Versions \ sweep.victims :
               /\ points'[v] = points[v]
               /\ v \in chunks => v \in chunks'
               /\ v \in files => v \in files'
    PROVE  ServiceInv'
<1>1. IngestionInv /\ LeaseSound /\ StatusSound /\ ProgressSound /\ ManifestsPublished
  BY DEF ServiceInv
<1>2. UNCHANGED <<activeGen, revision, document, generation, api, queue>>
  BY DEF catalogue, transport
<1>3. IngestionInv'
  <2>1. TypeOK'
    BY <1>1, <1>2 DEF IngestionInv, TypeOK
  <2>2. WorkersOwnGeneration' /\ WorkersBusy'
    BY <1>1, <1>2 DEF IngestionInv, WorkersOwnGeneration, WorkersBusy
  <2> QED
    BY <1>1, <2>1, <2>2, IdleStepInv DEF IngestionInv
<1>4. LeaseSound' /\ StatusSound' /\ ManifestsPublished'
  BY <1>1, <1>2 DEF LeaseSound, Held, Apart, Busy, Deleted, StatusSound, Paired,
                    ManifestsPublished
<1>5. ASSUME NEW x \in Workers PROVE Progressed(x)'
  <2>1. CASE worker[x].pc \in Running
    <3>1. PICK v \in Versions : v = worker[x].job
      BY <1>1, <2>1, Rows DEF Busy
    <3>2. v \notin sweep.victims
      BY <3>1 DEF SweptIdle, HasWork
    <3> QED
      BY <1>1, <1>2, <3>1, <3>2 DEF ProgressSound, Progressed, Deleted
  <2>2. CASE worker[x].pc \notin Running
    BY <2>2 DEF Progressed
  <2> QED
    BY <2>1, <2>2
<1> QED
  BY <1>3, <1>4, <1>5 DEF ServiceInv, ProgressSound

\* A collection step keeps everything as soon as it keeps its own bookkeeping.
LEMMA SweepStep ==
    ASSUME GarbageSound, SweptIdle', VictimsForgotten',
           UNCHANGED <<catalogue, version, job, transport, worker, todo, crashes>>,
           points' \in [Versions -> SUBSET Batches],
           chunks' \subseteq Versions, files' \subseteq Versions,
           \A v \in Versions \ sweep.victims :
               /\ points'[v] = points[v]
               /\ v \in chunks => v \in chunks'
               /\ v \in files => v \in files'
    PROVE  GarbageSound'
<1>1. ServiceInv /\ RevisionsOrdered /\ SweptIdle /\ VictimsForgotten /\ RetainedIsServable
  BY DEF GarbageSound
<1>2. ServiceInv'
  BY <1>1, SweepService
<1>3. UNCHANGED <<generation, activeGen, revision>>
  BY DEF catalogue
<1>4. RevisionsOrdered'
  BY <1>1, <1>3 DEF RevisionsOrdered
<1>5. RetainedGens' = RetainedGens
  BY <1>3 DEF RetainedGens
<1>6. ASSUME NEW g \in RetainedGens, NEW v \in generation[g].manifest
      PROVE  points'[v] = Batches /\ v \in chunks' /\ v \in files'
  <2>1. g \in Gens /\ generation[g] \in GenerationRow
    BY <1>1, Rows DEF ServiceInv, RetainedGens
  <2>2. v \in Versions \ sweep.victims
    BY <1>1, <1>6, <2>1 DEF VictimsForgotten, GenerationRow
  <2> QED
    BY <1>1, <1>6, <2>2 DEF RetainedIsServable
<1>7. RetainedIsServable'
  BY <1>3, <1>5, <1>6 DEF RetainedIsServable
<1> QED
  BY <1>2, <1>4, <1>7 DEF GarbageSound

\* Select chooses dead versions that no retained manifest lists, and the later steps of
\* the collection stay within that choice.
LEMMA CollectSound ==
    ASSUME ~OldJobs, GarbageSound, Collect
    PROVE  GarbageSound'
<1>1. SweptIdle /\ VictimsForgotten
  BY DEF GarbageSound
<1>2. /\ points \in [Versions -> SUBSET Batches] /\ chunks \subseteq Versions
      /\ files \subseteq Versions
  BY DEF GarbageSound, ServiceInv, IngestionInv, TypeOK
<1>3. UNCHANGED <<catalogue, version, job, transport, worker, todo, crashes>>
  BY DEF Collect, Select, DeletePoints, DeleteFile, DeleteRows, Abort, vars
<1>4. \A v : HasWork(v)' <=> HasWork(v)
  BY <1>3 DEF HasWork, transport
<1>5. RetainedGens' = RetainedGens /\ UNCHANGED generation
  BY <1>3 DEF RetainedGens, catalogue
<1>6. CASE Select
  <2>1. PICK chosen \in SUBSET Versions :
          /\ chosen \subseteq Candidates
          /\ \A v \in chosen : ~HasWork(v)
          /\ sweep' = [pc |-> "points", victims |-> chosen, left |-> chosen]
          /\ UNCHANGED <<points, chunks, files, collected>>
    BY <1>6 DEF Select, IsAgedSet, Candidates, vars, payload
  <2>2. sweep'.victims = chosen /\ sweep'.left = chosen
    BY <2>1
  <2>3. SweptIdle'
    BY <1>1, <1>3, <1>4, <2>1, <2>2 DEF SweptIdle, Candidates, Dead
  <2>4. VictimsForgotten'
    BY <1>5, <2>1, <2>2 DEF VictimsForgotten, Candidates, Protected
  <2> QED
    BY <1>2, <1>3, <2>1, <2>3, <2>4, SweepStep
<1>7. CASE DeletePoints
  <2>1. /\ sweep' = [sweep EXCEPT !.pc = "files"] /\ UNCHANGED <<chunks, files, collected>>
        /\ points' = [v \in Versions |-> IF v \in sweep.victims THEN {} ELSE points[v]]
    BY <1>7 DEF DeletePoints
  <2>2. sweep'.victims = sweep.victims /\ sweep'.left = sweep.left
    BY <1>1, <2>1 DEF SweptIdle
  <2>3. SweptIdle' /\ VictimsForgotten'
    BY <1>1, <1>3, <1>4, <1>5, <2>1, <2>2 DEF SweptIdle, VictimsForgotten
  <2>4. points' \in [Versions -> SUBSET Batches]
    BY <1>2, <2>1
  <2> QED
    BY <1>2, <1>3, <2>1, <2>3, <2>4, SweepStep
<1>8. ASSUME NEW u \in Versions, DeleteFile(u) PROVE GarbageSound'
  <2>1. /\ sweep' = [sweep EXCEPT !.left = @ \ {u}] /\ UNCHANGED <<chunks, points, collected>>
        /\ files' = files \ {u} /\ u \in sweep.left
    BY <1>8 DEF DeleteFile
  <2>2. sweep'.victims = sweep.victims /\ sweep'.left = sweep.left \ {u}
    BY <1>1, <2>1 DEF SweptIdle
  <2>3. SweptIdle' /\ VictimsForgotten'
    BY <1>1, <1>3, <1>4, <1>5, <2>1, <2>2 DEF SweptIdle, VictimsForgotten
  <2>4. u \in sweep.victims
    BY <1>1, <2>1 DEF SweptIdle
  <2> QED
    BY <1>2, <1>3, <2>1, <2>3, <2>4, SweepStep
<1>9. CASE DeleteRows
  <2>1. /\ sweep.left = {} /\ sweep' = NoSweep /\ UNCHANGED <<points, files>>
        /\ chunks' = chunks \ sweep.victims /\ collected' = collected \cup sweep.victims
    BY <1>9 DEF DeleteRows
  <2>2. SweptIdle' /\ VictimsForgotten'
    BY <1>1, <1>3, <1>4, <1>5, <2>1 DEF SweptIdle, VictimsForgotten, NoSweep
  <2> QED
    BY <1>2, <1>3, <2>1, <2>2, SweepStep
<1>10. CASE Abort
  <2>1. sweep' = NoSweep /\ UNCHANGED <<points, chunks, files, collected>>
    BY <1>10 DEF Abort, vars, payload
  <2>2. SweptIdle' /\ VictimsForgotten'
    BY <1>1, <1>3, <1>4, <1>5, <2>1 DEF SweptIdle, VictimsForgotten, NoSweep
  <2> QED
    BY <1>2, <1>3, <2>1, <2>2, SweepStep
<1> QED
  BY <1>6, <1>7, <1>8, <1>9, <1>10 DEF Collect

\* Nothing is collected from an empty tenant.
LEMMA GarbageInit == Init /\ GcInit => GarbageSound
<1> SUFFICES ASSUME Init, GcInit PROVE GarbageSound
  OBVIOUS
<1>1. RevisionsOrdered /\ RetainedGens = {}
  BY DEF Init, RevisionsOrdered, RetainedGens, NoGeneration
<1>2. SweptIdle
  BY DEF GcInit, NoSweep, SweptIdle
<1> QED
  BY <1>1, <1>2, ServiceInit DEF GarbageSound, VictimsForgotten, RetainedIsServable

\* garbage_collect_inactive_versions next to the pipeline: what it decided in its first
\* transaction is still right at every later step.
THEOREM GarbageSoundHolds ==
    ASSUME Races = {}, ~OldJobs
    PROVE  GcSpec => []GarbageSound
<1>1. Init /\ GcInit => GarbageSound
  BY GarbageInit
<1>2. GarbageSound /\ [GcNext]_allVars => GarbageSound'
  <2> SUFFICES ASSUME GarbageSound, [GcNext]_allVars PROVE GarbageSound'
    OBVIOUS
  <2>1. CASE Pipeline
    BY <2>1, PipelineSound DEF Pipeline
  <2>2. CASE Collect
    BY <2>2, CollectSound
  <2>3. CASE UNCHANGED allVars
    BY <2>3, PipelineSound DEF allVars
  <2> QED
    BY <2>1, <2>2, <2>3 DEF GcNext
<1> QED
  BY <1>1, <1>2, PTL DEF GcSpec

\* The victims are dead until their last row is gone, and what was collected has no raw
\* file and is never searchable again.
THEOREM VictimsAreDead ==
    ASSUME Races = {}, ~OldJobs
    PROVE  GcSpec => []GarbageInv
<1>1. GarbageSound => GarbageInv
  BY VisibleActive
  DEF GarbageSound, SweptIdle, GarbageInv, VictimsStayDead, CollectedStaysDead, Dead
<1> QED
  BY <1>1, GarbageSoundHolds, PTL

\* A query that resolved one of the retained generations finds all points, rows and files.
THEOREM RetainedIsComplete ==
    ASSUME Races = {}, ~OldJobs
    PROVE  GcSpec => []RetainedIsServable
<1>1. GarbageSound => RetainedIsServable
  BY DEF GarbageSound
<1> QED
  BY <1>1, GarbageSoundHolds, PTL

\* Garbage collection takes nothing of what retrieval may read.
THEOREM SearchableSurvivesCollection ==
    ASSUME Races = {}, ~OldJobs
    PROVE  GcSpec => []VisibleIsServable
<1>1. GarbageSound => VisibleIsServable
  <2> SUFFICES ASSUME GarbageSound, NEW v \in Visible
               PROVE  /\ points[v] = Batches /\ v \in chunks /\ v \in files
                      /\ version[v].status = "active"
    BY DEF VisibleIsServable
  <2>1. activeGen \in RetainedGens /\ v \in generation[activeGen].manifest
    BY ActiveRetained DEF GarbageSound, Visible
  <2> QED
    BY <2>1, VisibleActive DEF GarbageSound, RetainedIsServable
<1> QED
  BY <1>1, GarbageSoundHolds, PTL
================================================================================
