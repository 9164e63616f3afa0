------------------------------ MODULE ContentProofs ------------------------------
(***************************************************************************)
(* The proofs about the parts of MCContent, for any versions, tenants,     *)
(* calls and snapshots.                                                    *)
(*                                                                         *)
(* A behaviour of the composition is a behaviour of one part, so what      *)
(* BackupProofs proves of the backup and AdmissionProofs of the acceptance *)
(* of content holds of it.  The restore drill is proved here: it is one    *)
(* script without company, and the invariant says what each of its steps   *)
(* has established.                                                        *)
(***************************************************************************)
EXTENDS MCContent, TLAPS

contentVars == <<part, allVars, backupVars, chunkingVars, drillVars, admissionVars>>

\* The modules of the proofs, instantiated as their components are.
BP == INSTANCE BackupProofs WITH Versions <- Copied, points <- backedPoints, sweep <- night
AP == INSTANCE AdmissionProofs WITH files <- placed

-------------------------------------------------------------------------------

\* No step changes which part runs.
LEMMA PartStays ==
    ASSUME [ContentNext]_contentVars
    PROVE  part' = part
  BY DEF ContentNext, contentVars, Collecting, BackingUp, CuttingUp, Drilling, Admitting

-------------------------------------------------------------------------------
(* The backup *)

\* When the backup runs, it starts in an initial state of the component Backup.
LEMMA BackupBegins == ContentInit /\ part = "backup" => BP!Init
<1> SUFFICES ASSUME ContentInit, part = "backup" PROVE BP!Init
  OBVIOUS
<1>1. Backups!Init
  BY DEF ContentInit
<1> QED
  BY <1>1 DEF Backups!Init, BP!Init, Backups!Nothing, BP!Nothing, Backups!NoSweep, BP!NoSweep,
              Backups!Never, BP!Never, Backups!Services, BP!Services

\* Work(v), Script and Maintenance of the instance BP, action by action.
LEMMA BackupServices ==
    ASSUME NEW v \in Copied,
           \/ Backups!StoreFile(v) \/ Backups!Accept(v) \/ Backups!StageRows(v)
           \/ Backups!FailJob(v) \/ Backups!IndexPoints(v) \/ Backups!Activate(v)
    PROVE  BP!Work(v)
  BY DEF BP!Work, Backups!StoreFile, BP!StoreFile, Backups!Accept, BP!Accept,
         Backups!StageRows, BP!StageRows, Backups!FailJob, BP!FailJob, Backups!IndexPoints,
         BP!IndexPoints, Backups!Activate, BP!Activate, Backups!Becomes, BP!Becomes,
         Backups!Serving, BP!Serving

\* The lines of backup.sh.
LEMMA BackupScript ==
    ASSUME \/ Backups!Quiesce \/ Backups!Dump \/ Backups!Manifest \/ Backups!ManifestFails
           \/ Backups!Archive \/ Backups!Snapshot \/ Backups!StartServices
           \/ Backups!Store \/ Backups!Upload \/ Backups!Mark
    PROVE  BP!Script
  BY DEF BP!Script, Backups!Quiesce, BP!Quiesce, Backups!Dump, BP!Dump, Backups!Manifest,
         BP!Manifest, Backups!ManifestFails, BP!ManifestFails, Backups!Archive, BP!Archive,
         Backups!Snapshot, BP!Snapshot, Backups!StartServices, BP!StartServices,
         Backups!Store, BP!Store, Backups!Upload, BP!Upload, Backups!Mark, BP!Mark,
         Backups!Nothing, BP!Nothing, Backups!content, BP!content, Backups!Copying,
         BP!Copying, Backups!Expected, BP!Expected, Backups!Cleanup, BP!Cleanup,
         Backups!Accident, BP!Accident

\* The nightly maintenance: the lock, the collections, the end.
LEMMA BackupMaintenance ==
    ASSUME \/ Backups!Maintain \/ Backups!DeletePoints \/ Backups!MarkCollected
           \/ \E v \in Copied : Backups!DeleteFile(v)
    PROVE  BP!Maintenance
  BY DEF BP!Maintenance, Backups!Maintain, BP!Maintain, Backups!DeletePoints,
         BP!DeletePoints, Backups!MarkCollected, BP!MarkCollected, Backups!DeleteFile,
         BP!DeleteFile, Backups!content, BP!content, Backups!Sweeping, BP!Sweeping,
         Backups!NoSweep, BP!NoSweep, Backups!BackupRecent, BP!BackupRecent,
         Backups!Candidates, BP!Candidates

\* The night begins, what goes wrong, and what the operators put right.
LEMMA BackupOthers ==
    ASSUME \/ Backups!Night \/ Backups!Breaks \/ Backups!Restart \/ Backups!Interrupted
           \/ Backups!Missed
    PROVE  BP!Night \/ BP!Breaks \/ BP!Restart \/ BP!Interrupted \/ BP!Missed
  BY DEF Backups!Restart, BP!Restart, Backups!Services, BP!Services, Backups!Night, BP!Night,
         Backups!Breaks, BP!Breaks, Backups!Interrupted, BP!Interrupted,
         Backups!Missed, BP!Missed, Backups!content, BP!content,
         Backups!Nothing, BP!Nothing, Backups!Never, BP!Never, Backups!NoSweep, BP!NoSweep,
         Backups!Cleanup, BP!Cleanup, Backups!Accident, BP!Accident

\* A step of this part is a step of the component Backup.
LEMMA BackupSteps ==
    ASSUME part = "backup", [ContentNext]_contentVars
    PROVE  part' = "backup" /\ [BP!Next]_(BP!vars)
<1>1. CASE UNCHANGED contentVars
  BY <1>1 DEF contentVars, backupVars, BP!vars, BP!content
<1>2. CASE ContentNext
  <2>1. part' = "backup"
    BY PartStays
  <2>2. \/ \E v \in Copied :
              \/ Backups!StoreFile(v) \/ Backups!Accept(v) \/ Backups!StageRows(v)
              \/ Backups!FailJob(v) \/ Backups!IndexPoints(v) \/ Backups!Activate(v)
        \/ \/ Backups!Quiesce \/ Backups!Dump \/ Backups!Manifest \/ Backups!ManifestFails
           \/ Backups!Archive \/ Backups!Snapshot \/ Backups!StartServices
           \/ Backups!Store \/ Backups!Upload \/ Backups!Mark
        \/ \/ Backups!Maintain \/ Backups!DeletePoints \/ Backups!MarkCollected
           \/ \E v \in Copied : Backups!DeleteFile(v)
        \/ Backups!Night \/ Backups!Breaks \/ Backups!Restart \/ Backups!Interrupted
        \/ Backups!Missed
    BY <1>2 DEF ContentNext, Collecting, BackingUp, CuttingUp, Drilling, Admitting
  <2>3. BP!Next
    BY <2>2, BackupServices, BackupScript, BackupMaintenance, BackupOthers DEF BP!Next
  <2> QED
    BY <2>1, <2>3
<1> QED
  BY <1>1, <1>2

\* The two instances state the same properties.
LEMMA BackupSame ==
    /\ BP!BackupInv => Backups!BackupInv
    /\ BP!BackupsResume => Backups!BackupsResume
<1>1. BP!TypeOK => Backups!TypeOK
  BY DEF BP!TypeOK, Backups!TypeOK, BP!Never, Backups!Never, BP!Services, Backups!Services
<1>2. \A s : BP!Verifies(s) => Backups!Verifies(s)
  <2> TAKE s
  <2>1. \A r : BP!Chunked(r) = Backups!Chunked(r) /\ BP!Active(r) = Backups!Active(r)
    BY DEF BP!Chunked, Backups!Chunked, BP!Active, Backups!Active
  <2>2. \A S : BP!Cardinality(S) = Backups!Cardinality(S)
    BY Zenon DEF BP!Cardinality, Backups!Cardinality
  <2> QED
    BY <2>1, <2>2 DEF BP!Verifies, Backups!Verifies
<1>3. BP!EverySnapshotRestores => Backups!EverySnapshotRestores
  BY <1>2 DEF BP!EverySnapshotRestores, Backups!EverySnapshotRestores
<1>4. BP!LiveVerifies => Backups!LiveVerifies
  BY DEF BP!LiveVerifies, Backups!LiveVerifies, BP!Expected, Backups!Expected, BP!Active,
         Backups!Active
<1>5. BP!LiveConsistent => Backups!LiveConsistent
  BY <1>4 DEF BP!LiveConsistent, Backups!LiveConsistent, BP!Expected, Backups!Expected,
              BP!Active, Backups!Active, BP!Candidates, Backups!Candidates
<1>6. BP!BackupsResume => Backups!BackupsResume
  BY DEF BP!BackupsResume, Backups!BackupsResume, BP!Never, Backups!Never
<1>7. BP!ServicesReturn => Backups!ServicesReturn
  BY DEF BP!ServicesReturn, Backups!ServicesReturn, BP!Services, Backups!Services
<1> QED
  BY <1>1, <1>3, <1>5, <1>6, <1>7 DEF BP!BackupInv, Backups!BackupInv

\* Short of an accident the services run whenever no script does; with any number of them,
\* every snapshot that was taken of stopped services restores and the running system is
\* consistent.
THEOREM BackupHolds ==
    ASSUME MaxAccidents \in Nat
    PROVE  ContentSpec => []BackupInv
<1> DEFINE Now == part = "backup"
<1>1. ContentInit /\ Now => BP!Init
  BY BackupBegins
<1>2. Now /\ [ContentNext]_contentVars => Now' /\ [BP!Next]_(BP!vars)
  BY BackupSteps
<1>3. ~Now /\ [ContentNext]_contentVars => ~Now'
  BY PartStays
<1>4. BP!Spec => []BP!BackupInv
  BY BP!SnapshotsRestore
<1>5. ~Now \/ BP!BackupInv => BackupInv
  BY BackupSame DEF BackupInv
<1> HIDE DEF Now
<1> QED
  BY <1>1, <1>2, <1>3, <1>4, <1>5, PTL DEF ContentSpec, contentVars, BP!Spec

\* One accident costs at most one night's backup.
THEOREM BackupsGoOn ==
    ASSUME MaxAccidents \in 0..1
    PROVE  ContentSpec => []BackupsResume
<1> DEFINE Now == part = "backup"
<1>1. ContentInit /\ Now => BP!Init
  BY BackupBegins
<1>2. Now /\ [ContentNext]_contentVars => Now' /\ [BP!Next]_(BP!vars)
  BY BackupSteps
<1>3. ~Now /\ [ContentNext]_contentVars => ~Now'
  BY PartStays
<1>4. BP!Spec => []BP!BackupsResume
  BY BP!OneAccidentOneNight
<1>5. ~Now \/ BP!BackupsResume => BackupsResume
  BY BackupSame DEF BackupsResume
<1> HIDE DEF Now
<1> QED
  BY <1>1, <1>2, <1>3, <1>4, <1>5, PTL DEF ContentSpec, contentVars, BP!Spec

-------------------------------------------------------------------------------
(* The acceptance of content *)

\* When uploads are admitted, the part starts in an initial state of Admission.
LEMMA AdmissionBegins == ContentInit /\ part = "admission" => AP!Init
<1> SUFFICES ASSUME ContentInit, part = "admission" PROVE AP!Init
  OBVIOUS
<1>1. Admitted!Init
  BY DEF ContentInit
<1> QED
  BY <1>1 DEF Admitted!Init, AP!Init, Admitted!First, AP!First, Admitted!Operations,
         AP!Operations, Admitted!Claims!NoRow, AP!Claims!NoRow

\* The operators that guards and effects are built from are the same in both instances.
LEMMA AdmissionOperators ==
    /\ \A c : Admitted!Reindex(c) = AP!Reindex(c) /\ Admitted!Claim(c) = AP!Claim(c)
            /\ Admitted!Outcome(c) = AP!Outcome(c) /\ Admitted!DocumentOf(c) = AP!DocumentOf(c)
            /\ Admitted!Size(c) = AP!Size(c) /\ Admitted!NextNumber(c) = AP!NextNumber(c)
            /\ Admitted!Found(c) = AP!Found(c) /\ Admitted!Acceptable(c) = AP!Acceptable(c)
            /\ (Admitted!AtLock(c) <=> AP!AtLock(c)) /\ (Admitted!Accepts(c) <=> AP!Accepts(c))
    /\ Admitted!Claims!Owned = AP!Claims!Owned
    /\ (Admitted!Unlocked <=> AP!Unlocked) /\ Admitted!Used = AP!Used
<1>1. \A c : Admitted!Reindex(c) = AP!Reindex(c)
  BY DEF Admitted!Reindex, AP!Reindex
<1>2. \A c : Admitted!Claim(c) = AP!Claim(c)
  BY <1>1 DEF Admitted!Claim, AP!Claim
<1>3. \A c : Admitted!Outcome(c) = AP!Outcome(c)
  BY <1>2 DEF Admitted!Outcome, AP!Outcome, Admitted!Claims!Outcome, AP!Claims!Outcome
<1>4. \A c : Admitted!DocumentOf(c) = AP!DocumentOf(c)
  BY DEF Admitted!DocumentOf, AP!DocumentOf
<1>5. \A c : Admitted!Size(c) = AP!Size(c)
  BY <1>1 DEF Admitted!Size, AP!Size
<1>6. \A c : Admitted!Found(c) = AP!Found(c)
  BY DEF Admitted!Found, AP!Found
<1>7. Admitted!Used = AP!Used
  BY Zenon DEF Admitted!Used, AP!Used, Admitted!Units, AP!Units, Admitted!Cardinality,
         AP!Cardinality
<1>8. \A c : Admitted!Acceptable(c) = AP!Acceptable(c)
  BY <1>5, <1>6, <1>7 DEF Admitted!Acceptable, AP!Acceptable
<1>9. \A c : Admitted!NextNumber(c) = AP!NextNumber(c)
  <2>1. \A S : Admitted!Max(S) = AP!Max(S)
    BY Zenon DEF Admitted!Max, AP!Max
  <2> QED
    BY <1>4, <2>1 DEF Admitted!NextNumber, AP!NextNumber
<1>10. Admitted!Claims!Owned = AP!Claims!Owned /\ (Admitted!Unlocked <=> AP!Unlocked)
  BY DEF Admitted!Claims!Owned, AP!Claims!Owned, Admitted!Unlocked, AP!Unlocked
<1>11. \A c : Admitted!AtLock(c) <=> AP!AtLock(c)
  BY <1>1, <1>10 DEF Admitted!AtLock, AP!AtLock
<1>12. \A c : Admitted!Accepts(c) <=> AP!Accepts(c)
  BY <1>3, <1>8, <1>10, <1>11 DEF Admitted!Accepts, AP!Accepts
<1> QED
  BY <1>1, <1>2, <1>3, <1>4, <1>5, <1>6, <1>7, <1>8, <1>9, <1>10, <1>11, <1>12

\* The steps of one upload.
LEMMA AdmissionCalls ==
    ASSUME NEW c \in Calls,
           \/ Admitted!Stage(c) \/ Admitted!Place(c) \/ Admitted!PlaceFails(c)
           \/ Admitted!Replay(c) \/ Admitted!Refuse(c)
           \/ Admitted!Commit(c) \/ Admitted!RollBack(c) \/ Admitted!DoubtfulCommit(c)
           \/ Admitted!Crash(c)
    PROVE  AP!Step(c)
<1>1. ASSUME Admitted!Stage(c) PROVE AP!Stage(c)
  BY <1>1, AdmissionOperators DEF Admitted!Stage, AP!Stage
<1>2. ASSUME Admitted!Place(c) PROVE AP!Place(c)
  BY <1>2, AdmissionOperators DEF Admitted!Place, AP!Place
<1>3. ASSUME Admitted!Replay(c) PROVE AP!Replay(c)
  BY <1>3, AdmissionOperators DEF Admitted!Replay, AP!Replay
<1>4. ASSUME Admitted!Refuse(c) PROVE AP!Refuse(c)
  BY <1>4, AdmissionOperators DEF Admitted!Refuse, AP!Refuse
<1>5. ASSUME Admitted!Stored(c) PROVE AP!Stored(c)
  BY <1>5, AdmissionOperators DEF Admitted!Stored, AP!Stored, Admitted!Claims!CompletedRow,
         AP!Claims!CompletedRow, Admitted!Claims!ClaimedRow, AP!Claims!ClaimedRow
<1>6. ASSUME Admitted!Commit(c) PROVE AP!Commit(c)
  BY <1>5, <1>6 DEF Admitted!Commit, AP!Commit
<1>7. ASSUME Admitted!RollBack(c) PROVE AP!RollBack(c)
  BY <1>7 DEF Admitted!RollBack, AP!RollBack, Admitted!Fault, AP!Fault
<1>8. ASSUME Admitted!DoubtfulCommit(c) PROVE AP!DoubtfulCommit(c)
  BY <1>5, <1>8 DEF Admitted!DoubtfulCommit, AP!DoubtfulCommit, Admitted!Fault, AP!Fault
<1>9. ASSUME Admitted!Crash(c) PROVE AP!Crash(c)
  BY <1>9 DEF Admitted!Crash, AP!Crash, Admitted!Fault, AP!Fault
<1>10. ASSUME Admitted!PlaceFails(c) PROVE AP!PlaceFails(c)
  BY <1>10, AdmissionOperators
     DEF Admitted!PlaceFails, AP!PlaceFails, Admitted!Fault, AP!Fault
<1> QED
  BY <1>1, <1>2, <1>3, <1>4, <1>6, <1>7, <1>8, <1>9, <1>10 DEF AP!Step

\* A step of this part is a step of the component Admission.
LEMMA AdmissionSteps ==
    ASSUME part = "admission", [ContentNext]_contentVars
    PROVE  part' = "admission" /\ [AP!Next]_(AP!vars)
<1>1. CASE UNCHANGED contentVars
  BY <1>1 DEF contentVars, admissionVars, AP!vars
<1>2. CASE ContentNext
  <2>1. \/ \E c \in Calls :
              \/ Admitted!Stage(c) \/ Admitted!Place(c) \/ Admitted!PlaceFails(c)
              \/ Admitted!Replay(c) \/ Admitted!Refuse(c) \/ Admitted!Commit(c)
              \/ Admitted!RollBack(c) \/ Admitted!DoubtfulCommit(c) \/ Admitted!Crash(c)
        \/ \E v \in versions : Admitted!Activate(v)
        \/ Admitted!Delete
        \/ \E k \in Admitted!Operations \X Keys : Admitted!Prune(k)
    BY <1>2 DEF ContentNext, Collecting, BackingUp, CuttingUp, Drilling, Admitting
  <2>2. \A v \in versions : Admitted!Activate(v) => AP!Activate(v)
    BY AdmissionOperators DEF Admitted!Activate, AP!Activate
  <2>3. Admitted!Delete => AP!Delete
    BY AdmissionOperators DEF Admitted!Delete, AP!Delete
  <2>4. /\ Admitted!Operations = AP!Operations
        /\ \A k \in AP!Operations \X Keys : Admitted!Prune(k) => AP!Prune(k)
    BY DEF Admitted!Operations, AP!Operations, Admitted!Prune, AP!Prune, Admitted!Claims!NoRow,
           AP!Claims!NoRow
  <2> QED
    BY <2>1, <2>2, <2>3, <2>4, AdmissionCalls, PartStays, <1>2 DEF AP!Next
<1> QED
  BY <1>1, <1>2

\* The two instances state the same invariant.
LEMMA AdmissionSame == AP!AdmissionInv => Admitted!AdmissionInv
<1>1. AP!TypeOK => Admitted!TypeOK
  BY DEF Admitted!TypeOK, AP!TypeOK, Admitted!Version, AP!Version, Admitted!Operations,
         AP!Operations, Admitted!Claims!Row, AP!Claims!Row, Admitted!Claims!RowStatus,
         AP!Claims!RowStatus
<1>2. AP!NumberedWithinQuota => Admitted!NumberedWithinQuota
  <2>1. \A S : Admitted!Cardinality(S) = AP!Cardinality(S)
    BY Zenon DEF Admitted!Cardinality, AP!Cardinality
  <2> QED
    BY <2>1, AdmissionOperators DEF Admitted!NumberedWithinQuota, AP!NumberedWithinQuota
<1>3. AP!OncePerKey => Admitted!OncePerKey
  BY AdmissionOperators
     DEF Admitted!OncePerKey, AP!OncePerKey, Admitted!Authors, AP!Authors
<1>4. AP!FilesAccounted => Admitted!FilesAccounted
  BY AdmissionOperators
     DEF Admitted!FilesAccounted, AP!FilesAccounted, Admitted!Authors, AP!Authors
<1> QED
  BY <1>1, <1>2, <1>3, <1>4 DEF Admitted!AdmissionInv, AP!AdmissionInv

\* Uploads, new versions and reindexings, whatever runs side by side, fails or is killed:
\* what is accepted is numbered, paid for, accepted once for a key whose claim is kept, and
\* on the disk.
THEOREM AdmittedOnce ==
    ASSUME AP!Parameters
    PROVE  ContentSpec => []AdmissionInv
<1> DEFINE Now == part = "admission"
<1>1. ContentInit /\ Now => AP!Init
  BY AdmissionBegins
<1>2. Now /\ [ContentNext]_contentVars => Now' /\ [AP!Next]_(AP!vars)
  BY AdmissionSteps
<1>3. ~Now /\ [ContentNext]_contentVars => ~Now'
  BY PartStays
<1>4. AP!Spec => []AP!AdmissionInv
  BY AP!AdmissionHolds
<1>5. ~Now \/ AP!AdmissionInv => AdmissionInv
  BY AdmissionSame DEF AdmissionInv
<1> HIDE DEF Now
<1> QED
  BY <1>1, <1>2, <1>3, <1>4, <1>5, PTL DEF ContentSpec, contentVars, AP!Spec

-------------------------------------------------------------------------------
(* The restore drill *)

\* What each step has established: the database is that of the snapshot once it is restored,
\* the files and the index are those of an undamaged snapshot, a report is written of what
\* was verified only, and a drill fails for a reason that lies in the snapshot.
DrillSound ==
    /\ drill \in {"assets", "verify", "done"} => rows = snapshot.dump /\ users = snapshot.users
    /\ drill \in {"verify", "done"} =>
          documents = snapshot.files /\ index = snapshot.points /\ ~snapshot.damaged
    /\ drill = "done" => Drill!Verified
    /\ report # Drill!NoReport => drill = "done" /\ report.source = Drill!Source
    /\ drill = "failed" =>
          \/ snapshot = NoSnapshot \/ ~Drill!Whole(snapshot)
          \/ ~\E v \in Drill!Active(snapshot.dump) : TenantOf[v] \in snapshot.users

\* Before the drill nothing is restored and nothing reported.
LEMMA DrillBegins == ContentInit /\ part = "restore" => DrillSound
  BY DEF ContentInit, Drill!Init, DrillSound

\* A snapshot that is whole, with an active version for an active user, is verified.
LEMMA WholeIsVerified ==
    ASSUME rows = snapshot.dump, users = snapshot.users, documents = snapshot.files,
           index = snapshot.points, Drill!Whole(snapshot),
           NEW v \in Drill!Active(snapshot.dump), TenantOf[v] \in snapshot.users
    PROVE  Drill!Verified
<1>1. Drill!AsCounted
  BY DEF Drill!AsCounted, Drill!Whole
<1>2. Drill!GenerationsAgree /\ Drill!FilesIdentical /\ Drill!PointsComplete
  BY DEF Drill!GenerationsAgree, Drill!FilesIdentical, Drill!PointsComplete, Drill!Whole
<1>3. Drill!Active(rows) # {} /\ Drill!LinkOpens
  BY DEF Drill!LinkOpens, Drill!Whole
<1> QED
  BY <1>1, <1>2, <1>3 DEF Drill!Verified

\* Every step of the drill keeps its invariant.
LEMMA DrillSteps ==
    ASSUME part = "restore", DrillSound, [ContentNext]_contentVars
    PROVE  DrillSound'
<1>1. CASE UNCHANGED drillVars
  BY <1>1 DEF drillVars, DrillSound, Drill!Verified, Drill!AsCounted, Drill!GenerationsAgree,
              Drill!FilesIdentical, Drill!PointsComplete, Drill!LinkOpens, Drill!Active,
              Drill!Source
<1>2. CASE Drill!Fetch
  BY <1>2 DEF Drill!Fetch, Drill!input, Drill!stores, DrillSound, Drill!Source
<1>3. CASE Drill!RestoreRows
  BY <1>3 DEF Drill!RestoreRows, Drill!input, DrillSound, Drill!Source
<1>4. CASE Drill!RestoreAssets
  BY <1>4 DEF Drill!RestoreAssets, Drill!input, DrillSound, Drill!Source
<1>5. CASE Drill!Verify
  BY <1>5 DEF Drill!Verify, Drill!input, Drill!stores, DrillSound, Drill!Source, Drill!Verified,
              Drill!AsCounted, Drill!GenerationsAgree, Drill!FilesIdentical,
              Drill!PointsComplete, Drill!LinkOpens, Drill!Active
<1>6. CASE Drill!Refuse
  <2>1. \/ snapshot = NoSnapshot \/ ~Drill!Whole(snapshot)
        \/ ~\E v \in Drill!Active(snapshot.dump) : TenantOf[v] \in snapshot.users
    BY <1>6, WholeIsVerified DEF Drill!Refuse, DrillSound, Drill!Whole
  <2> QED
    BY <1>6, <2>1 DEF Drill!Refuse, Drill!Ends, Drill!input, DrillSound
<1> QED
  BY <1>1, <1>2, <1>3, <1>4, <1>5, <1>6
     DEF ContentNext, contentVars, Collecting, BackingUp, CuttingUp, Drilling, Admitting

\* What the invariant says of the report is what the drill has to prove.
LEMMA SoundDrillProves == DrillSound => Drill!DrillProves
<1> SUFFICES ASSUME DrillSound PROVE Drill!DrillProves
  OBVIOUS
<1>1. ASSUME report # Drill!NoReport
      PROVE  /\ \A v \in Drill!Active(snapshot.dump) :
                    rows[v] = "active" /\ documents[v] = "same" /\ v \in index
             /\ ~snapshot.damaged /\ snapshot.generations = Drill!Active(rows)
             /\ (~emptyAllowed => \E v \in Drill!Active(rows) : TenantOf[v] \in users)
             /\ (remoteFlag = "unset" /\ ~emptyAllowed => report.source = "off-machine")
  BY <1>1 DEF DrillSound, Drill!Verified, Drill!GenerationsAgree, Drill!FilesIdentical,
              Drill!PointsComplete, Drill!LinkOpens, Drill!Active, Drill!Source
<1> QED
  BY <1>1 DEF DrillSound, Drill!DrillProves

\* A drill that passes has proved that every active version can be found and read, and a
\* snapshot that is whole is not refused, for any snapshots, versions, tenants and users.
THEOREM DrillsProve == ContentSpec => []DrillProves
<1> DEFINE Now == part = "restore"
           Sound == Now => DrillSound
<1>1. ContentInit => Sound
  BY DrillBegins
<1>2. Sound /\ [ContentNext]_contentVars => Sound'
  BY DrillSteps, PartStays
<1>3. Sound => DrillProves
  BY SoundDrillProves DEF DrillProves
<1> QED
  BY <1>1, <1>2, <1>3, PTL DEF ContentSpec, contentVars
================================================================================
