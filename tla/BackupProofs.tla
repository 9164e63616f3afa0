------------------------------ MODULE BackupProofs ------------------------------
(***************************************************************************)
(* Every stored snapshot restores, and no accident stops the backups for   *)
(* good, for any number of versions.                                       *)
(***************************************************************************)
EXTENDS Backup, TLAPS

Lives ==
    [Versions -> {"none", "pending", "staged", "active", "superseded", "failed", "collected"}]
Snapshots ==
    [quiet : BOOLEAN, dump : Lives, counted : Lives, files : SUBSET Versions, points : SUBSET Versions]
Steps ==
    {"idle", "dump", "manifest", "archive", "snapshot", "start", "store", "upload", "mark"}

\* The steps of backup.sh between the stop and the start of the services.
Copies == {"dump", "manifest", "archive", "snapshot", "start"}

-------------------------------------------------------------------------------
(* The inductive invariant behind EverySnapshotRestores *)

\* What is to be searched for has its file, and what is searched for its points.
ContentSound ==
    \A v \in Versions :
        /\ life[v] \in {"pending", "staged", "active"} => v \in file
        /\ life[v] = "active" => v \in points
        /\ v \in sweep.victims => life[v] \in {"failed", "superseded"}

\* Nothing runs while the copies of a quiet snapshot are taken, and before the first
\* accident all copies are; the script forgets no service that it has to start.
Stopped ==
    /\ script \notin Copies => quiesced = {}
    /\ script \in Copies /\ staged.quiet => up = {}
    /\ accidents = 0 => up \cup quiesced = Services
    /\ accidents = 0 /\ script \in Copies \cup {"store"} => staged.quiet

\* Rows and counts of one snapshot were read from the same state, and what was active in
\* it has its file and its points.
Whole(s) == s.dump = s.counted /\ Active(s.dump) \subseteq s.files \cap s.points

\* A stored snapshot is whole if it is quiet, as it is before the first accident.
Kept(s) == (accidents = 0 => s.quiet) /\ (s.quiet => Whole(s))

\* So far the staging directory is a copy of what the stopped services left.
StagedSound ==
    /\ staged.quiet =>
          /\ script \in {"manifest", "archive", "snapshot", "start"} => staged.dump = life
          /\ script \in {"archive", "snapshot", "start"} => staged.counted = life
          /\ script \in {"snapshot", "start"} => staged.files = file
          /\ script = "start" => staged.points = points
          /\ script = "store" => Whole(staged)
    /\ local # NoSnapshot => Kept(local)
    /\ remote # NoSnapshot => Kept(remote)

\* The versions whose raw file the next manifest, or verify_live, would miss.
Missing == Expected(life) \ file

\* Before the first accident these are the victims of a collection that has begun to
\* delete files, and no second collection begins before it has marked them.
Undisturbed ==
    /\ "maintenance" \in due => sweep.at = "idle"
    /\ accidents = 0 => Missing \subseteq sweep.victims
    /\ accidents = 0 /\ sweep.at # "files" => Missing = {}

BackupSound == TypeOK /\ ContentSound /\ Stopped /\ StagedSound

-------------------------------------------------------------------------------

\* The types, with names for their parts.
LEMMA Types ==
    TypeOK <=>
        /\ life \in Lives
        /\ file \in SUBSET Versions /\ points \in SUBSET Versions
        /\ up \in SUBSET Services /\ quiesced \in SUBSET Services
        /\ script \in Steps
        /\ staged \in Snapshots
        /\ {local, remote} \subseteq Snapshots \cup {NoSnapshot}
        /\ age \in 0..Never
        /\ due \subseteq {"backup", "maintenance"}
        /\ sweep \in [at : {"idle", "points", "files"}, victims : SUBSET Versions]
        /\ accidents \in 0..MaxAccidents
  BY DEF TypeOK, Lives, Snapshots, Steps

\* The same one step later.
LEMMA TypesNext ==
    ASSUME life' \in Lives, file' \in SUBSET Versions, points' \in SUBSET Versions,
           up' \in SUBSET Services, quiesced' \in SUBSET Services,
           script' \in Steps, staged' \in Snapshots,
           local' \in Snapshots \cup {NoSnapshot}, remote' \in Snapshots \cup {NoSnapshot},
           age' \in 0..Never, due' \subseteq {"backup", "maintenance"},
           sweep' \in [at : {"idle", "points", "files"}, victims : SUBSET Versions],
           accidents' \in 0..MaxAccidents
    PROVE  TypeOK'
  BY DEF TypeOK, Lives, Snapshots, Steps

LEMMA NothingType == Nothing \in Snapshots
  BY DEF Nothing, Snapshots, Lives

LEMMA SoundInit == MaxAccidents \in Nat /\ Init => BackupSound
<1> SUFFICES ASSUME MaxAccidents \in Nat, Init PROVE BackupSound
  OBVIOUS
<1>1. TypeOK
  BY NothingType, Types DEF Init, Steps, Never, NoSweep, Lives, Services
<1>2. ContentSound /\ Stopped /\ StagedSound
  BY DEF Init, ContentSound, Stopped, StagedSound, NoSweep, Copies
<1> QED
  BY <1>1, <1>2 DEF BackupSound

\* The services work on the content while no copy is being taken.
LEMMA WorkSound ==
    ASSUME BackupSound, NEW v \in Versions, Work(v)
    PROVE  BackupSound'
<1>1. /\ up # {} /\ ~(staged.quiet /\ script \in Copies)
      /\ UNCHANGED <<up, script, quiesced, staged, local, remote, age, due, sweep, accidents>>
  BY DEF BackupSound, Stopped, Work, StoreFile, Accept, StageRows, FailJob, IndexPoints,
         Activate, Becomes, Serving
<1>2. life \in Lives /\ file \subseteq Versions /\ points \subseteq Versions
  BY Types DEF BackupSound
<1>3. life' \in Lives /\ file' \subseteq Versions /\ points' \subseteq Versions /\ ContentSound'
  <2>1. CASE StoreFile(v) \/ IndexPoints(v)
    BY <1>1, <1>2, <2>1 DEF StoreFile, IndexPoints, BackupSound, ContentSound
  <2>2. CASE Accept(v) \/ StageRows(v) \/ FailJob(v)
    <3>1. PICK to \in {"pending", "staged", "failed"} :
            /\ life' = [life EXCEPT ![v] = to]
            /\ life[v] \in {"none", "pending", "staged"}
            /\ life[v] = "none" => v \in file
      BY <2>2 DEF Accept, StageRows, FailJob, Becomes
    <3>2. UNCHANGED <<file, points>>
      BY <2>2 DEF Accept, StageRows, FailJob, Becomes
    <3>3. life' \in Lives
      BY <1>2, <3>1 DEF Lives
    <3>4. life'[v] = to /\ \A w \in Versions \ {v} : life'[w] = life[w]
      BY <1>2, <3>1 DEF Lives
    <3>5. ContentSound'
      BY <1>1, <3>1, <3>2, <3>4 DEF BackupSound, ContentSound
    <3> QED
      BY <1>2, <3>2, <3>3, <3>5
  <2>3. CASE Activate(v)
    BY <1>1, <1>2, <2>3 DEF Activate, BackupSound, ContentSound, Lives
  <2> QED
    BY <2>1, <2>2, <2>3 DEF Work
<1>4. TypeOK'
  BY <1>1, <1>3, Types DEF BackupSound, TypeOK, Lives
<1>5. Stopped' /\ StagedSound'
  BY <1>1 DEF BackupSound, Stopped, StagedSound, Kept, Whole, Active, Copies
<1> QED
  BY <1>3, <1>4, <1>5 DEF BackupSound

\* An accident leaves the bound intact.
LEMMA AccidentType ==
    ASSUME MaxAccidents \in Nat, TypeOK, Accident \/ UNCHANGED accidents
    PROVE  accidents' \in 0..MaxAccidents
  BY DEF Accident, TypeOK

\* backup.sh copies one part after the other from services that are down, or knows that it
\* does not.
LEMMA ScriptSound ==
    ASSUME MaxAccidents \in Nat, BackupSound, Script \/ Breaks \/ Restart
    PROVE  BackupSound'
<1>1. UNCHANGED <<life, file, points, sweep>> /\ (Accident \/ UNCHANGED accidents)
  BY DEF Script, Breaks, Restart, Quiesce, Dump, Manifest, ManifestFails, Archive, Snapshot,
         StartServices, Store, Upload, Mark, Cleanup, Copying, content
<1>2. ContentSound' /\ accidents' \in 0..MaxAccidents /\ (accidents' = 0 => accidents = 0)
  BY <1>1, AccidentType DEF BackupSound, ContentSound, Accident, TypeOK
<1>3. /\ life \in Lives /\ file \in SUBSET Versions /\ points \in SUBSET Versions
      /\ script \in Steps /\ staged \in Snapshots /\ Stopped /\ StagedSound /\ ContentSound
      /\ up \in SUBSET Services /\ quiesced \in SUBSET Services
      /\ age \in 0..Never /\ due \subseteq {"backup", "maintenance"}
      /\ local \in Snapshots \cup {NoSnapshot} /\ remote \in Snapshots \cup {NoSnapshot}
      /\ sweep \in [at : {"idle", "points", "files"}, victims : SUBSET Versions]
  BY Types DEF BackupSound
<1>4. ASSUME NEW s PROVE Kept(s) => Kept(s)'
  BY <1>2 DEF Kept, Whole, Active
<1>5. /\ Stopped' /\ StagedSound'
      /\ up' \in SUBSET Services /\ quiesced' \in SUBSET Services
      /\ script' \in Steps /\ staged' \in Snapshots
      /\ local' \in Snapshots \cup {NoSnapshot} /\ remote' \in Snapshots \cup {NoSnapshot}
      /\ age' \in 0..Never /\ due' \subseteq {"backup", "maintenance"}
  <2>1. CASE ManifestFails \/ Breaks
    <3>1. PICK started \in SUBSET quiesced :
            Cleanup(started) /\ (started = quiesced \/ Accident)
      BY <2>1 DEF ManifestFails, Breaks
    <3>2. /\ up' = up \cup started /\ quiesced' = {} /\ script' = "idle"
          /\ staged' = Nothing /\ UNCHANGED <<local, remote, age, due>>
      BY <3>1 DEF Cleanup
    <3>3. accidents' = 0 => up' \cup quiesced' = Services
      BY <1>2, <1>3, <3>1, <3>2 DEF Stopped, Accident
    <3>4. Stopped' /\ StagedSound'
      BY <1>3, <1>4, <3>2, <3>3 DEF Stopped, StagedSound, Nothing, Copies
    <3> QED
      BY <1>3, <3>2, <3>4, NothingType DEF Steps
  <2>2. CASE Quiesce
    <3>1. PICK seen \in SUBSET up :
            quiesced' = seen /\ up' = up \ seen /\ (seen = up \/ Accident)
      BY <2>2 DEF Quiesce
    <3>2. /\ staged' = [Nothing EXCEPT !.quiet = up' = {}] /\ script' = "dump"
          /\ quiesced = {} /\ UNCHANGED <<local, remote, age>> /\ due' \subseteq due
      BY <1>3, <2>2 DEF Quiesce, Stopped, Copies
    <3>3. staged' \in Snapshots /\ staged'.quiet = (up' = {})
      BY <3>2, NothingType DEF Nothing, Snapshots
    <3>4. accidents' = 0 => up' = {} /\ up' \cup quiesced' = Services
      BY <1>2, <1>3, <3>1, <3>2 DEF Stopped, Accident
    <3>5. Stopped' /\ StagedSound'
      BY <1>3, <1>4, <3>2, <3>3, <3>4 DEF Stopped, StagedSound, Copies
    <3> QED
      BY <1>3, <3>1, <3>2, <3>3, <3>5 DEF Steps
  <2>3. CASE Dump \/ Manifest \/ Archive \/ Snapshot
    <3>1. /\ UNCHANGED <<up, quiesced, local, remote, age, due, accidents>>
          /\ script \in Copies /\ script' \in Copies
      BY <2>3 DEF Dump, Manifest, Archive, Snapshot, Copying, Copies
    <3>2. /\ staged' \in Snapshots /\ staged'.quiet = staged.quiet
          /\ Dump => staged'.dump = life
          /\ ~Dump => staged'.dump = staged.dump
          /\ Manifest => staged'.counted = life
          /\ Archive \/ Snapshot => staged'.counted = staged.counted
          /\ Archive => staged'.files = file
          /\ Snapshot => staged'.files = staged.files /\ staged'.points = points
      BY <1>3, <2>3 DEF Dump, Manifest, Archive, Snapshot, Snapshots
    <3>3. Stopped'
      BY <1>3, <3>1, <3>2 DEF Stopped
    <3>4. StagedSound'
      BY <1>1, <1>3, <1>4, <2>3, <3>1, <3>2
         DEF Dump, Manifest, Archive, Snapshot, StagedSound
    <3> QED
      BY <1>3, <3>1, <3>2, <3>3, <3>4 DEF Steps, Copies
  <2>4. CASE StartServices
    <3>1. staged.quiet => Whole(staged)
      BY <1>3, <2>4 DEF StartServices, StagedSound, ContentSound, Whole, Active
    <3>2. /\ UNCHANGED <<staged, local, remote, age, due, accidents>> /\ script = "start"
          /\ script' = "store" /\ up' = up \cup quiesced /\ quiesced' = {}
      BY <2>4 DEF StartServices, Copying
    <3>3. (staged.quiet => Whole(staged))'
      BY <3>1, <3>2 DEF Whole, Active
    <3>4. StagedSound'
      BY <1>3, <1>4, <3>2, <3>3 DEF StagedSound
    <3>5. Stopped'
      BY <1>3, <3>2 DEF Stopped, Copies
    <3> QED
      BY <1>3, <3>2, <3>4, <3>5 DEF Steps
  <2>5. CASE Store \/ Upload
    <3>1. /\ UNCHANGED <<up, quiesced, staged, age, due, accidents>>
          /\ script' \in {"upload", "mark"} /\ script \in {"store", "upload"}
          /\ \/ local' = staged /\ remote' = remote /\ script = "store"
             \/ local' = local /\ remote' = local
      BY <2>5 DEF Store, Upload, Copying
    <3>2. script = "store" => Kept(staged)
      BY <1>3 DEF Stopped, StagedSound, Kept
    <3>3. StagedSound'
      BY <1>3, <1>4, <3>1, <3>2 DEF StagedSound
    <3>4. Stopped'
      BY <1>3, <3>1 DEF Stopped, Copies
    <3> QED
      BY <1>3, <3>1, <3>3, <3>4 DEF Steps
  <2>6. CASE Mark \/ Restart
    <3>1. /\ UNCHANGED <<quiesced, local, remote, due, accidents>> /\ script' = "idle"
          /\ script \in {"mark", "idle"} /\ age' \in {age, 0} /\ staged' \in {staged, Nothing}
          /\ up' \in {up, Services}
      BY <2>6 DEF Mark, Restart, content
    <3>2. Stopped' /\ StagedSound'
      BY <1>3, <1>4, <3>1 DEF Stopped, StagedSound, Nothing, Copies
    <3> QED
      BY <1>3, <3>1, <3>2, NothingType DEF Steps, Never
  <2> QED
    BY <2>1, <2>2, <2>3, <2>4, <2>5, <2>6 DEF Script
<1>6. TypeOK'
  BY <1>1, <1>2, <1>3, <1>5, TypesNext
<1> QED
  BY <1>2, <1>5, <1>6 DEF BackupSound

\* A collection deletes of its victims only, and nothing revives a failed or superseded
\* version while the collection lasts.
LEMMA MaintenanceSound ==
    ASSUME BackupSound, Maintenance
    PROVE  BackupSound'
<1>1. /\ up # {} /\ ~(staged.quiet /\ script \in Copies)
      /\ UNCHANGED <<up, script, quiesced, staged, local, remote, age, accidents>>
  BY DEF BackupSound, Stopped, Maintenance, Maintain, DeletePoints, DeleteFile, MarkCollected,
         Sweeping
<1>2. /\ life \in Lives /\ file \in SUBSET Versions /\ points \in SUBSET Versions
      /\ due \subseteq {"backup", "maintenance"} /\ ContentSound
      /\ sweep \in [at : {"idle", "points", "files"}, victims : SUBSET Versions]
  BY Types DEF BackupSound
<1>3. /\ life' \in Lives /\ file' \in SUBSET Versions /\ points' \in SUBSET Versions
      /\ due' \subseteq {"backup", "maintenance"} /\ ContentSound'
      /\ sweep' \in [at : {"idle", "points", "files"}, victims : SUBSET Versions]
  <2>1. CASE Maintain
    <3>1. UNCHANGED <<life, file, points>> /\ due' \subseteq due
      BY <2>1 DEF Maintain, content
    <3>2. /\ sweep' \in [at : {"idle", "points", "files"}, victims : SUBSET Versions]
          /\ sweep'.victims \subseteq Candidates
      BY <2>1 DEF Maintain, NoSweep, Candidates
    <3> QED
      BY <1>2, <3>1, <3>2 DEF ContentSound, Candidates
  <2>2. CASE DeletePoints
    <3>1. UNCHANGED <<life, file, due>> /\ points' = points \ sweep.victims
      BY <2>2 DEF DeletePoints
    <3>2. /\ sweep' \in [at : {"idle", "points", "files"}, victims : SUBSET Versions]
          /\ sweep'.victims = sweep.victims
      BY <1>2, <2>2 DEF DeletePoints
    <3> QED
      BY <1>2, <3>1, <3>2 DEF ContentSound
  <2>3. CASE \E v \in Versions : DeleteFile(v)
    <3>1. PICK v \in sweep.victims : file' = file \ {v} /\ UNCHANGED <<life, points, due, sweep>>
      BY <2>3 DEF DeleteFile
    <3>2. ContentSound'
      BY <1>2, <3>1 DEF ContentSound
    <3> QED
      BY <1>2, <3>1, <3>2
  <2>4. CASE MarkCollected
    <3>1. /\ UNCHANGED <<file, points, due>> /\ sweep' = NoSweep
          /\ life' = [v \in Versions |-> IF v \in sweep.victims THEN "collected" ELSE life[v]]
      BY <2>4 DEF MarkCollected
    <3>2. life' \in Lives
      BY <1>2, <3>1 DEF Lives
    <3>3. ContentSound'
      BY <1>2, <3>1 DEF ContentSound, NoSweep
    <3> QED
      BY <1>2, <3>1, <3>2, <3>3 DEF NoSweep
  <2> QED
    BY <2>1, <2>2, <2>3, <2>4 DEF Maintenance
<1>4. TypeOK'
  BY <1>1, <1>2, <1>3, Types, TypesNext DEF BackupSound
<1>5. Stopped' /\ StagedSound'
  BY <1>1 DEF BackupSound, Stopped, StagedSound, Kept, Whole, Active, Copies
<1> QED
  BY <1>3, <1>4, <1>5 DEF BackupSound

\* The timers, and the accidents of a collection.
LEMMA NightSound ==
    ASSUME MaxAccidents \in Nat, BackupSound, Night \/ Interrupted \/ Missed
    PROVE  BackupSound'
<1>1. /\ UNCHANGED <<life, file, points, up, script, quiesced, staged, local, remote>>
      /\ Accident \/ UNCHANGED accidents
      /\ sweep' \in {sweep, NoSweep} /\ due' \subseteq {"backup", "maintenance"}
  BY DEF Night, Interrupted, Missed, content, BackupSound, TypeOK
<1>2. age' \in 0..Never
  <2>1. age \in 0..Never
    BY DEF BackupSound, TypeOK
  <2> QED
    BY <2>1 DEF Night, Interrupted, Missed, Never
<1>3. TypeOK'
  <2>1. sweep' \in [at : {"idle", "points", "files"}, victims : SUBSET Versions]
    BY <1>1, Types DEF BackupSound, NoSweep
  <2> QED
    BY <1>1, <1>2, <2>1, Types, TypesNext, AccidentType DEF BackupSound
<1>4. ContentSound'
  BY <1>1 DEF BackupSound, ContentSound, NoSweep
<1>5. Stopped' /\ StagedSound'
  <2>1. accidents' = 0 => accidents = 0
    BY <1>1 DEF BackupSound, TypeOK, Accident
  <2> QED
    BY <1>1, <2>1 DEF BackupSound, Stopped, StagedSound, Kept, Whole, Active
<1> QED
  BY <1>3, <1>4, <1>5 DEF BackupSound

LEMMA BackupStep ==
    MaxAccidents \in Nat /\ BackupSound /\ [Next]_vars => BackupSound'
<1> SUFFICES ASSUME MaxAccidents \in Nat, BackupSound, [Next]_vars PROVE BackupSound'
  OBVIOUS
<1>1. CASE UNCHANGED vars
  BY <1>1 DEF vars, content, BackupSound, TypeOK, ContentSound, Stopped, StagedSound, Kept,
              Whole, Active
<1> QED
  BY <1>1, WorkSound, ScriptSound, MaintenanceSound, NightSound DEF Next

-------------------------------------------------------------------------------

\* The services lose no file: a row is committed after its file is in place.
LEMMA WorkKeepsFiles ==
    ASSUME BackupSound, NEW v \in Versions, Work(v)
    PROVE  Missing' = Missing
<1>1. life \in Lives /\ ContentSound
  BY Types DEF BackupSound
<1>2. CASE StoreFile(v) \/ IndexPoints(v)
  BY <1>2 DEF StoreFile, IndexPoints, Missing, Expected
<1>3. CASE Accept(v) \/ StageRows(v) \/ FailJob(v)
  <2>1. PICK to \in {"pending", "staged", "failed"} : life' = [life EXCEPT ![v] = to]
    BY <1>3 DEF Accept, StageRows, FailJob, Becomes
  <2>2. v \in file /\ file' = file
    BY <1>1, <1>3 DEF Accept, StageRows, FailJob, Becomes, ContentSound
  <2>3. \A w \in Versions \ {v} : life'[w] = life[w]
    BY <1>1, <2>1 DEF Lives
  <2> QED
    BY <2>2, <2>3 DEF Missing, Expected
<1>4. CASE Activate(v)
  BY <1>1, <1>4 DEF Activate, ContentSound, Missing, Expected
<1> QED
  BY <1>2, <1>3, <1>4 DEF Work

\* Files are missing only while a collection is at work, or after an accident.
LEMMA UndisturbedStep ==
    ASSUME BackupSound, Undisturbed, [Next]_vars
    PROVE  Undisturbed'
<1>1. /\ life \in Lives /\ ContentSound /\ accidents \in Nat
      /\ sweep \in [at : {"idle", "points", "files"}, victims : SUBSET Versions]
  BY Types DEF BackupSound
<1>2. CASE \E v \in Versions : Work(v)
  <2>1. PICK v \in Versions : Work(v)
    BY <1>2
  <2>2. UNCHANGED <<due, sweep, accidents>>
    BY <2>1 DEF Work, StoreFile, Accept, StageRows, FailJob, IndexPoints, Activate, Becomes,
                Serving
  <2> QED
    BY <2>1, <2>2, WorkKeepsFiles DEF Undisturbed
<1>3. CASE Night \/ Script \/ Restart \/ Missed
  <2>1. UNCHANGED <<life, file, sweep>> /\ (accidents' = 0 => accidents = 0)
    BY <1>1, <1>3
       DEF Night, Script, Restart, Missed, Accident, Quiesce, Dump, Manifest, ManifestFails,
           Archive, Snapshot, StartServices, Store, Upload, Mark, Cleanup, Copying, content
  <2>2. sweep.at = "idle" \/ due' \subseteq due
    BY <1>3 DEF Night, Script, Restart, Missed, Quiesce, Dump, Manifest, ManifestFails, Archive,
                Snapshot, StartServices, Store, Upload, Mark, Cleanup, Copying
  <2> QED
    BY <2>1, <2>2 DEF Undisturbed, Missing, Expected
<1>4. CASE Breaks \/ Interrupted
  <2>1. accidents' # 0
    BY <1>1, <1>4 DEF Breaks, Interrupted, Accident
  <2>2. sweep' \in {sweep, NoSweep} /\ due' \subseteq due
    BY <1>4 DEF Breaks, Interrupted, Cleanup
  <2> QED
    BY <2>1, <2>2 DEF Undisturbed, NoSweep
<1>5. CASE Maintain
  <2>1. /\ UNCHANGED <<life, file, accidents>> /\ "maintenance" \in due
        /\ due' = due \ {"maintenance"} /\ sweep'.at \in {"idle", "points"}
    BY <1>5 DEF Maintain, content, Sweeping, NoSweep
  <2> QED
    BY <2>1 DEF Undisturbed, Missing, Expected
<1>6. CASE DeletePoints
  <2>1. /\ UNCHANGED <<life, file, due, accidents>> /\ sweep.at = "points"
        /\ sweep'.at = "files"
    BY <1>1, <1>6 DEF DeletePoints, Sweeping
  <2> QED
    BY <2>1 DEF Undisturbed, Missing, Expected
<1>7. CASE \E v \in Versions : DeleteFile(v)
  <2>1. PICK v \in sweep.victims : file' = file \ {v} /\ UNCHANGED <<life, due, sweep>>
    BY <1>7 DEF DeleteFile
  <2>2. UNCHANGED accidents /\ sweep.at = "files"
    BY <1>7 DEF DeleteFile, Sweeping
  <2> QED
    BY <2>1, <2>2 DEF Undisturbed, Missing, Expected
<1>8. CASE MarkCollected
  <2>1. /\ UNCHANGED <<file, due, accidents>> /\ sweep' = NoSweep
        /\ life' = [v \in Versions |-> IF v \in sweep.victims THEN "collected" ELSE life[v]]
    BY <1>8 DEF MarkCollected, Sweeping
  <2>2. Missing' = Missing \ sweep.victims
    BY <1>1, <2>1 DEF Missing, Expected
  <2> QED
    BY <2>1, <2>2 DEF Undisturbed, NoSweep
<1>9. CASE UNCHANGED vars
  BY <1>9 DEF vars, content, Undisturbed, Missing, Expected
<1> QED
  BY <1>2, <1>3, <1>4, <1>5, <1>6, <1>7, <1>8, <1>9 DEF Next, Maintenance

\* Nothing moves between the copies, so every snapshot that is kept verifies; and what is
\* not searched for alone may miss its file.
LEMMA SoundIsBackupInv == BackupSound /\ Undisturbed => BackupInv
<1> SUFFICES ASSUME BackupSound, Undisturbed PROVE BackupInv
  OBVIOUS
<1>1. ServicesReturn
  BY DEF BackupSound, Stopped, Copies, ServicesReturn
<1>2. ASSUME NEW s \in {local, remote} \ {NoSnapshot}, s.quiet \/ accidents = 0
      PROVE  Verifies(s)
  BY <1>2 DEF BackupSound, StagedSound, Kept, Whole, Verifies
<1>3. Active(life) \subseteq file \cap points /\ Expected(life) \ file \subseteq Candidates
  BY Types DEF BackupSound, ContentSound, Active, Expected, Candidates, Lives
<1>4. LiveConsistent
  BY <1>3 DEF Undisturbed, Missing, LiveConsistent, LiveVerifies
<1> QED
  BY <1>1, <1>2, <1>4 DEF BackupSound, BackupInv, EverySnapshotRestores

\* Whatever happens to the script and to the collection, whether the services could be
\* stopped and started or not: a snapshot that was taken of stopped services restores to a
\* state that verify_restore accepts, every stored one is such a snapshot until something
\* goes wrong, and verify_live has nothing to say of what is active.
THEOREM SnapshotsRestore ==
    ASSUME MaxAccidents \in Nat
    PROVE  Spec => []BackupInv
<1>1. Init => BackupSound /\ Undisturbed
  BY SoundInit DEF Init, Undisturbed, Missing, Expected, NoSweep
<1>2. BackupSound /\ Undisturbed /\ [Next]_vars => (BackupSound /\ Undisturbed)'
  BY BackupStep, UndisturbedStep
<1> QED
  BY <1>1, <1>2, SoundIsBackupInv, PTL DEF Spec

-------------------------------------------------------------------------------
(* The inductive invariant behind BackupsResume: the nights after an accident *)

\* What no collection is at work on among the missing files.
Leftover == Missing \ sweep.victims

Spent == accidents = MaxAccidents

\* Tonight's backup is still to come, or on its way.
Unfinished == "backup" \in due \/ script # "idle"

\* A collection begins after the backup of the night has begun and ends before the next
\* night; next to the copies it runs only in a worker that was left running.
Timetable ==
    /\ sweep.at = "idle" => sweep.victims = {}
    /\ sweep.at # "idle" => due = {} /\ age <= 1 /\ (script \in Copies => Spent)
    /\ "backup" \in due => script = "idle" /\ "maintenance" \in due

\* A night without a backup needs an accident, and the next one finds every file in place.
NightsSound ==
    /\ age # Never - 1
    /\ age = 1 => Unfinished \/ Spent
    /\ age = 2 => Spent /\ Missing = {} /\ sweep.at = "idle" /\ Unfinished

\* What an interrupted collection leaves behind makes one backup fail; the collection of
\* the same night is still permitted and takes it up.
MadeUpFor ==
    Leftover # {} =>
        /\ Spent /\ sweep.at = "idle" /\ age <= 1 /\ up \cup quiesced = Services
        /\ \/ due = {} /\ (script = "idle" => age = 0)
              /\ script \in {"idle", "store", "upload", "mark"}
           \/ due = {"backup", "maintenance"} /\ age = 1 /\ script = "idle"
           \/ due = {"maintenance"} /\ age = 1 /\ script \in {"dump", "manifest", "idle"}

Resuming == Timetable /\ NightsSound /\ MadeUpFor

-------------------------------------------------------------------------------

\* Nothing is missing before the first upload.
LEMMA ResumingInit == Init => Resuming
  BY DEF Init, Spent, Resuming, Timetable, NightsSound, MadeUpFor, Missing, Leftover, Expected, Never,
         NoSweep

\* The services leave the nights as they are.
LEMMA WorkResumes ==
    ASSUME BackupSound, Resuming, NEW v \in Versions, Work(v)
    PROVE  Resuming'
<1>1. UNCHANGED <<up, script, quiesced, age, due, sweep, accidents>>
  BY DEF Work, StoreFile, Accept, StageRows, FailJob, IndexPoints, Activate, Becomes, Serving
<1>2. Missing' = Missing
  BY WorkKeepsFiles
<1> QED
  BY <1>1, <1>2 DEF Resuming, Timetable, NightsSound, MadeUpFor, Leftover, Unfinished, Spent

\* The script runs to its mark unless an accident or a missing file ends it.
LEMMA ScriptResumes ==
    ASSUME MaxAccidents \in 0..1, BackupSound, Resuming, Script \/ Breaks \/ Restart
    PROVE  Resuming'
<1>1. UNCHANGED <<life, file, points, sweep>>
  BY DEF Script, Breaks, Restart, Quiesce, Dump, Manifest, ManifestFails, Archive, Snapshot,
         StartServices, Store, Upload, Mark, Cleanup, Copying, content
<1>2. Missing' = Missing /\ Leftover' = Leftover
  BY <1>1 DEF Missing, Leftover, Expected
<1>3. /\ script \in Steps /\ age \in 0..Never /\ accidents \in 0..MaxAccidents
      /\ up \subseteq Services /\ quiesced \subseteq Services
      /\ due \subseteq {"backup", "maintenance"} /\ Leftover \subseteq Missing
  BY Types DEF BackupSound, Leftover
<1>4. ~(Spent /\ Accident) /\ (Spent /\ UNCHANGED accidents => Spent')
      /\ (Accident => Spent')
  BY <1>3 DEF Spent, Accident
<1>5. CASE Quiesce
  <2>1. /\ script = "idle" /\ "backup" \in due /\ due' = due \ {"backup"} /\ script' = "dump"
        /\ UNCHANGED age /\ (Accident \/ UNCHANGED accidents)
        /\ Spent => up' \cup quiesced' = up \cup quiesced
    BY <1>3, <1>4, <1>5 DEF Quiesce, BackupSound, Stopped, Copies
  <2>2. Timetable' /\ NightsSound'
    BY <1>1, <1>2, <1>4, <2>1 DEF Resuming, Timetable, NightsSound, Unfinished
  <2>3. MadeUpFor'
    BY <1>1, <1>2, <1>3, <1>4, <2>1 DEF Resuming, MadeUpFor
  <2> QED
    BY <2>2, <2>3 DEF Resuming
<1>6. CASE Dump \/ Manifest \/ Archive \/ Snapshot \/ StartServices
  <2>1. /\ script \in Copies /\ script' \notin {"idle"} /\ script' \in {"store"} \cup Copies
        /\ script = "dump" => script' = "manifest"
        /\ script = "manifest" => Missing = {}
        /\ UNCHANGED <<due, age, accidents>>
        /\ up' \cup quiesced' = up \cup quiesced
    BY <1>6 DEF Dump, Manifest, Archive, Snapshot, StartServices, Copying, Copies, Missing
  <2>2. Timetable' /\ NightsSound'
    BY <1>1, <1>2, <2>1 DEF Resuming, Timetable, NightsSound, Unfinished, Spent, Copies
  <2>3. MadeUpFor'
    BY <1>1, <1>2, <1>3, <2>1 DEF Resuming, MadeUpFor, Spent, Copies
  <2> QED
    BY <2>2, <2>3 DEF Resuming
<1>7. CASE Store \/ Upload \/ Mark
  <2>1. /\ \/ script = "store" /\ script' = "upload" /\ age' = age
           \/ script = "upload" /\ script' = "mark" /\ age' = age
           \/ script = "mark" /\ script' = "idle" /\ age' = 0
        /\ UNCHANGED <<up, quiesced, due, accidents>>
    BY <1>7 DEF Store, Upload, Mark, Copying
  <2>2. Timetable' /\ NightsSound'
    BY <1>1, <1>2, <1>3, <2>1
       DEF Resuming, Timetable, NightsSound, Unfinished, Spent, Copies, Never
  <2>3. MadeUpFor'
    BY <1>1, <1>2, <1>3, <2>1 DEF Resuming, MadeUpFor, Spent, Copies
  <2> QED
    BY <2>2, <2>3 DEF Resuming
<1>8. CASE ManifestFails
  <2>1. /\ script = "manifest" /\ script' = "idle" /\ Missing # {} /\ UNCHANGED <<due, age>>
        /\ Accident \/ UNCHANGED accidents
        /\ Spent => up' \cup quiesced' = up \cup quiesced
    BY <1>4, <1>8 DEF ManifestFails, Cleanup, Missing, content
  <2>2. Spent /\ Spent'
    BY <1>3, <1>4, <2>1 DEF Resuming, Timetable, MadeUpFor, Leftover, Copies
  <2>3. Timetable' /\ NightsSound'
    BY <1>1, <1>2, <1>3, <2>1, <2>2 DEF Resuming, Timetable, NightsSound, Copies
  <2>4. MadeUpFor'
    BY <1>1, <1>2, <1>3, <2>1, <2>2 DEF Resuming, MadeUpFor
  <2> QED
    BY <2>3, <2>4 DEF Resuming
<1>9. CASE Breaks
  <2>1. /\ ~Spent /\ Spent' /\ script # "idle" /\ script' = "idle" /\ UNCHANGED <<due, age>>
    BY <1>4, <1>9 DEF Breaks, Cleanup, content
  <2>2. Timetable' /\ NightsSound' /\ MadeUpFor'
    BY <1>1, <1>2, <1>3, <2>1
       DEF Resuming, Timetable, NightsSound, MadeUpFor, Unfinished, Copies
  <2> QED
    BY <2>2 DEF Resuming
<1>10. CASE Restart
  <2>1. UNCHANGED <<script, age, due, accidents>> /\ up' \cup quiesced' = Services
    BY <1>3, <1>10 DEF Restart
  <2> QED
    BY <1>1, <1>2, <2>1 DEF Resuming, Timetable, NightsSound, MadeUpFor, Unfinished, Spent
<1> QED
  BY <1>5, <1>6, <1>7, <1>8, <1>9, <1>10 DEF Script

\* A collection takes every candidate, so also what an interrupted one left; what it has
\* marked is no longer looked for.
LEMMA MaintenanceResumes ==
    ASSUME MaxAccidents \in 0..1, BackupSound, Resuming, Maintenance
    PROVE  Resuming'
<1>1. /\ life \in Lives /\ file \in SUBSET Versions /\ ContentSound
      /\ due \subseteq {"backup", "maintenance"} /\ age \in 0..Never
      /\ sweep \in [at : {"idle", "points", "files"}, victims : SUBSET Versions]
  BY Types DEF BackupSound
<1>2. UNCHANGED <<up, script, quiesced, age, accidents>> /\ (script \in Copies => Spent)
  <2>1. UNCHANGED <<up, script, quiesced, age, accidents>> /\ up # {}
    BY DEF Maintenance, Maintain, DeletePoints, DeleteFile, MarkCollected, Sweeping
  <2>2. accidents \in 0..MaxAccidents
    BY Types DEF BackupSound
  <2> QED
    BY <2>1, <2>2 DEF BackupSound, Stopped, Spent
<1>3. CASE Maintain
  <2>1. /\ due' = {} /\ due = {"maintenance"} /\ UNCHANGED <<life, file>>
        /\ sweep' = IF BackupRecent /\ Candidates # {}
                    THEN [at |-> "points", victims |-> Candidates] ELSE NoSweep
    BY <1>1, <1>3 DEF Maintain, content
  <2>2. Missing \subseteq Candidates /\ Missing' = Missing
    BY <1>1, <2>1 DEF Missing, Expected, Candidates, ContentSound, Lives
  <2>3. sweep.at = "idle" /\ sweep.victims = {}
    BY <1>1, <2>1 DEF Resuming, Timetable
  <2>4. CASE BackupRecent /\ Candidates # {}
    <3>1. sweep'.at = "points" /\ sweep'.victims = Candidates /\ age <= 1
      BY <2>1, <2>4 DEF BackupRecent
    <3>2. Timetable' /\ NightsSound'
      BY <1>1, <1>2, <2>1, <2>2, <3>1
         DEF Resuming, Timetable, NightsSound, Unfinished, Spent
    <3>3. MadeUpFor'
      BY <2>2, <3>1 DEF MadeUpFor, Leftover
    <3> QED
      BY <3>2, <3>3 DEF Resuming
  <2>5. CASE ~(BackupRecent /\ Candidates # {})
    <3>1. sweep'.at = "idle" /\ sweep'.victims = {}
      BY <2>1, <2>5 DEF NoSweep
    <3>2. Missing = {}
      <4>1. CASE Candidates = {}
        BY <2>2, <4>1
      <4>2. CASE ~(age <= 1)
        BY <2>3, <4>2 DEF Resuming, MadeUpFor, Leftover
      <4> QED
        BY <2>5, <4>1, <4>2 DEF BackupRecent
    <3>3. Timetable' /\ NightsSound'
      BY <1>1, <1>2, <2>1, <2>2, <2>3, <3>1, <3>2
         DEF Resuming, Timetable, NightsSound, Unfinished, Spent
    <3>4. MadeUpFor'
      BY <2>2, <3>2 DEF MadeUpFor, Leftover
    <3> QED
      BY <3>3, <3>4 DEF Resuming
  <2> QED
    BY <2>4, <2>5
<1>4. CASE ~Maintain
  <2>1. /\ sweep.at # "idle" /\ due = {} /\ due' = {} /\ age <= 1
    BY <1>4 DEF Maintenance, DeletePoints, DeleteFile, MarkCollected, Resuming, Timetable
  <2>2. Leftover = {}
    BY <2>1 DEF Resuming, MadeUpFor
  <2>3. Leftover' = {} /\ (sweep'.at = "idle" => sweep'.victims = {})
    <3>1. CASE DeletePoints
      <4>1. sweep'.at = "files" /\ sweep'.victims = sweep.victims /\ UNCHANGED <<life, file>>
        BY <1>1, <3>1 DEF DeletePoints
      <4> QED
        BY <2>2, <4>1 DEF Leftover, Missing, Expected
    <3>2. CASE \E v \in Versions : DeleteFile(v)
      <4>1. PICK v \in sweep.victims : file' = file \ {v} /\ UNCHANGED <<life, sweep>>
        BY <3>2 DEF DeleteFile
      <4> QED
        BY <2>1, <2>2, <4>1 DEF Leftover, Missing, Expected
    <3>3. CASE MarkCollected
      <4>1. /\ sweep' = NoSweep /\ file' = file
            /\ life' = [v \in Versions |->
                          IF v \in sweep.victims THEN "collected" ELSE life[v]]
        BY <3>3 DEF MarkCollected
      <4> QED
        BY <2>2, <4>1 DEF Leftover, Missing, Expected, NoSweep
    <3> QED
      BY <1>4, <3>1, <3>2, <3>3 DEF Maintenance
  <2>4. Timetable' /\ MadeUpFor'
    BY <1>2, <2>1, <2>3 DEF Timetable, MadeUpFor, Spent
  <2>5. NightsSound'
    BY <1>1, <1>2, <2>1 DEF Resuming, NightsSound, Unfinished, Spent, Never
  <2> QED
    BY <2>4, <2>5 DEF Resuming
<1> QED
  BY <1>3, <1>4

\* A night begins when the last one is over; an accident is the only one.
LEMMA NightResumes ==
    ASSUME MaxAccidents \in 0..1, BackupSound, Resuming, Night \/ Interrupted \/ Missed
    PROVE  Resuming'
<1>1. /\ UNCHANGED <<life, file, up, quiesced, script>> /\ Missing' = Missing
      /\ age \in 0..Never /\ accidents \in 0..MaxAccidents
      /\ sweep \in [at : {"idle", "points", "files"}, victims : SUBSET Versions]
  BY Types DEF Night, Interrupted, Missed, content, Missing, Expected, BackupSound
<1>2. CASE Night
  <2>1. /\ due = {} /\ script = "idle" /\ sweep.at = "idle" /\ UNCHANGED <<sweep, accidents>>
        /\ due' = {"backup", "maintenance"}
        /\ age' = IF age < Never - 1 THEN age + 1 ELSE age
    BY <1>2 DEF Night
  <2>2. sweep.victims = {} /\ Leftover = Missing /\ Leftover' = Missing
    BY <1>1, <2>1 DEF Resuming, Timetable, Leftover
  <2>3. Timetable' /\ (age = 1 => Spent) /\ age \in {0, 1, Never} /\ ~Unfinished
    BY <1>1, <2>1, <2>2 DEF Resuming, Timetable, NightsSound, Unfinished, Never
  <2>4. age = 1 => Missing = {}
    BY <2>1, <2>2 DEF Resuming, MadeUpFor
  <2>5. NightsSound'
    BY <1>1, <2>1, <2>3, <2>4 DEF NightsSound, Unfinished, Spent, Never
  <2>6. MadeUpFor'
    BY <1>1, <2>1, <2>2, <2>3 DEF Resuming, MadeUpFor, Spent, Never
  <2> QED
    BY <2>3, <2>5, <2>6 DEF Resuming
<1>3. CASE Interrupted
  <2>1. /\ sweep.at # "idle" /\ sweep'.at = "idle" /\ sweep'.victims = {}
        /\ UNCHANGED <<due, age>> /\ ~Spent /\ Spent' /\ accidents = 0
    BY <1>1, <1>3 DEF Interrupted, Accident, NoSweep, Spent
  <2>2. due = {} /\ age <= 1 /\ script \notin Copies
    BY <2>1 DEF Resuming, Timetable
  <2>3. script \in {"idle", "store", "upload", "mark"} /\ up \cup quiesced = Services
    BY <2>1, <2>2, Types DEF BackupSound, Stopped, Steps, Copies
  <2>4. script = "idle" => age = 0
    BY <1>1, <2>1, <2>2 DEF Resuming, NightsSound, Unfinished, Never
  <2>5. Timetable' /\ NightsSound'
    BY <1>1, <2>1, <2>2 DEF Timetable, NightsSound, Never
  <2>6. MadeUpFor'
    BY <1>1, <2>1, <2>2, <2>3, <2>4 DEF MadeUpFor
  <2> QED
    BY <2>5, <2>6 DEF Resuming
<1>4. CASE Missed
  <2>1. /\ due = {"maintenance"} /\ due' = {} /\ UNCHANGED <<age, sweep>>
        /\ \/ ~Spent /\ Spent'
           \/ "worker" \notin up \cup quiesced /\ UNCHANGED accidents
    BY <1>1, <1>4 DEF Missed, Accident, Spent
  <2>2. Leftover = {} /\ Leftover' = {} /\ sweep.at = "idle"
    BY <1>1, <2>1 DEF Resuming, Timetable, MadeUpFor, Leftover, Services
  <2>3. NightsSound'
    BY <1>1, <2>1 DEF Resuming, NightsSound, Unfinished, Spent
  <2> QED
    BY <1>1, <2>1, <2>2, <2>3 DEF Resuming, Timetable, MadeUpFor
<1> QED
  BY <1>2, <1>3, <1>4

LEMMA ResumeStep ==
    MaxAccidents \in 0..1 /\ BackupSound /\ Resuming /\ [Next]_vars => Resuming'
<1> SUFFICES ASSUME MaxAccidents \in 0..1, BackupSound, Resuming, [Next]_vars PROVE Resuming'
  OBVIOUS
<1>1. CASE UNCHANGED vars
  BY <1>1 DEF vars, content, Resuming, Timetable, NightsSound, MadeUpFor, Missing, Leftover,
              Expected, Spent, Unfinished
<1> QED
  BY <1>1, WorkResumes, ScriptResumes, MaintenanceResumes, NightResumes DEF Next

\* Whatever is accepted, published or collected, one accident of the script or of the
\* maintenance never costs more than one night's backup, so that garbage collection stays
\* permitted and the backups go on.
THEOREM OneAccidentOneNight ==
    ASSUME MaxAccidents \in 0..1
    PROVE  Spec => []BackupsResume
<1>1. Init => BackupSound /\ Resuming
  BY SoundInit, ResumingInit
<1>2. BackupSound /\ Resuming /\ [Next]_vars => (BackupSound /\ Resuming)'
  BY BackupStep, ResumeStep
<1>3. BackupSound /\ Resuming => BackupsResume
  BY DEF Resuming, NightsSound, BackupsResume
<1> QED
  BY <1>1, <1>2, <1>3, PTL DEF Spec

================================================================================
