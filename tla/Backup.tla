--------------------------------- MODULE Backup ---------------------------------
(***************************************************************************)
(* The nightly backup, deploy/backup.sh and operations/backup.py, next to  *)
(* what it copies and to the nightly maintenance, operations/              *)
(* maintenance.py, whose garbage collection it permits or forbids.         *)
(*                                                                         *)
(* One document stands for the content.  A backup copies rows, raw files   *)
(* and index points one after the other, so it first stops the services    *)
(* that it finds running, and starts those again; it refuses to start from *)
(* a state in which a raw file is missing; and garbage collection, which   *)
(* deletes raw files before it marks their rows, refuses to run when the   *)
(* last uploaded backup is more than a night old.                          *)
(***************************************************************************)
EXTENDS Naturals, FiniteSets

CONSTANTS
    Versions,       \* versions of the document
    NoSnapshot,
    MaxAccidents    \* bound on failed scripts, interrupted and missed maintenance

VARIABLES
    life,           \* life[v]: the row of v and its chunks
    file, points,   \* the versions with a raw file, and with their index points
    up,             \* the services that run
    script,         \* the next step of backup.sh
    quiesced,       \* quiesced_services: those that it stopped and has to start
    staged,         \* the staging directory; quiet: nothing ran when its copies began
    local, remote,  \* the latest snapshot of the repository and of its copy
    age,            \* nights since last-success.json was written
    due,            \* what is still to be started tonight
    sweep,          \* the garbage collection at work
    accidents

content == <<life, file, points>>
vars == <<content, up, script, quiesced, staged, local, remote, age, due, sweep, accidents>>

Services == {"backend", "worker"}

Nothing == [quiet |-> FALSE, dump |-> [v \in Versions |-> "none"],
            counted |-> [v \in Versions |-> "none"], files |-> {}, points |-> {}]
Never == 4      \* no backup yet; Never - 1 stands for that many nights and more
NoSweep == [at |-> "idle", victims |-> {}]

TypeOK ==
    LET Lives == [Versions -> {"none", "pending", "staged", "active", "superseded", "failed",
                               "collected"}]
        Snapshots == [quiet : BOOLEAN, dump : Lives, counted : Lives,
                      files : SUBSET Versions, points : SUBSET Versions]
    IN  /\ life \in Lives
        /\ file \in SUBSET Versions /\ points \in SUBSET Versions
        /\ up \subseteq Services /\ quiesced \subseteq Services
        /\ script \in {"idle", "dump", "manifest", "archive", "snapshot", "start", "store",
                       "upload", "mark"}
        /\ staged \in Snapshots
        /\ {local, remote} \subseteq Snapshots \cup {NoSnapshot}
        /\ age \in 0..Never
        /\ due \subseteq {"backup", "maintenance"}
        /\ sweep \in [at : {"idle", "points", "files"}, victims : SUBSET Versions]
        /\ accidents \in 0..MaxAccidents

Init ==
    /\ life = [v \in Versions |-> "none"]
    /\ file = {} /\ points = {}
    /\ up = Services
    /\ script = "idle" /\ quiesced = {}
    /\ staged = Nothing
    /\ local = NoSnapshot /\ remote = NoSnapshot
    /\ age = Never
    /\ due = {}
    /\ sweep = NoSweep
    /\ accidents = 0

Accident == accidents < MaxAccidents /\ accidents' = accidents + 1

-------------------------------------------------------------------------------
(* The services.  An upload moves the file into place before its row commits; the worker *)
(* does the rest.                                                                        *)

Serving ==
    UNCHANGED <<up, script, quiesced, staged, local, remote, age, due, sweep, accidents>>

StoreFile(v) ==
    /\ "backend" \in up /\ life[v] = "none" /\ v \notin file
    /\ file' = file \cup {v}
    /\ UNCHANGED <<life, points>> /\ Serving

Becomes(v, service, from, to) ==
    /\ service \in up /\ life[v] \in from
    /\ life' = [life EXCEPT ![v] = to]
    /\ UNCHANGED <<file, points>> /\ Serving

Accept(v) == v \in file /\ Becomes(v, "backend", {"none"}, "pending")
StageRows(v) == Becomes(v, "worker", {"pending"}, "staged")
FailJob(v) == Becomes(v, "worker", {"pending", "staged"}, "failed")

IndexPoints(v) ==
    /\ "worker" \in up /\ life[v] = "staged" /\ v \notin points
    /\ points' = points \cup {v}
    /\ UNCHANGED <<life, file>> /\ Serving

Activate(v) ==
    /\ "worker" \in up /\ life[v] = "staged" /\ v \in points
    /\ life' = [w \in Versions |-> IF w = v THEN "active"
                                   ELSE IF life[w] = "active" THEN "superseded" ELSE life[w]]
    /\ UNCHANGED <<file, points>> /\ Serving

-------------------------------------------------------------------------------
(* A night: the timer starts the script at 02:15, the worker its cron job at 03:15. *)

Night ==
    /\ due = {} /\ script = "idle" /\ sweep.at = "idle"
    /\ due' = {"backup", "maintenance"}
    /\ age' = IF age < Never - 1 THEN age + 1 ELSE age
    /\ UNCHANGED <<content, up, script, quiesced, staged, local, remote, sweep, accidents>>

Copying == UNCHANGED <<content, age, due, sweep, accidents>>

\* Mutant: the copies are taken next to the running services.
QuiesceNothing ==
    /\ script = "idle" /\ "backup" \in due
    /\ due' = due \ {"backup"}
    /\ script' = "dump" /\ staged' = Nothing
    /\ UNCHANGED <<content, up, quiesced, local, remote, age, sweep, accidents>>

\* The services that docker compose ps reports are stopped.  When that command or its filter
\* fails the condition is false, and a service that runs is left running.
Quiesce ==
    /\ script = "idle" /\ "backup" \in due
    /\ due' = due \ {"backup"}
    /\ \E seen \in SUBSET up :
          /\ quiesced' = seen /\ up' = up \ seen
          /\ IF seen = up THEN UNCHANGED accidents ELSE Accident
    /\ staged' = [Nothing EXCEPT !.quiet = up' = {}]
    /\ script' = "dump"
    /\ UNCHANGED <<content, local, remote, age, sweep>>

\* backup-postgres: pg_dump sees one state of the database.
Dump ==
    /\ script = "dump"
    /\ staged' = [staged EXCEPT !.dump = life]
    /\ script' = "manifest"
    /\ UNCHANGED <<up, quiesced, local, remote>> /\ Copying

\* The raw files that _file_manifest looks for: those of every row not yet collected.
Expected(rows) == {v \in Versions : rows[v] \notin {"none", "collected"}}

\* backup-prepare: counts, generations and the identity of every raw file, in a read-only
\* transaction of its own.
Manifest ==
    /\ script = "manifest" /\ Expected(life) \subseteq file
    /\ staged' = [staged EXCEPT !.counted = life]
    /\ script' = "archive"
    /\ UNCHANGED <<up, quiesced, local, remote>> /\ Copying

Archive ==
    /\ script = "archive"
    /\ staged' = [staged EXCEPT !.files = file]
    /\ script' = "snapshot"
    /\ UNCHANGED <<up, quiesced, local, remote>> /\ Copying

Snapshot ==
    /\ script = "snapshot"
    /\ staged' = [staged EXCEPT !.points = points]
    /\ script' = "start"
    /\ UNCHANGED <<up, quiesced, local, remote>> /\ Copying

StartServices ==
    /\ script = "start"
    /\ up' = up \cup quiesced /\ quiesced' = {} /\ script' = "store"
    /\ UNCHANGED <<staged, local, remote>> /\ Copying

\* restic backup, check, forget
Store ==
    /\ script = "store"
    /\ local' = staged /\ script' = "upload"
    /\ UNCHANGED <<up, quiesced, staged, remote>> /\ Copying

\* rclone sync and check
Upload ==
    /\ script = "upload"
    /\ remote' = local /\ script' = "mark"
    /\ UNCHANGED <<up, quiesced, staged, local>> /\ Copying

Mark ==
    /\ script = "mark"
    /\ age' = 0 /\ script' = "idle" /\ staged' = Nothing
    /\ UNCHANGED <<content, up, quiesced, local, remote, due, sweep, accidents>>

\* cleanup(), the trap on EXIT: the services that were stopped are started again, a failure
\* of which is ignored, and the staging directory is removed.
Cleanup(started) ==
    /\ up' = up \cup started /\ quiesced' = {}
    /\ script' = "idle" /\ staged' = Nothing
    /\ UNCHANGED <<content, local, remote, age, due, sweep>>

\* prepare_backup raises: a raw file is missing.
ManifestFails ==
    /\ script = "manifest" /\ ~(Expected(life) \subseteq file)
    /\ \E started \in SUBSET quiesced :
          /\ Cleanup(started)
          /\ IF started = quiesced THEN UNCHANGED accidents ELSE Accident

\* Any step fails, the script is interrupted, or BACKUP_SKIP_REMOTE ends it before upload.
\* A script that is killed runs no trap; no later one looks for what it staged.
Breaks ==
    /\ script # "idle" /\ Accident
    /\ \E started \in SUBSET quiesced : Cleanup(started)

\* The operators confirm that the services were restarted (docs/incident-runbooks.md).
Restart ==
    /\ script = "idle" /\ up # Services
    /\ up' = Services
    /\ UNCHANGED <<content, script, quiesced, staged, local, remote, age, due, sweep, accidents>>

Script ==
    \/ Quiesce \/ Dump \/ Manifest \/ ManifestFails \/ Archive \/ Snapshot \/ StartServices
    \/ Store \/ Upload \/ Mark

-------------------------------------------------------------------------------
(* run_maintenance and garbage_collect_inactive_versions *)

Sweeping == UNCHANGED <<up, script, quiesced, staged, local, remote, age, accidents>>

\* Mutant: only this night's backup will do.
BackupOfTonight == age = 0

\* has_recent_off_machine_backup: at 03:15 GC_BACKUP_MAX_AGE_HOURS = 36 admits the backup
\* of this night and of the last one.
BackupRecent == age <= 1

Candidates == {v \in Versions : life[v] \in {"failed", "superseded"}}

Maintain ==
    /\ "worker" \in up /\ "maintenance" \in due /\ "backup" \notin due
    /\ due' = due \ {"maintenance"}
    /\ sweep' = IF BackupRecent /\ Candidates # {}
                THEN [at |-> "points", victims |-> Candidates] ELSE NoSweep
    /\ UNCHANGED content /\ Sweeping

DeletePoints ==
    /\ "worker" \in up /\ sweep.at = "points"
    /\ points' = points \ sweep.victims
    /\ sweep' = [sweep EXCEPT !.at = "files"]
    /\ UNCHANGED <<life, file, due>> /\ Sweeping

DeleteFile(v) ==
    /\ "worker" \in up /\ sweep.at = "files" /\ v \in sweep.victims \cap file
    /\ file' = file \ {v}
    /\ UNCHANGED <<life, points, due, sweep>> /\ Sweeping

MarkCollected ==
    /\ "worker" \in up /\ sweep.at = "files" /\ sweep.victims \cap file = {}
    /\ life' = [v \in Versions |-> IF v \in sweep.victims THEN "collected" ELSE life[v]]
    /\ sweep' = NoSweep
    /\ UNCHANGED <<file, points, due>> /\ Sweeping

\* The index or the database is gone, or the worker is killed.
Interrupted ==
    /\ sweep.at # "idle" /\ sweep' = NoSweep /\ Accident
    /\ UNCHANGED <<content, up, script, quiesced, staged, local, remote, age, due>>

\* The worker does not run at 03:15.  It takes no other accident when it was left stopped.
Missed ==
    /\ due = {"maintenance"} /\ due' = {}
    /\ IF "worker" \in up \cup quiesced THEN Accident ELSE UNCHANGED accidents
    /\ UNCHANGED <<content, up, script, quiesced, staged, local, remote, age, sweep>>

Maintenance ==
    \/ Maintain \/ DeletePoints \/ MarkCollected
    \/ \E v \in Versions : DeleteFile(v)

-------------------------------------------------------------------------------

Work(v) ==
    StoreFile(v) \/ Accept(v) \/ StageRows(v) \/ FailJob(v) \/ IndexPoints(v) \/ Activate(v)

Next ==
    \/ \E v \in Versions : Work(v)
    \/ Night \/ Script \/ Breaks \/ Restart \/ Maintenance \/ Interrupted \/ Missed

Spec == Init /\ [][Next]_vars

-------------------------------------------------------------------------------
(* Properties *)

Active(rows) == {v \in Versions : rows[v] = "active"}
Chunked(rows) == {v \in Versions : rows[v] \in {"staged", "active", "superseded"}}

\* verify_restore on the three restored stores.
Verifies(s) ==
    /\ Cardinality({v \in Versions : s.dump[v] # "none"})
         = Cardinality({v \in Versions : s.counted[v] # "none"})
    /\ Cardinality(Chunked(s.dump)) = Cardinality(Chunked(s.counted))
    /\ Active(s.dump) = Active(s.counted)
    /\ Active(s.dump) \subseteq s.files \cap s.points

\* A snapshot that was taken of stopped services restores to a state that verify_restore
\* accepts: rows, files and points were copied one after the other, and nothing changed in
\* between.  Before the first accident every stored snapshot, here or off the machine, is
\* one of these; later one may be stored whose copies do not agree.
EverySnapshotRestores ==
    \A s \in {local, remote} \ {NoSnapshot} : s.quiet \/ accidents = 0 => Verifies(s)

\* Before the first accident a service is down only while the script that stopped it still
\* knows that it has to start it.
ServicesReturn ==
    /\ script = "idle" => quiesced = {}
    /\ accidents = 0 => up \cup quiesced = Services

\* verify_live accepts the running system: the raw file of every row that was not
\* collected is there, and what is active has its points.
LiveVerifies == Expected(life) \subseteq file /\ Active(life) \subseteq points

\* The operators run verify-live after recovery (docs/incident-runbooks.md).  It finds
\* nothing wrong with what is searched, whatever happened; and nothing at all unless a
\* collection stands, or was stopped, between a file and its mark.
LiveConsistent ==
    /\ Active(life) \subseteq file \cap points
    /\ Expected(life) \ file \subseteq Candidates
    /\ accidents = 0 /\ sweep.at # "files" => LiveVerifies

\* backup.sh: the services run again after a script that nothing went wrong with, what was
\* stored of stopped services restores, and the running system is consistent even next to
\* services that could not be stopped or started.
BackupInv == TypeOK /\ ServicesReturn /\ EverySnapshotRestores /\ LiveConsistent

\* Backups and garbage collection do not block one another: a collection that stops
\* between a file and its mark makes the next backup fail, but it is still permitted
\* after that and makes up for it, so one accident costs one night's backup.
BackupsResume == age # Never - 1
================================================================================
