------------------------------- MODULE MCContent -------------------------------
(* The stored content by night and by day.  Five parts that share no state, each  *)
(* explored by itself; part names the one that runs in a behaviour: the garbage   *)
(* collection of a tenant after the first version of docA was published, the      *)
(* backup, the restore drill, the acceptance of uploads, and the text of one      *)
(* uploaded file.                                                                 *)
EXTENDS GarbageCollection, MCIngestion, SequencesExt

CONSTANTS
    Parts,                      \* those that are explored
    NoSnapshot, MaxAccidents,   \* Backup
    MaxTokens, Overlap,         \* Chunking
    Copied,                     \* Backup: the versions
    Saved, Tenants, TenantOf, Restored,     \* Restore: versions and snapshots to be restored
    Calls, Keys, KeyOf, Bodies, Document, NoCall, NoBody, Quota, MaxFaults,   \* Admission
    t1, t2, c1, c2, c3, k1, k2, s1, s2  \* model values

-------------------------------------------------------------------------------
(* Chunking: up to five lines or four rows, with headings at three levels, two of *)
(* them alike, and texts that are repeated, alike, empty and longer than a chunk.  *)

Heading(level, title) == [level |-> level, title |-> title, text |-> <<>>]
Text(title, text) == [level |-> 0, title |-> title, text |-> text]
Body == {Text("A", <<"x">>), Text("A", <<"x", "y", "x", "x", "y", "x">>)}
Lines == {Heading(1, "A"), Heading(1, "a"), Heading(2, "B"), Heading(3, "A")} \cup Body
Rows == Body \cup {Text("a", <<"X">>), Text("B", <<"x">>)}
File(format, lines) == [format |-> format, lines |-> lines]
MCFiles ==
    {File(format, lines) : format \in {"markdown", "docx"}, lines \in BoundedSeq(Lines, 5)} \cup
    {File("jsonl", lines) : lines \in BoundedSeq(Rows, 4)} \cup
    {File("text", lines) : lines \in BoundedSeq(Rows \cup {Text("A", <<>>)}, 4)}
MCLexical ==
    [w \in {"A", "a", "B", "x", "X", "y", "p", "Document", "1", "2", "3", "4"} |->
        CASE w = "A" -> "a" [] w = "X" -> "x" [] OTHER -> w]
-------------------------------------------------------------------------------

(* Backup: two versions, which nothing in it tells apart. *)

ContentSymmetry == Permutations(Copied)
-------------------------------------------------------------------------------
(* Restore: two versions in any state, in two tenants with or without active users, and    *)
(* snapshots in which files and points may be missing and one other thing be wrong.        *)

MCTenantOf == (a1 :> t1) @@ (a2 :> t2)
Searchable(dump) == {v \in {a1, a2} : dump[v] = "active"}
MCSnapshots ==
    UNION {
        {[dump |-> dump, users |-> users, files |-> copies, points |-> found,
          counted |-> IF wrong = "counted" THEN [v \in {a1, a2} |-> "superseded"] ELSE dump,
          generations |-> IF wrong = "generations" THEN Searchable(dump) \ {a1} ELSE Searchable(dump),
          damaged |-> wrong = "damaged"] :
            users \in SUBSET {t1, t2}, found \in SUBSET Searchable(dump),
            wrong \in {"nothing", "counted", "generations", "damaged"},
            copies \in {f \in [{a1, a2} -> {"same", "other", "absent"}] :
                           \A v \in {a1, a2} \ Searchable(dump) : f[v] = "same"}} :
        dump \in [{a1, a2} -> {"none", "active", "superseded"}]}
-------------------------------------------------------------------------------
(* Admission: two calls under one key and a third, among them uploads that fit the quota   *)
(* one by one but not together.                                                            *)

MCKeyOf == (c1 :> k1) @@ (c2 :> k1) @@ (c3 :> k2)
Ask(kind, size) == [kind |-> kind, size |-> size]
MCBodies == {Ask("new", 1), Ask("version", 1), Ask("version", 2), Ask("reindex", 0)}
-------------------------------------------------------------------------------

VARIABLES
    part,
    life, file, backedPoints, up, script, quiesced, staged, local, remote, age, due, night,
    accidents, upload, parsing, blocks, sections, pieces,
    snapshot, emptyAllowed, remoteFlag, drill, rows, users, documents, index, report,
    body, call, answer, temporary, placed, draft, versions, active, claims, pruned, doubtful,
    faults

backupVars == <<life, file, backedPoints, up, script, quiesced, staged, local, remote, age, due,
                night, accidents>>
chunkingVars == <<upload, parsing, blocks, sections, pieces>>
drillVars == <<snapshot, emptyAllowed, remoteFlag, drill, rows, users, documents, index, report>>
admissionVars == <<body, call, answer, temporary, placed, draft, versions, active, claims,
                   pruned, doubtful, faults>>

Backups ==
    INSTANCE Backup WITH Versions <- Copied, points <- backedPoints, sweep <- night
Uploads ==
    INSTANCE Chunking
    WITH Files <- MCFiles, Lexical <- MCLexical, step <- parsing, chunks <- pieces
Drill ==
    INSTANCE Restore
    WITH Versions <- Saved, Snapshots <- Restored, step <- drill
Admitted ==
    INSTANCE Admission WITH files <- placed

ContentInit ==
    /\ part \in Parts
    /\ Published(a1) /\ GcInit
    /\ IF part = "backup" THEN Backups!Init ELSE
          /\ life = "off" /\ file = "off" /\ backedPoints = "off" /\ up = "off"
          /\ script = "off" /\ quiesced = "off" /\ staged = "off" /\ local = "off" /\ remote = "off"
          /\ age = "off" /\ due = "off" /\ night = "off" /\ accidents = "off"
    /\ IF part = "chunking" THEN Uploads!Init ELSE
          /\ upload = "off" /\ parsing = "off" /\ blocks = "off" /\ sections = "off"
          /\ pieces = "off"
    /\ IF part = "restore" THEN Drill!Init ELSE
          /\ snapshot = "off" /\ emptyAllowed = "off" /\ remoteFlag = "off" /\ drill = "off"
          /\ rows = "off" /\ users = "off" /\ documents = "off" /\ index = "off"
          /\ report = "off"
    /\ IF part = "admission" THEN Admitted!Init ELSE
          /\ body = "off" /\ call = "off" /\ answer = "off" /\ temporary = "off"
          /\ placed = "off" /\ draft = "off" /\ versions = "off" /\ active = "off"
          /\ claims = "off" /\ pruned = "off" /\ doubtful = "off" /\ faults = "off"

\* What a step of each part leaves alone.
Collecting ==
    UNCHANGED <<part, backupVars, chunkingVars, drillVars, admissionVars>>
BackingUp ==
    UNCHANGED <<part, allVars, chunkingVars, drillVars, admissionVars>>
CuttingUp ==
    UNCHANGED <<part, allVars, backupVars, drillVars, admissionVars>>
Drilling ==
    UNCHANGED <<part, allVars, backupVars, chunkingVars, admissionVars>>
Admitting ==
    UNCHANGED <<part, allVars, backupVars, chunkingVars, drillVars>>

ContentNext ==
    \/ part = "garbage" /\ Pipeline /\ Collecting
    \/ part = "garbage" /\ Select /\ Collecting
    \/ part = "garbage" /\ DeletePoints /\ Collecting
    \/ part = "garbage" /\ DeleteRows /\ Collecting
    \/ part = "garbage" /\ Abort /\ Collecting
    \/ part = "garbage" /\ (\E v \in Versions : DeleteFile(v)) /\ Collecting
    \/ part = "backup" /\ (\E v \in Copied : Backups!StoreFile(v)) /\ BackingUp
    \/ part = "backup" /\ (\E v \in Copied : Backups!Accept(v)) /\ BackingUp
    \/ part = "backup" /\ (\E v \in Copied : Backups!StageRows(v)) /\ BackingUp
    \/ part = "backup" /\ (\E v \in Copied : Backups!FailJob(v)) /\ BackingUp
    \/ part = "backup" /\ (\E v \in Copied : Backups!IndexPoints(v)) /\ BackingUp
    \/ part = "backup" /\ (\E v \in Copied : Backups!Activate(v)) /\ BackingUp
    \/ part = "backup" /\ (\E v \in Copied : Backups!DeleteFile(v)) /\ BackingUp
    \/ part = "backup" /\ Backups!Night /\ BackingUp
    \/ part = "backup" /\ Backups!Quiesce /\ BackingUp
    \/ part = "backup" /\ Backups!Dump /\ BackingUp
    \/ part = "backup" /\ Backups!Manifest /\ BackingUp
    \/ part = "backup" /\ Backups!ManifestFails /\ BackingUp
    \/ part = "backup" /\ Backups!Archive /\ BackingUp
    \/ part = "backup" /\ Backups!Snapshot /\ BackingUp
    \/ part = "backup" /\ Backups!StartServices /\ BackingUp
    \/ part = "backup" /\ Backups!Store /\ BackingUp
    \/ part = "backup" /\ Backups!Upload /\ BackingUp
    \/ part = "backup" /\ Backups!Mark /\ BackingUp
    \/ part = "backup" /\ Backups!Breaks /\ BackingUp
    \/ part = "backup" /\ Backups!Restart /\ BackingUp
    \/ part = "backup" /\ Backups!Maintain /\ BackingUp
    \/ part = "backup" /\ Backups!DeletePoints /\ BackingUp
    \/ part = "backup" /\ Backups!MarkCollected /\ BackingUp
    \/ part = "backup" /\ Backups!Interrupted /\ BackingUp
    \/ part = "backup" /\ Backups!Missed /\ BackingUp
    \/ part = "chunking" /\ Uploads!Parse /\ CuttingUp
    \/ part = "chunking" /\ Uploads!BuildSections /\ CuttingUp
    \/ part = "chunking" /\ Uploads!Chunk /\ CuttingUp
    \/ part = "chunking" /\ Uploads!Persist /\ CuttingUp
    \/ part = "restore" /\ Drill!Fetch /\ Drilling
    \/ part = "restore" /\ Drill!RestoreRows /\ Drilling
    \/ part = "restore" /\ Drill!RestoreAssets /\ Drilling
    \/ part = "restore" /\ Drill!Verify /\ Drilling
    \/ part = "restore" /\ Drill!Refuse /\ Drilling
    \/ part = "admission" /\ (\E c \in Calls : Admitted!Stage(c)) /\ Admitting
    \/ part = "admission" /\ (\E c \in Calls : Admitted!Place(c)) /\ Admitting
    \/ part = "admission" /\ (\E c \in Calls : Admitted!PlaceFails(c)) /\ Admitting
    \/ part = "admission" /\ (\E c \in Calls : Admitted!Replay(c)) /\ Admitting
    \/ part = "admission" /\ (\E c \in Calls : Admitted!Refuse(c)) /\ Admitting
    \/ part = "admission" /\ (\E c \in Calls : Admitted!Commit(c)) /\ Admitting
    \/ part = "admission" /\ (\E c \in Calls : Admitted!RollBack(c)) /\ Admitting
    \/ part = "admission" /\ (\E c \in Calls : Admitted!DoubtfulCommit(c)) /\ Admitting
    \/ part = "admission" /\ (\E c \in Calls : Admitted!Crash(c)) /\ Admitting
    \/ part = "admission" /\ (\E v \in versions : Admitted!Activate(v)) /\ Admitting
    \/ part = "admission" /\ Admitted!Delete /\ Admitting
    \/ part = "admission" /\ (\E k \in Admitted!Operations \X Keys : Admitted!Prune(k)) /\ Admitting

ContentSpec ==
    ContentInit
    /\ [][ContentNext]_<<part, allVars, backupVars, chunkingVars, drillVars, admissionVars>>

-------------------------------------------------------------------------------
(* The properties of the other parts, each explained in its own module.           *)

\* Backup: short of an accident the services run when no script is at work, and what was
\* stored of stopped services restores to a state that verify_restore accepts.
BackupInv == part = "backup" => Backups!BackupInv

\* Backup: one accident costs one night's backup, and no garbage collection blocks the next.
BackupsResume == part = "backup" => Backups!BackupsResume

\* Chunking: chunks lose no word, and only headings that are alike fail the insertion.
ChunksCover == part = "chunking" => Uploads!ChunksCover

\* Restore: a drill that passes proves that the snapshot serves, and passes if it does.
DrillProves == part = "restore" => Drill!DrillProves

\* Admission: what is accepted is numbered, within the quota, accepted once
\* while its claim is kept, and on the disk.
AdmissionInv == part = "admission" => Admitted!AdmissionInv
================================================================================
