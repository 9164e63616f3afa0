-------------------------------- MODULE Restore --------------------------------
(***************************************************************************)
(* The restore drill: deploy/restore-drill.sh with the commands            *)
(* restore-assets and verify-restore of operations/backup.py.  A stored    *)
(* snapshot is brought into empty stores of its own and verified there.    *)
(*                                                                         *)
(* What a snapshot holds is arbitrary, because the drill is there to tell  *)
(* a good one from a bad one: files and points may be missing, the dump    *)
(* may be of another moment than manifest.json, an artifact may be         *)
(* damaged.  Every version is the only one of its document.                *)
(***************************************************************************)
EXTENDS FiniteSets

CONSTANTS
    Versions, Tenants, TenantOf,
    Snapshots,      \* those to be restored
    NoSnapshot

VARIABLES
    snapshot,       \* the latest one of the repository that is asked
    emptyAllowed,   \* ALLOW_EMPTY_RESTORE
    remoteFlag,     \* RESTORE_FROM_REMOTE
    step,
    rows,           \* the restored database: the state of every version,
    users,          \* and the tenants that have an active user
    documents,      \* the restored raw files
    index,          \* the versions all of whose points are restored
    report

vars == <<snapshot, emptyAllowed, remoteFlag, step, rows, users, documents, index, report>>
input == <<snapshot, emptyAllowed, remoteFlag>>
stores == <<rows, users, documents, index>>

NoRows == [v \in Versions |-> "none"]
NoFiles == [v \in Versions |-> "absent"]
NoReport == [result |-> "none"]

Init ==
    /\ snapshot \in Snapshots \cup {NoSnapshot}
    /\ emptyAllowed \in BOOLEAN
    /\ remoteFlag \in {"unset", "0", "1"}
    /\ step = "fetch"
    /\ rows = NoRows /\ users = {} /\ documents = NoFiles /\ index = {}
    /\ report = NoReport

\* Only a rehearsal on empty data looks at the local repository of its own accord.
Source ==
    IF remoteFlag = "1" \/ (remoteFlag = "unset" /\ ~emptyAllowed)
    THEN "off-machine" ELSE "local"

\* The versions in the manifest of their tenant's active generation; by the invariant
\* ManifestMatchesPointers of Ingestion these are the active ones.
Active(state) == {v \in Versions : state[v] = "active"}

-------------------------------------------------------------------------------

\* restic check and restore of the latest snapshot, of the copy that rclone fetched or of
\* the local repository
Fetch ==
    /\ step = "fetch" /\ snapshot # NoSnapshot
    /\ step' = "rows"
    /\ UNCHANGED <<input, stores, report>>

\* pg_restore into an empty database
RestoreRows ==
    /\ step = "rows"
    /\ rows' = snapshot.dump /\ users' = snapshot.users
    /\ step' = "assets"
    /\ UNCHANGED <<input, documents, index, report>>

\* restore_assets extracts the archive and uploads the index snapshot, once every artifact
\* has the size and the hash that manifest.json names.
RestoreAssets ==
    /\ step = "assets" /\ ~snapshot.damaged
    /\ documents' = snapshot.files /\ index' = snapshot.points
    /\ step' = "verify"
    /\ UNCHANGED <<input, rows, users, report>>

AsCounted ==
    Cardinality({v \in Versions : rows[v] # "none"})
        = Cardinality({v \in Versions : snapshot.counted[v] # "none"})
GenerationsAgree == Active(rows) = snapshot.generations
FilesIdentical == \A v \in Active(rows) : documents[v] = "same"
\* Mutant: one retrievable version is enough.
SomePoints == Active(rows) # {} => Active(rows) \cap index # {}
PointsComplete == Active(rows) \subseteq index
\* _verify_signed_link takes any active version of a tenant with an active user.
LinkOpens == \E v \in Active(rows) : TenantOf[v] \in users /\ documents[v] # "absent"

Verified ==
    /\ AsCounted /\ GenerationsAgree /\ FilesIdentical /\ PointsComplete
    /\ IF Active(rows) = {} THEN emptyAllowed ELSE LinkOpens

\* verify_restore and the report it writes
Verify ==
    /\ step = "verify" /\ Verified
    /\ report' = [result |-> IF Active(rows) # {} THEN "pass" ELSE "pass_with_empty_data",
                  source |-> Source]
    /\ step' = "done"
    /\ UNCHANGED <<input, stores>>

\* The script ends with an error, and cleanup() removes what was restored.
Ends ==
    /\ step' = "failed"
    /\ rows' = NoRows /\ users' = {} /\ documents' = NoFiles /\ index' = {}
    /\ UNCHANGED <<input, report>>

Refuse ==
    /\ \/ step = "fetch" /\ snapshot = NoSnapshot
       \/ step = "assets" /\ snapshot.damaged
       \/ step = "verify" /\ ~Verified
    /\ Ends

Next == Fetch \/ RestoreRows \/ RestoreAssets \/ Verify \/ Refuse

Spec == Init /\ [][Next]_vars

-------------------------------------------------------------------------------

\* What the service needs of the snapshot: everything is of one moment, whole, and every
\* active version can be found and read.
Whole(s) ==
    /\ ~s.damaged
    /\ s.dump = s.counted /\ s.generations = Active(s.dump)
    /\ \A v \in Active(s.dump) : s.files[v] = "same" /\ v \in s.points

\* verify_restore, docs/p11-operations.md:178-186.  A drill that passes has proved, in the
\* stores it restored, that every active version can be found and read by somebody, and
\* without flags it has proved it of the copy off the machine.  A whole snapshot with an
\* active version for an active user is not refused.
DrillProves ==
    /\ report # NoReport =>
          /\ \A v \in Active(snapshot.dump) :
                rows[v] = "active" /\ documents[v] = "same" /\ v \in index
          /\ ~snapshot.damaged /\ snapshot.generations = Active(rows)
          /\ (~emptyAllowed => \E v \in Active(rows) : TenantOf[v] \in users)
          /\ (remoteFlag = "unset" /\ ~emptyAllowed => report.source = "off-machine")
    /\ step = "failed" /\ snapshot # NoSnapshot =>
          \/ ~Whole(snapshot)
          \/ ~\E v \in Active(snapshot.dump) : TenantOf[v] \in snapshot.users
================================================================================
