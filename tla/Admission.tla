------------------------------- MODULE Admission -------------------------------
(***************************************************************************)
(* The acceptance of content: upload_document and reindex_document of      *)
(* documents/routes.py up to the commit of a version and its job, with the *)
(* files of ingest/storage.py.  What becomes of an accepted version is     *)
(* Ingestion.                                                              *)
(*                                                                         *)
(* An upload writes a temporary file before it knows whether it may stay.  *)
(* Everything is then decided in one transaction that holds the tenant's   *)
(* row, so calls wait for one another there, but the file system takes no  *)
(* part in the transaction.                                                *)
(***************************************************************************)
EXTENDS Naturals, FiniteSetsExt

CONSTANTS
    Calls, Keys, KeyOf,
    Bodies,         \* [kind : {"new", "version", "reindex"}, size : Nat]
    Document,       \* the one that exists already
    NoCall, NoBody,
    Quota,
    MaxFaults       \* bound on crashed and failing calls

Claims == INSTANCE Idempotency
          WITH Attempts <- Calls, Requests <- Bodies, NoAttempt <- NoCall, NoRequest <- NoBody

VARIABLES
    body,           \* what each call asks for
    call,           \* its step
    answer,         \* the call whose version it is told of
    temporary,      \* calls with a file in .staging
    files,          \* calls with a raw file in its place
    draft,          \* the version a call is about to commit
    versions,       \* the rows of document_versions; none is ever removed
    active,         \* the active version's number of Document, 0 once it is deleted
    claims,         \* the idempotency rows
    pruned,         \* the calls whose completed claims were pruned
    doubtful,       \* calls that saw their commit fail although it had not
    faults

vars == <<body, call, answer, temporary, files, draft, versions, active, claims, pruned,
          doubtful, faults>>

Operations == {"document_upload", "document_reindex"}
Version == [document : Calls \cup {Document}, number : Nat, size : Nat, by : Calls \cup {NoCall}]

TypeOK ==
    /\ body \in [Calls -> Bodies]
    /\ call \in [Calls -> {"new", "staged", "placed", "answered", "refused", "crashed"}]
    /\ answer \in [Calls -> Calls \cup {NoCall}]
    /\ temporary \subseteq Calls /\ files \subseteq Calls
    /\ pruned \subseteq Calls /\ doubtful \subseteq Calls
    /\ versions \subseteq Version
    /\ active \in Nat
    /\ claims \in [Operations \X Keys -> Claims!Row]
    /\ faults \in 0..MaxFaults

First == [document |-> Document, number |-> 1, size |-> 1, by |-> NoCall]

Init ==
    /\ body \in [Calls -> Bodies]
    /\ call = [c \in Calls |-> "new"]
    /\ answer = [c \in Calls |-> NoCall]
    /\ temporary = {} /\ files = {} /\ pruned = {} /\ doubtful = {}
    /\ draft = [c \in Calls |-> First]
    /\ versions = {First} /\ active = 1
    /\ claims = [o \in Operations \X Keys |-> Claims!NoRow]
    /\ faults = 0

Reindex(c) == body[c].kind = "reindex"
Claim(c) == <<IF Reindex(c) THEN "document_reindex" ELSE "document_upload", KeyOf[c]>>
Outcome(c) == Claims!Outcome(claims[Claim(c)], body[c], FALSE)

Fault == faults < MaxFaults /\ faults' = faults + 1

-------------------------------------------------------------------------------

\* stage_upload
Stage(c) ==
    /\ call[c] = "new" /\ ~Reindex(c)
    /\ temporary' = temporary \cup {c}
    /\ call' = [call EXCEPT ![c] = "staged"]
    /\ UNCHANGED <<body, answer, files, draft, versions, active, claims, pruned, doubtful, faults>>

\* Mutant: nobody waits for the tenant's row.
NeverLocked == TRUE

\* SELECT ... FOR UPDATE of the tenant: nobody else is between that and his commit.
Unlocked == \A c \in Calls : call[c] # "placed"

AtLock(c) == call[c] = (IF Reindex(c) THEN "new" ELSE "staged") /\ Unlocked

DocumentOf(c) == IF body[c].kind = "new" THEN c ELSE Document
Size(c) ==
    IF Reindex(c) THEN (CHOOSE v \in versions : v.document = Document /\ v.number = active).size
    ELSE body[c].size

\* Every unit of the size of every version.
Units(rows) == UNION {{v} \X (1..v.size) : v \in rows}
Used == Cardinality(Units(versions))

\* _validate_quota and _load_or_create_document; Document is the only one a call can miss.
Found(c) == body[c].kind = "new" \/ active # 0
Acceptable(c) == Found(c) /\ Used + Size(c) <= Quota

NextNumber(c) == 1 + Max({0} \cup {v.number : v \in {w \in versions : w.document = DocumentOf(c)}})

Accepts(c) == AtLock(c) /\ Outcome(c) \in Claims!Owned /\ Acceptable(c)

\* The claim is new, and the file is moved, or copied, to where the row will say it is.
Place(c) ==
    /\ Accepts(c)
    /\ draft' = [draft EXCEPT
          ![c] = [document |-> DocumentOf(c), number |-> NextNumber(c), size |-> Size(c), by |-> c]]
    /\ temporary' = temporary \ {c}
    /\ files' = files \cup {c}
    /\ call' = [call EXCEPT ![c] = "placed"]
    /\ UNCHANGED <<body, answer, versions, active, claims, pruned, doubtful, faults>>

\* A reindexing looks for the document before it claims.
Replay(c) ==
    /\ AtLock(c) /\ Outcome(c) = "replay" /\ (Reindex(c) => Found(c))
    /\ answer' = [answer EXCEPT ![c] = claims[Claim(c)].response]
    /\ temporary' = temporary \ {c}
    /\ call' = [call EXCEPT ![c] = "answered"]
    /\ UNCHANGED <<body, files, draft, versions, active, claims, pruned, doubtful, faults>>

\* 404, 409, 413 or 425: the transaction is rolled back and the temporary file discarded.
Refuse(c) ==
    /\ AtLock(c)
    /\ \/ Outcome(c) \in {"conflict", "in_progress"}
       \/ Outcome(c) \in Claims!Owned /\ ~Acceptable(c)
       \/ Reindex(c) /\ ~Found(c)
    /\ temporary' = temporary \ {c}
    /\ call' = [call EXCEPT ![c] = "refused"]
    /\ UNCHANGED <<body, answer, files, draft, versions, active, claims, pruned, doubtful, faults>>

\* storage.commit moves the file or leaves it in .staging, where it is discarded; what
\* storage.clone has written when it fails stays, for only its caller was to learn the name.
PlaceFails(c) ==
    /\ Accepts(c) /\ Fault
    /\ temporary' = temporary \ {c}
    /\ files' \in {files} \cup (IF Reindex(c) THEN {files \cup {c}} ELSE {})
    /\ call' = [call EXCEPT ![c] = "refused"]
    /\ UNCHANGED <<body, answer, draft, versions, active, claims, pruned, doubtful>>

\* The version, its job and the completed claim become visible together.
Stored(c) ==
    /\ call[c] = "placed"
    /\ versions' = versions \cup {draft[c]}
    /\ claims' = [claims EXCEPT
          ![Claim(c)] = Claims!CompletedRow(Claims!ClaimedRow(body[c], c), c)]

Commit(c) ==
    /\ Stored(c)
    /\ answer' = [answer EXCEPT ![c] = c]
    /\ call' = [call EXCEPT ![c] = "answered"]
    /\ UNCHANGED <<body, temporary, files, draft, active, pruned, doubtful, faults>>

\* The commit fails: rollback, and the file is deleted again.
RollBack(c) ==
    /\ call[c] = "placed" /\ Fault
    /\ files' = files \ {c}
    /\ call' = [call EXCEPT ![c] = "refused"]
    /\ UNCHANGED <<body, answer, temporary, draft, versions, active, claims, pruned, doubtful>>

\* The database commits, but its acknowledgement is lost: the same handler deletes the file.
DoubtfulCommit(c) ==
    /\ Stored(c) /\ Fault
    /\ files' = files \ {c}
    /\ doubtful' = doubtful \cup {c}
    /\ call' = [call EXCEPT ![c] = "refused"]
    /\ UNCHANGED <<body, answer, temporary, draft, active, pruned>>

\* The process is killed, or the handler cancelled, which no except clause catches.
Crash(c) ==
    /\ call[c] \in {"staged", "placed"} /\ Fault
    /\ call' = [call EXCEPT ![c] = "crashed"]
    /\ UNCHANGED <<body, answer, temporary, files, draft, versions, active, claims, pruned,
                   doubtful>>

\* Ingestion: a later version is activated, or the document deleted, under the same lock.
Activate(v) ==
    /\ Unlocked /\ active # 0
    /\ v.document = Document /\ v.number > active /\ active' = v.number
    /\ UNCHANGED <<body, call, answer, temporary, files, draft, versions, claims, pruned,
                   doubtful, faults>>
Delete ==
    /\ Unlocked /\ active # 0 /\ active' = 0
    /\ UNCHANGED <<body, call, answer, temporary, files, draft, versions, claims, pruned,
                   doubtful, faults>>

\* prune_ephemeral_records: a claim whose time has long passed goes, although a version was
\* admitted under it.
Prune(k) ==
    /\ claims[k].status = "completed"
    /\ claims' = [claims EXCEPT ![k] = Claims!NoRow]
    /\ pruned' = pruned \cup {claims[k].response}
    /\ UNCHANGED <<body, call, answer, temporary, files, draft, versions, active, doubtful,
                   faults>>

Step(c) ==
    \/ Stage(c) \/ Place(c) \/ PlaceFails(c) \/ Replay(c) \/ Refuse(c) \/ Commit(c)
    \/ RollBack(c) \/ DoubtfulCommit(c) \/ Crash(c)

Next ==
    \/ \E c \in Calls : Step(c)
    \/ \E v \in versions : Activate(v)
    \/ Delete
    \/ \E k \in Operations \X Keys : Prune(k)

Spec == Init /\ [][Next]_vars

-------------------------------------------------------------------------------
(* Properties *)

\* Versions are numbered without gaps and never exceed the quota, whatever calls ran
\* side by side.
NumberedWithinQuota ==
    /\ Used <= Quota
    /\ \A d \in {v.document : v \in versions} :
          LET rows == {v \in versions : v.document = d}
          IN  {v.number : v \in rows} = 1..Cardinality(rows)

Authors == {v.by : v \in versions} \ {NoCall}

\* As long as its claim is kept a key admits one version; everybody who is answered under it
\* is told of a version it admitted, and of the same one unless the claim was pruned.
OncePerKey ==
    \A c, d \in Calls : Claim(c) = Claim(d) =>
        /\ {c, d} \subseteq Authors \ pruned => c = d
        /\ call[c] = "answered" =>
              /\ answer[c] \in Authors /\ Claim(answer[c]) = Claim(c)
              /\ call[d] = "answered" /\ {answer[c], answer[d]} \cap pruned = {} =>
                    answer[c] = answer[d]

\* A version has its raw file, except after a commit whose outcome was unknown, and a file
\* without a row is that of a call at work, of one that was killed, or of a reindexing whose
\* copy failed.
FilesAccounted ==
    /\ Authors \ doubtful \subseteq files
    /\ \A c \in files \ Authors :
          call[c] \in {"placed", "crashed"} \/ (call[c] = "refused" /\ Reindex(c))
    /\ \A c \in temporary : call[c] \in {"staged", "crashed"}

\* upload_document, reindex_document: what is accepted is numbered, paid for by the quota,
\* accepted once for a key whose claim is kept, and on the disk.
AdmissionInv == TypeOK /\ NumberedWithinQuota /\ OncePerKey /\ FilesAccounted
================================================================================
