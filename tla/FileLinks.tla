-------------------------------- MODULE FileLinks --------------------------------
(***************************************************************************)
(* Ways back to a source: signed links to raw files                        *)
(* (documents/files.py) and previews of the chunks that an answer cites    *)
(* (sessions/routes.py, CitationPreview.svelte).  Both are handed out once *)
(* and used later, when the document has new versions, is deleted, or is   *)
(* being garbage-collected file first, rows last.                          *)
(*                                                                         *)
(* A behaviour follows one link or one citation: they do not meet.         *)
(***************************************************************************)
EXTENDS Naturals, Sequences, FiniteSets

CONSTANTS
    Docs, Versions, DocOf, Number, NoVersion,   \* see Catalogue
    Pages,        \* pages of a version
    Texts,        \* Texts[v]: the texts of its chunks, at least one
    Packings,     \* what answers are made from: sequences of indexes of chunks, 0 a web page
    MaxOpens      \* how often the preview is opened

VARIABLES
    shown, gone, revision,   \* see Catalogue
    follow,      \* what is followed: "link" or "citation"
    status,      \* the status of a version, "none" before it is ready
    disk,        \* the raw file of a version
    swept,       \* what garbage collection has deleted of it
    enabled,     \* the user is active
    link,        \* the signed link, and how far it is read
    message,     \* the answer: its scope, its sources, and the positions of those it cites
    dialog,      \* the preview of one citation
    request      \* what each opening has asked the server

content == <<shown, gone, revision, status, disk, swept, enabled>>
vars == <<content, follow, link, message, dialog, request>>

Content == INSTANCE Catalogue

Opens == 1 .. MaxOpens
NoLink == [at |-> "none", version |-> NoVersion, page |-> 0, expired |-> FALSE, late |-> FALSE]
NoMessage == [at |-> "none", scope |-> NoVersion, sources |-> <<>>, cited |-> {}]
Closed == [open |-> FALSE, loading |-> FALSE, unavailable |-> FALSE, preview |-> "none", of |-> 0]

TypeOK ==
    /\ status \in [Versions -> {"none", "ready", "active", "superseded", "failed"}]
    /\ disk \in [Versions -> {"absent", "whole", "altered"}]
    /\ swept \in [Versions -> {"kept", "file", "rows"}]
    /\ enabled \in BOOLEAN
    /\ link.at \in {"none", "issued", "checked", "hashed", "served", "gone", "missing", "broken"}
    /\ link.version \in Versions \cup {NoVersion}
    /\ message.at \in {"none", "asked", "answered"}
    /\ dialog.open \in BOOLEAN /\ dialog.loading \in BOOLEAN /\ dialog.unavailable \in BOOLEAN
    /\ DOMAIN request = Opens

Init ==
    /\ Content!Init
    /\ follow \in {"link", "citation"}
    /\ status = [v \in Versions |-> "none"]
    /\ disk = [v \in Versions |-> "absent"]
    /\ swept = [v \in Versions |-> "kept"]
    /\ enabled = TRUE
    /\ link = NoLink /\ message = NoMessage
    /\ dialog = Closed /\ request = [o \in Opens |-> "none"]

-------------------------------------------------------------------------------
(* The life of the documents. *)

Unused == UNCHANGED <<follow, link, message, dialog, request>>

\* Its file is stored and its rows are written: the pages are known.
Ready(v) ==
    /\ status[v] = "none" /\ DocOf[v] \notin gone
    /\ status' = [status EXCEPT ![v] = "ready"]
    /\ disk' = [disk EXCEPT ![v] = "whole"]
    /\ UNCHANGED <<shown, gone, revision, swept, enabled>> /\ Unused

\* Activation; the version it replaces is superseded.
Publish(v) ==
    /\ status[v] = "ready"
    /\ Content!Publish(v)
    /\ status' = [u \in Versions |-> IF u = v THEN "active"
                                     ELSE IF u = shown[DocOf[v]] THEN "superseded"
                                     ELSE status[u]]
    /\ UNCHANGED <<disk, swept, enabled>> /\ Unused

\* A later version was activated first, or indexing fails: _mark_failed.
Fails(v) ==
    /\ status[v] = "ready"
    /\ status' = [status EXCEPT ![v] = "failed"]
    /\ UNCHANGED <<shown, gone, revision, disk, swept, enabled>> /\ Unused

\* tombstone_document
Retire(d) ==
    /\ Content!Retire(d)
    /\ status' = [v \in Versions |-> IF DocOf[v] # d THEN status[v]
                                     ELSE IF status[v] = "ready" THEN "failed"
                                     ELSE IF status[v] = "active" THEN "superseded"
                                     ELSE status[v]]
    /\ UNCHANGED <<disk, swept, enabled>> /\ Unused

\* garbage_collect_inactive_versions: the file, and later the rows together with the stamp.
\* Other documents are published meanwhile, so no manifest protects a version for ever.
Sweep(v) ==
    /\ status[v] \in {"superseded", "failed"} /\ swept[v] # "rows"
    /\ swept' = [swept EXCEPT ![v] = IF @ = "kept" THEN "file" ELSE "rows"]
    /\ disk' = [disk EXCEPT ![v] = "absent"]
    /\ UNCHANGED <<shown, gone, revision, status, enabled>> /\ Unused

Disable ==
    /\ enabled /\ enabled' = FALSE
    /\ UNCHANGED <<shown, gone, revision, status, disk, swept>> /\ Unused

\* The file system loses or changes a file, once, and not while it is being sent.
Damage(v) ==
    /\ disk[v] = "whole" /\ link.at # "hashed"
    /\ \A u \in Versions : disk[u] # "altered"
    /\ disk' = [disk EXCEPT ![v] = "altered"]
    /\ UNCHANGED <<shown, gone, revision, status, swept, enabled>> /\ Unused

-------------------------------------------------------------------------------
(* Signed links.  A link names the version and what is stored of it, the page, the user  *)
(* and the time at which it expires; nobody can make one with other contents.            *)

ReadableVersion(v) == status[v] \in {"ready", "active", "superseded"}
HasPage(v, page) == page <= Pages[v]

\* create_signed_url: the version that is asked for, or else the active one.  It may have
\* been collected already.
Issue(asked, page) ==
    /\ follow = "link" /\ link.at = "none" /\ enabled
    /\ \E d \in Docs \ gone :
          LET v == IF asked = NoVersion THEN shown[d] ELSE asked
          IN  /\ v # NoVersion
              /\ DocOf[v] = d /\ ReadableVersion(v) /\ HasPage(v, page)
              /\ link' = [NoLink EXCEPT !.at = "issued", !.version = v, !.page = page]
    /\ UNCHANGED <<content, follow, message, dialog, request>>

Expire ==
    /\ link.at # "none" /\ ~link.expired
    /\ link' = [link EXCEPT !.expired = TRUE]
    /\ UNCHANGED <<content, follow, message, dialog, request>>

\* The rows that read_signed_file joins.
Bound(v) == enabled /\ DocOf[v] \notin gone /\ ReadableVersion(v)

\* Whether nobody should be given the file any more.
Withdrawn(v) == ~enabled \/ DocOf[v] \in gone \/ link.expired

\* read_signed_file: the token, then the rows.  A link may be used again.
Read ==
    /\ link.at \notin {"none", "checked", "hashed"}
    /\ link' = [link EXCEPT
          !.late = Withdrawn(link.version),
          !.at = IF link.expired THEN "gone"
                 ELSE IF Bound(link.version) /\ HasPage(link.version, link.page) THEN "checked"
                 ELSE "missing"]
    /\ UNCHANGED <<content, follow, message, dialog, request>>

\* _file_identity: the size and the hash of what is on the disk now.
Hash ==
    /\ link.at = "checked"
    /\ link' = [link EXCEPT !.at = IF disk[link.version] = "whole" THEN "hashed" ELSE "missing"]
    /\ UNCHANGED <<content, follow, message, dialog, request>>

\* FileResponse opens the file once more.
Send ==
    /\ link.at = "hashed"
    /\ link' = [link EXCEPT !.at = IF disk[link.version] = "absent" THEN "broken" ELSE "served"]
    /\ UNCHANGED <<content, follow, message, dialog, request>>

-------------------------------------------------------------------------------
(* Citations. *)

\* The scope of a question is resolved once.
Ask ==
    /\ follow = "citation" /\ message.at = "none" /\ enabled
    /\ \E d \in Docs : message' = [NoMessage EXCEPT !.at = "asked", !.scope = shown[d]]
    /\ UNCHANGED <<content, follow, link, dialog, request>>

Page == [type |-> "web", version |-> NoVersion, index |-> 0, text |-> "a page"]
ChunkOf(v, i) == [type |-> "document", version |-> v, index |-> i, text |-> Texts[v][i]]

\* _assistant_metadata: the packed sources by the numbers under which the model saw them,
\* and the citations of the answer.
Metadata(v, packing, cited) ==
    [at |-> "answered", scope |-> v, cited |-> cited,
     sources |-> [n \in DOMAIN packing |->
                     IF packing[n] = 0 THEN Page ELSE ChunkOf(v, packing[n])]]

\* The chunks are read while their rows are there; the web needs none.
Answer ==
    /\ message.at = "asked"
    /\ \E packing \in Packings :
          /\ \A n \in DOMAIN packing :
                packing[n] # 0 =>
                    /\ message.scope # NoVersion
                    /\ packing[n] \in DOMAIN Texts[message.scope]
                    /\ swept[message.scope] # "rows" /\ DocOf[message.scope] \notin gone
          /\ \E cited \in SUBSET DOMAIN packing :
                message' = Metadata(message.scope, packing, cited)
    /\ UNCHANGED <<content, follow, link, dialog, request>>

\* Mutant: only document sources are counted.
ResolvedAmongDocuments(n) ==
    LET documents == SelectSeq(message.sources, LAMBDA s : s.type = "document")
    IN  IF n \in message.cited /\ n \in DOMAIN documents THEN {documents[n]} ELSE {}

\* _resolve_document_source: the source of a citation, if it is a chunk.
Resolved(n) ==
    IF n \in message.cited /\ message.sources[n].type = "document" THEN {message.sources[n]} ELSE {}

\* preview_citation: nothing of a deleted document, nor of a collected version.
Previewed(n) ==
    {s \in Resolved(n) : /\ enabled
                         /\ DocOf[s.version] \notin gone
                         /\ ReadableVersion(s.version)
                         /\ swept[s.version] # "rows"}

\* open.  Another opening takes closing the dialog first.
Open(o, n) ==
    /\ message.at = "answered" /\ n \in message.cited /\ ~dialog.open
    /\ o = Cardinality({p \in Opens : request[p] # "none"}) + 1
    /\ dialog.of \in {0, n}
    /\ dialog' = [Closed EXCEPT !.open = TRUE, !.loading = TRUE, !.of = n]
    /\ request' = [request EXCEPT ![o] = "sent"]
    /\ UNCHANGED <<content, follow, link, message>>

Close ==
    /\ dialog.open
    /\ dialog' = [dialog EXCEPT !.open = FALSE]
    /\ UNCHANGED <<content, follow, link, message, request>>

\* The text is that of the row; an identifier stands for the content of one chunk.
Preview(o) ==
    /\ request[o] = "sent"
    /\ LET found == {Texts[s.version][s.index] : s \in Previewed(dialog.of)}
       IN  \E text \in IF found = {} THEN {"missing"} ELSE found :
              request' = [request EXCEPT ![o] = text]
    /\ UNCHANGED <<content, follow, link, message, dialog>>

Lose(o) ==
    /\ request[o] = "sent"
    /\ request' = [request EXCEPT ![o] = "lost"]
    /\ UNCHANGED <<content, follow, link, message, dialog>>

\* What an opening has asked for arrives, whichever opening is on the screen by now.
Arrive(o) ==
    /\ request[o] \notin {"none", "sent", "done"}
    /\ request' = [request EXCEPT ![o] = "done"]
    /\ dialog' = IF request[o] \in {"missing", "lost"}
                 THEN [dialog EXCEPT !.loading = FALSE, !.unavailable = TRUE]
                 ELSE [dialog EXCEPT !.loading = FALSE, !.preview = request[o]]
    /\ UNCHANGED <<content, follow, link, message>>

-------------------------------------------------------------------------------

Living ==
    \/ \E v \in Versions : Ready(v) \/ Publish(v) \/ Fails(v) \/ Sweep(v) \/ Damage(v)
    \/ \E d \in Docs : Retire(d)
    \/ Disable

Next ==
    \/ Living
    \/ \E v \in Versions \cup {NoVersion}, page \in 0 .. 2 : Issue(v, page)
    \/ Expire \/ Read \/ Hash \/ Send \/ Ask \/ Answer \/ Close
    \/ \E o \in Opens : Preview(o) \/ Lose(o) \/ Arrive(o)
    \/ \E o \in Opens, n \in 1 .. 2 : Open(o, n)

Spec == Init /\ [][Next]_vars

-------------------------------------------------------------------------------
(* Properties *)

\* A link that is used after it has expired, after the document is deleted or the user is
\* disabled gives nothing, and until then it stays good through new versions: it fails only
\* if the file is no longer what it was, or the version never became active.
LinksHold ==
    /\ link.at \in {"checked", "hashed", "served", "broken"} => ~link.late
    /\ link.at = "missing" =>
          \/ Withdrawn(link.version)
          \/ status[link.version] = "failed"
          \/ disk[link.version] # "whole"
    /\ link.at = "broken" => swept[link.version] # "kept"

\* The preview of [Sn] is the text that the model was given as [Sn], or nothing.  It stays
\* there until its version is collected or its document deleted, and a dialog for which
\* nothing is under way has stopped loading.
PreviewsHold ==
    /\ \A o \in Opens : request[o] \notin {"none", "sent", "missing", "lost", "done"} =>
          request[o] = message.sources[dialog.of].text
    /\ dialog.preview # "none" => dialog.preview = message.sources[dialog.of].text
    /\ \A o \in Opens : request[o] = "missing" =>
          LET s == message.sources[dialog.of]
          IN  s.type = "web" \/ ~enabled \/ DocOf[s.version] \in gone \/ swept[s.version] = "rows"
    /\ dialog.of # 0 /\ (\A o \in Opens : request[o] \in {"none", "done"}) =>
          ~dialog.loading /\ (dialog.unavailable \/ dialog.preview # "none")

\* docs/p12-sveltekit.md:66-75: what was handed out leads to exactly its source, or nowhere.
LinksSound == TypeOK /\ LinksHold /\ PreviewsHold
================================================================================
