-------------------------------- MODULE Retrieval --------------------------------
(***************************************************************************)
(* Document retrieval of one tenant: MetadataResolver.resolve              *)
(* (backend/app/rag/scope.py), the cache and the search around it          *)
(* (rag/service.py, rag/retriever.py) and the collections that             *)
(* collections/routes.py edits meanwhile.                                  *)
(*                                                                         *)
(* What ingestion does is taken from Catalogue, which IngestionProofs      *)
(* shows that it implements.  A query reads the tenant, the manifest, the  *)
(* collections, the memberships, the index and the chunks in statements of *)
(* their own at read committed, and shares its result under the revision   *)
(* of the first.                                                           *)
(***************************************************************************)
EXTENDS Naturals, Sequences, FiniteSets

CONSTANTS
    Docs, Versions, DocOf, Number, NoVersion,
    Collections,
    Everything,     \* a question without explicit scope
    Asks,           \* what questions are restricted to: Everything, a document, a collection
    Queries,        \* questions; each is asked once
    Retained,       \* RETAINED_INDEX_GENERATIONS
    MaxRevision     \* bound on the retrieval revision

ASSUME RetrievalAssumption ==
    /\ DocOf \in [Versions -> Docs]
    /\ Number \in [Versions -> Nat]
    /\ NoVersion \notin Versions
    /\ Asks \subseteq {Everything} \cup Docs \cup Collections
    /\ Retained \in Nat \ {0}
    /\ MaxRevision \in Nat \ {0}

VARIABLES
    shown, gone, revision,   \* see Catalogue
    manifests,    \* the manifests of the activated generations, the latest last
    swept,        \* swept[v]: what garbage collection has deleted of v
    shelf,        \* shelf[c]: the collection row
    member,       \* the pairs of document_collections
    checked,      \* the pairs that some request has found active
    deleting,     \* deleting[c]: the memberships that a deletion under way has seen
    query,        \* query[q]: progress of a question
    cache         \* entries of the retrieval cache

content == <<shown, gone, revision, manifests>>
collections == <<shelf, member, checked, deleting>>
vars == <<content, swept, collections, query, cache>>

Content == INSTANCE Catalogue

NotDeleting == [on |-> FALSE, seen |-> {}]

\* must, may and ever are not in the program: what the answer has to have, what it may
\* have, and the collections that were active at some time since the question began.
NoQuery == [pc |-> "new", ask |-> Everything, gen |-> 0, rev |-> 0, docs |-> {},
            active |-> {}, scope |-> {}, out |-> {}, must |-> {}, may |-> {}, ever |-> {}]

QueryType ==
    [pc : {"new", "manifest", "collections", "members", "cache", "search", "hydrate", "store",
           "answer", "done"},
     ask : Asks \cup {Everything}, gen : Nat, rev : Nat, docs : SUBSET Versions,
     active : SUBSET Collections, scope : SUBSET Versions, out : SUBSET Versions,
     must : SUBSET Versions, may : SUBSET Versions, ever : SUBSET Collections]

TypeOK ==
    /\ shown \in [Docs -> Versions \cup {NoVersion}]
    /\ gone \subseteq Docs
    /\ revision \in 1 .. MaxRevision
    /\ manifests \in Seq(SUBSET Versions)
    /\ swept \in [Versions -> {"kept", "points", "rows"}]
    /\ shelf \in [Collections -> {"absent", "active", "deleted"}]
    /\ member \subseteq Docs \X Collections
    /\ checked \subseteq Docs \X Collections
    /\ deleting \in [Collections -> [on : BOOLEAN, seen : SUBSET (Docs \X Collections)]]
    /\ query \in [Queries -> QueryType]
    /\ cache \subseteq [gen : Nat, rev : Nat, ask : Asks, out : SUBSET Versions]

Init ==
    /\ Content!Init
    /\ manifests = <<>>
    /\ swept = [v \in Versions |-> "kept"]
    /\ shelf = [c \in Collections |-> "absent"]
    /\ member = {}
    /\ checked = {}
    /\ deleting = [c \in Collections |-> NotDeleting]
    /\ query = [q \in Queries |-> NoQuery]
    /\ cache = {}

Manifest(g) == IF g = 0 THEN {} ELSE manifests[g]
Active == {c \in Collections : shelf[c] = "active"}

\* A question restricted to a is answered from document d.
Selects(a, d, active, pairs) ==
    \/ a = Everything
    \/ a = d
    \/ a \in active /\ <<d, a>> \in pairs

\* The scope of a question at one instant, and after this step.
Scope(g, a, deleted, active, pairs) ==
    {v \in Manifest(g) : DocOf[v] \notin deleted /\ Selects(a, DocOf[v], active, pairs)}

ScopeNow(g, a) == Scope(g, a, gone, Active, member)
ScopeNext(g, a) == Scope(g, a, gone', Active', member')

Running(q) == query[q].pc \notin {"new", "answer", "done"}

\* What a question may find after this step, if the collections it has read are old.
MayNext(q) ==
    Scope(query[q].gen, query[q].ask, gone', query[q].ever \cup Active', member')

\* The questions under way see the change that this step makes.
Observe ==
    query' = [q \in Queries |->
        IF Running(q)
        THEN [query[q] EXCEPT !.must = @ \cap ScopeNext(query[q].gen, query[q].ask),
                              !.may = @ \cup MayNext(q),
                              !.ever = @ \cup Active']
        ELSE query[q]]

-------------------------------------------------------------------------------
(* Ingestion and garbage collection *)

WithinRevisions == revision < MaxRevision

\* The catalogue changes, and the new generation has a manifest of its own.
Ingest ==
    /\ WithinRevisions
    /\ Content!Next
    /\ manifests' = Append(manifests, {shown'[d] : d \in Docs} \ {NoVersion})
    /\ UNCHANGED <<swept, collections, cache>>
    /\ Observe

\* Mutant: only what is searchable is spared.
SparedVisible == {shown[d] : d \in Docs}

\* The last Retained manifests are spared; the retained ones only ever move on, so it
\* makes no difference that the victims are chosen long before they are deleted.
Spared ==
    UNION {manifests[g] : g \in {h \in DOMAIN manifests : Len(manifests) - h < Retained}}

Published == UNION {manifests[g] : g \in DOMAIN manifests}

\* Points first, rows later.
Sweep(v) ==
    /\ v \in Published \ Spared
    /\ swept[v] # "rows"
    /\ swept' = [swept EXCEPT ![v] = IF @ = "kept" THEN "points" ELSE "rows"]
    /\ UNCHANGED <<content, collections, query, cache>>

-------------------------------------------------------------------------------
(* Collections.  A request checks the collection and then the document without a lock,  *)
(* and may write much later, so any number of requests is under way for a pair that was *)
(* once found active.                                                                   *)

Bump == WithinRevisions /\ revision' = revision + 1 /\ UNCHANGED <<shown, gone, manifests>>

CreateCollection(c) ==
    /\ shelf[c] = "absent"
    /\ shelf' = [shelf EXCEPT ![c] = "active"]
    /\ checked' = checked \cup (Docs \ gone) \X {c}
    /\ Bump
    /\ UNCHANGED <<swept, member, deleting, cache>>
    /\ Observe

\* update_collection; the name means nothing here.
Rename(c) ==
    /\ shelf[c] # "absent"
    /\ Bump
    /\ UNCHANGED <<swept, collections, cache>>
    /\ Observe

\* insert on conflict do nothing.
AddMember(d, c) ==
    /\ <<d, c>> \in checked \ member
    /\ member' = member \cup {<<d, c>>}
    /\ Bump
    /\ UNCHANGED <<swept, shelf, checked, deleting, cache>>
    /\ Observe

\* Mutant: the revision stays.
RemoveMemberQuietly(d, c) ==
    /\ <<d, c>> \in (checked \cap member) \ deleting[c].seen
    /\ member' = member \ {<<d, c>>}
    /\ UNCHANGED <<content, swept, shelf, checked, deleting, cache>>
    /\ Observe

RemoveMember(d, c) ==
    /\ <<d, c>> \in (checked \cap member) \ deleting[c].seen
    /\ member' = member \ {<<d, c>>}
    /\ Bump
    /\ UNCHANGED <<swept, shelf, checked, deleting, cache>>
    /\ Observe

\* upload_document puts a new document on its shelves long before it is searchable.
UploadInto(d, c) ==
    /\ shelf[c] = "active"
    /\ d \notin gone
    /\ \A v \in Published : DocOf[v] # d
    /\ <<d, c>> \notin member
    /\ member' = member \cup {<<d, c>>}
    /\ UNCHANGED <<content, swept, shelf, checked, deleting, cache>>
    /\ Observe

\* delete_collection: the collection row is locked, the memberships of this instant are
\* deleted, and then the bump waits for the tenant row.
DeleteWrites(c) ==
    /\ shelf[c] # "absent"
    /\ ~deleting[c].on
    /\ deleting' = [deleting EXCEPT ![c] =
          [on |-> TRUE, seen |-> {p \in member : p[2] = c}]]
    /\ UNCHANGED <<content, swept, shelf, member, checked, query, cache>>

DeleteCommits(c) ==
    /\ deleting[c].on
    /\ shelf' = [shelf EXCEPT ![c] = "deleted"]
    /\ member' = member \ deleting[c].seen
    /\ deleting' = [deleting EXCEPT ![c] = NotDeleting]
    /\ Bump
    /\ UNCHANGED <<swept, checked, cache>>
    /\ Observe

-------------------------------------------------------------------------------
(* Questions *)

Goto(q, pc) == query' = [query EXCEPT ![q].pc = pc]
End(q) == query' = [query EXCEPT ![q] = [NoQuery EXCEPT !.pc = "done"]]

Answer(q, out) ==
    query' = [query EXCEPT ![q] =
        [NoQuery EXCEPT !.pc = "answer", !.gen = query[q].gen, !.out = out,
                        !.must = query[q].must, !.may = query[q].may]]

\* The tenant row.
Begin(q, a) ==
    LET g == Len(manifests)
    IN  /\ query[q].pc = "new"
        /\ query' = [query EXCEPT ![q] =
              [NoQuery EXCEPT !.pc = "manifest", !.ask = a, !.gen = g, !.rev = revision,
                              !.must = ScopeNow(g, a), !.may = ScopeNow(g, a),
                              !.ever = Active]]
        /\ UNCHANGED <<content, swept, collections, cache>>

\* The manifest, joined with the documents that are not deleted.
ReadManifest(q) ==
    LET docs == {v \in Manifest(query[q].gen) : DocOf[v] \notin gone}
    IN  /\ query[q].pc = "manifest"
        /\ IF query[q].ask \in Docs /\ query[q].ask \notin {DocOf[v] : v \in docs}
           THEN End(q)
           ELSE query' = [query EXCEPT ![q].pc = "collections", ![q].docs = docs]
        /\ UNCHANGED <<content, swept, collections, cache>>

ReadCollections(q) ==
    /\ query[q].pc = "collections"
    /\ IF query[q].ask \in Collections \ Active
       THEN End(q)
       ELSE query' = [query EXCEPT ![q].pc = "members", ![q].active = Active]
    /\ UNCHANGED <<content, swept, collections, cache>>

ReadMembers(q) ==
    /\ query[q].pc = "members"
    /\ query' = [query EXCEPT
          ![q].pc = "cache", ![q].docs = {}, ![q].active = {},
          ![q].scope = {v \in query[q].docs :
                          Selects(query[q].ask, DocOf[v], query[q].active, member)}]
    /\ UNCHANGED <<content, swept, collections, cache>>

\* Mutant: the key names the generation and not the revision.
SameKeyByGeneration(e, q) == e.gen = query[q].gen /\ e.ask = query[q].ask

\* cache_key.
SameKey(e, q) == e.gen = query[q].gen /\ e.rev = query[q].rev /\ e.ask = query[q].ask

CacheHit(q) ==
    /\ query[q].pc = "cache"
    /\ \E e \in cache :
          /\ SameKey(e, q)
          /\ Answer(q, e.out)
    /\ UNCHANGED <<content, swept, collections, cache>>

\* A miss, an entry that has expired or does not validate, an error; nothing is searched
\* in an empty scope.
CacheMiss(q) ==
    /\ query[q].pc = "cache"
    /\ Goto(q, IF query[q].scope = {} THEN "store" ELSE "search")
    /\ UNCHANGED <<content, swept, collections, cache>>

\* query_branches.  Limits are not reached: every version in the scope is hit (a bound).
Search(q) ==
    /\ query[q].pc = "search"
    /\ query' = [query EXCEPT
          ![q].pc = "hydrate", ![q].scope = {},
          ![q].out = {v \in query[q].scope : swept[v] = "kept"}]
    /\ UNCHANGED <<content, swept, collections, cache>>

\* _hydrate_chunks; the neighbours that are read next are of the same documents.
Hydrate(q) ==
    /\ query[q].pc = "hydrate"
    /\ query' = [query EXCEPT
          ![q].pc = "store",
          ![q].out = {v \in query[q].out : swept[v] # "rows" /\ DocOf[v] \notin gone}]
    /\ UNCHANGED <<content, swept, collections, cache>>

\* _cache_set, which may fail.
Store(q) ==
    /\ query[q].pc = "store"
    /\ Answer(q, query[q].out)
    /\ \/ cache' = {e \in cache : ~SameKey(e, q)}
                     \cup {[gen |-> query[q].gen, rev |-> query[q].rev, ask |-> query[q].ask,
                            out |-> query[q].out]}
       \/ UNCHANGED cache
    /\ UNCHANGED <<content, swept, collections>>

Reply(q) ==
    /\ query[q].pc = "answer"
    /\ End(q)
    /\ UNCHANGED <<content, swept, collections, cache>>

-------------------------------------------------------------------------------

CollectionRequest(c) ==
    \/ CreateCollection(c) \/ Rename(c) \/ DeleteWrites(c) \/ DeleteCommits(c)
    \/ \E d \in Docs : AddMember(d, c) \/ RemoveMember(d, c) \/ UploadInto(d, c)

Question(q) ==
    \/ \E a \in Asks : Begin(q, a)
    \/ ReadManifest(q) \/ ReadCollections(q) \/ ReadMembers(q)
    \/ CacheHit(q) \/ CacheMiss(q) \/ Search(q) \/ Hydrate(q) \/ Store(q)
    \/ Reply(q)

Next ==
    \/ Ingest
    \/ \E v \in Versions : Sweep(v)
    \/ \E c \in Collections : CollectionRequest(c)
    \/ \E q \in Queries : Question(q)

Spec == Init /\ [][Next]_vars

-------------------------------------------------------------------------------
(* Properties *)

\* Every change of content or membership moves the revision, so an entry under the
\* current key, whenever it was computed, is what a fresh query would compute now.
CacheIsCurrent ==
    \A e \in cache :
        e.gen = Len(manifests) /\ e.rev = revision => e.out = ScopeNow(e.gen, e.ask)

RetrievalInv == TypeOK /\ CacheIsCurrent

\* However its statements, the cache and the changes interleave, a query answers from
\* nothing that was outside its scope all the time it ran, a document deleted or taken
\* out of the collection before it began among it.  A collection that is deleted while the
\* query runs still counts: a membership that a late request adds to it then is seen by
\* this query, and by no later one.
NothingForeign ==
    \A q \in Queries : query[q].pc = "answer" => query[q].out \subseteq query[q].may

\* And it misses nothing that was in its scope all the time, unless so many generations
\* were activated meanwhile that its own is no longer retained.
NothingMissed ==
    \A q \in Queries :
        query[q].pc = "answer" /\ Len(manifests) - query[q].gen < Retained
        => query[q].must \subseteq query[q].out
================================================================================
