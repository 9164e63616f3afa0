---------------------------- MODULE RetrievalProofs ----------------------------
(***************************************************************************)
(* What a question may and must find, and when a cached answer may be used, *)
(* whatever ingestion, garbage collection and the editing of collections    *)
(* do between its statements: the inductive invariant of Retrieval and the  *)
(* three properties that follow from it.  And the other parts of            *)
(* MCRetrieval: where signed links and citations lead, whatever becomes of  *)
(* the documents (FileLinks), what the web branch answers, in whatever      *)
(* order its pages come (WebSearch), and what the lists, the history and    *)
(* the prompts of conversations show (Conversations).                       *)
(***************************************************************************)
EXTENDS MCRetrieval, DataLemmas

-------------------------------------------------------------------------------
(* The inductive invariant *)

Shown == {shown[d] : d \in Docs} \ {NoVersion}

\* The latest manifest is what is shown, and no version is shown again after it was replaced.
CatalogueSound ==
    /\ \A d \in Docs : shown[d] # NoVersion => DocOf[shown[d]] = d
    /\ Manifest(Len(manifests)) = Shown
    /\ \A v \in Published :
          \/ DocOf[v] \in gone
          \/ /\ shown[DocOf[v]] # NoVersion
             /\ Number[v] <= Number[shown[DocOf[v]]]

\* Garbage collection has touched nothing that a retained manifest lists.
SweptSound == \A v \in Versions : swept[v] # "kept" => v \in Published \ Spared

\* Generation g is retained.
Kept(g) == Len(manifests) - g < Retained

\* A key is of the past or the present, and the present one is of the latest manifest.
KeysSound ==
    /\ \A q \in Queries : Running(q) =>
          /\ query[q].ask \in Asks
          /\ query[q].gen <= Len(manifests)
          /\ query[q].rev <= revision
          /\ query[q].rev = revision => query[q].gen = Len(manifests)
    /\ \A e \in cache : e.rev <= revision

\* must, may and ever bound what a question can read from now on.
BoundsSound ==
    \A q \in Queries : Running(q) =>
        /\ query[q].must \subseteq ScopeNow(query[q].gen, query[q].ask)
        /\ Scope(query[q].gen, query[q].ask, gone, query[q].ever, member) \subseteq query[q].may
        /\ Active \subseteq query[q].ever

\* What a question has read so far, between its bounds.
StageSound(r) ==
    /\ r.pc \in {"collections", "members"} =>
          r.docs \subseteq Manifest(r.gen) /\ r.must \subseteq r.docs
    /\ r.pc = "members" =>
          /\ r.active \subseteq r.ever
          /\ \A v \in r.must : r.ask = Everything \/ r.ask = DocOf[v] \/ r.ask \in r.active
    /\ r.pc \in {"cache", "search"} =>
          /\ r.scope \subseteq r.may \cup {v \in Versions : DocOf[v] \in gone}
          /\ r.must \subseteq r.scope
    /\ r.pc \in {"manifest", "collections", "members", "cache"} => r.out = {}
    /\ r.pc = "hydrate" => r.out \subseteq r.may \cup {v \in Versions : DocOf[v] \in gone}
    /\ r.pc = "store" => r.out \subseteq r.may
    /\ r.pc \in {"hydrate", "store"} /\ Kept(r.gen) => r.must \subseteq r.out

StagesSound == \A q \in Queries : StageSound(query[q])

\* Until the revision moves, a question has only one answer.
PresentSound ==
    \A q \in Queries : Running(q) /\ query[q].rev = revision =>
        /\ query[q].must = ScopeNow(query[q].gen, query[q].ask)
        /\ query[q].may = ScopeNow(query[q].gen, query[q].ask)
        /\ query[q].ever = Active

\* Two questions with the same key have seen the same changes.
TwinsSound ==
    \A p, q \in Queries :
        (/\ Running(p) /\ Running(q)
         /\ query[p].gen = query[q].gen /\ query[p].rev = query[q].rev
         /\ query[p].ask = query[q].ask)
        => /\ query[p].must = query[q].must
           /\ query[p].may = query[q].may
           /\ query[p].ever = query[q].ever

\* An entry is an answer to every question that may still find it.
EntriesSound ==
    \A e \in cache, q \in Queries : Running(q) /\ SameKey(e, q) =>
        /\ e.out \subseteq query[q].may
        /\ Kept(query[q].gen) => query[q].must \subseteq e.out

RetrievalSound ==
    /\ TypeOK
    /\ CatalogueSound
    /\ SweptSound
    /\ KeysSound
    /\ BoundsSound
    /\ StagesSound
    /\ PresentSound
    /\ TwinsSound
    /\ EntriesSound
    /\ CacheIsCurrent
    /\ NothingForeign
    /\ NothingMissed

-------------------------------------------------------------------------------
(* Operators *)

\* The fields of a question have their types.
LEMMA QueryFields ==
    ASSUME TypeOK, NEW q \in Queries
    PROVE  /\ query[q] \in QueryType
           /\ query[q].gen \in Nat /\ query[q].rev \in Nat
           /\ query[q].docs \subseteq Versions /\ query[q].scope \subseteq Versions
           /\ query[q].out \subseteq Versions
           /\ query[q].must \subseteq Versions /\ query[q].may \subseteq Versions
           /\ query[q].active \subseteq Collections /\ query[q].ever \subseteq Collections
  BY DEF TypeOK, QueryType

\* Manifests list versions.
LEMMA ManifestTypes ==
    ASSUME TypeOK
    PROVE  /\ Len(manifests) \in Nat /\ DOMAIN manifests = 1 .. Len(manifests)
           /\ \A g \in 1 .. Len(manifests) : Manifest(g) = manifests[g]
           /\ Manifest(0) = {}
           /\ \A g \in 0 .. Len(manifests) : Manifest(g) \subseteq Versions
<1>1. manifests \in Seq(SUBSET Versions)
  BY DEF TypeOK
<1>2. Len(manifests) \in Nat /\ DOMAIN manifests = 1 .. Len(manifests)
  BY <1>1
<1>3. \A g \in 1 .. Len(manifests) : manifests[g] \subseteq Versions /\ g # 0
  BY <1>1
<1> QED
  BY <1>2, <1>3 DEF Manifest

\* What is listed, and what is spared.
ListedSound ==
    /\ \A v : v \in Published <=> \E g \in 1 .. Len(manifests) : v \in Manifest(g)
    /\ \A v : v \in Spared <=> \E g \in 1 .. Len(manifests) : Kept(g) /\ v \in Manifest(g)
    /\ Published \subseteq Versions

\* Published and Spared in terms of the manifests.
LEMMA Listed == TypeOK => ListedSound
<1> SUFFICES ASSUME TypeOK PROVE ListedSound
  OBVIOUS
<1>1. /\ DOMAIN manifests = 1 .. Len(manifests)
      /\ \A g \in 1 .. Len(manifests) :
            Manifest(g) = manifests[g] /\ manifests[g] \subseteq Versions
  BY ManifestTypes
<1>2. \A v : v \in Published <=> \E g \in 1 .. Len(manifests) : v \in Manifest(g)
  BY <1>1 DEF Published
<1>3. \A v : v \in Spared <=> \E g \in 1 .. Len(manifests) : Kept(g) /\ v \in Manifest(g)
  BY <1>1 DEF Spared, Kept
<1> QED
  BY <1>1, <1>2, <1>3 DEF ListedSound

\* A retained generation, the latest among them, has lost nothing.
LEMMA KeptUnswept ==
    ASSUME TypeOK, SweptSound, NEW g \in Nat, g <= Len(manifests), Kept(g)
    PROVE  \A v \in Manifest(g) : v \in Versions /\ swept[v] = "kept"
<1> SUFFICES ASSUME NEW v \in Manifest(g) PROVE v \in Versions /\ swept[v] = "kept"
  OBVIOUS
<1>1. g \in 1 .. Len(manifests)
  BY ManifestTypes
<1>2. v \in Spared /\ v \in Versions
  BY <1>1, Listed, ManifestTypes DEF ListedSound
<1> QED
  BY <1>2 DEF SweptSound

\* Retained is at least 1.
LEMMA LatestKept == TypeOK => Kept(Len(manifests))
  BY RetrievalAssumption, ManifestTypes DEF Kept

-------------------------------------------------------------------------------
(* Types *)

\* New bounds of a question.
LEMMA BoundsTypes ==
    ASSUME NEW r \in QueryType, NEW must \in SUBSET Versions, NEW may \in SUBSET Versions,
           NEW ever \in SUBSET Collections
    PROVE  [r EXCEPT !.must = must, !.may = may, !.ever = ever] \in QueryType
  BY DEF QueryType

\* What a step adds to the bounds of a question are versions and collections.
LEMMA ObserveTypes ==
    ASSUME TypeOK, KeysSound, Observe, shelf' \in [Collections -> {"absent", "active", "deleted"}]
    PROVE  query' \in [Queries -> QueryType]
<1> SUFFICES ASSUME NEW q \in Queries PROVE query'[q] \in QueryType
  BY DEF Observe
<1>1. CASE ~Running(q)
  BY <1>1, QueryFields DEF Observe
<1>2. CASE Running(q)
  <2>1. PICK must, may, ever :
           /\ query'[q] = [query[q] EXCEPT !.must = must, !.may = may, !.ever = ever]
           /\ must = query[q].must \cap ScopeNext(query[q].gen, query[q].ask)
           /\ may = query[q].may \cup MayNext(q)
           /\ ever = query[q].ever \cup Active'
    BY <1>2 DEF Observe
  <2>2. query[q].gen \in 0 .. Len(manifests)
    BY <1>2, QueryFields, ManifestTypes DEF KeysSound
  <2>3. MayNext(q) \subseteq Versions
    BY <2>2, ManifestTypes DEF MayNext, Scope
  <2>4. Active' \subseteq Collections
    BY DEF Active
  <2>5. must \subseteq Versions /\ may \subseteq Versions /\ ever \subseteq Collections
    BY <2>1, <2>3, <2>4, QueryFields
  <2>6. [query[q] EXCEPT !.must = must, !.may = may, !.ever = ever] \in QueryType
    BY <2>5, QueryFields, BoundsTypes
  <2> QED
    BY <2>1, <2>6
<1> QED
  BY <1>1, <1>2

-------------------------------------------------------------------------------
(* Steps that the questions under way observe *)

\* Manifests and deletions only accumulate, and the revision moves with every change that
\* a question could notice.
Advance ==
    /\ Len(manifests) <= Len(manifests') /\ Len(manifests') \in Nat
    /\ \A g \in 0 .. Len(manifests) : Manifest(g)' = Manifest(g)
    /\ gone \subseteq gone'
    /\ revision \in Nat /\ revision' \in Nat /\ revision <= revision'
    /\ revision' = revision =>
          /\ Len(manifests') = Len(manifests)
          /\ Active' = Active
          /\ \A g \in 0 .. Len(manifests) : \A a :
                Scope(g, a, gone', Active', member') = ScopeNow(g, a)

\* An observing step changes nothing of a question but its bounds.
LEMMA ObserveFields ==
    ASSUME TypeOK, Observe, NEW q \in Queries
    PROVE  /\ query'[q].pc = query[q].pc /\ query'[q].ask = query[q].ask
           /\ query'[q].gen = query[q].gen /\ query'[q].rev = query[q].rev
           /\ query'[q].docs = query[q].docs /\ query'[q].active = query[q].active
           /\ query'[q].scope = query[q].scope /\ query'[q].out = query[q].out
           /\ Running(q)' <=> Running(q)
           /\ ~Running(q) => query'[q] = query[q]
           /\ Running(q) =>
                 /\ query'[q].must = query[q].must \cap ScopeNext(query[q].gen, query[q].ask)
                 /\ query'[q].may = query[q].may \cup MayNext(q)
                 /\ query'[q].ever = query[q].ever \cup Active'
<1>1. query[q] \in QueryType
  BY QueryFields
<1>2. PICK must, may, ever :
         /\ must = query[q].must \cap ScopeNext(query[q].gen, query[q].ask)
         /\ may = query[q].may \cup MayNext(q)
         /\ ever = query[q].ever \cup Active'
  OBVIOUS
<1>3. query'[q] = (IF Running(q)
                   THEN [query[q] EXCEPT !.must = must, !.may = may, !.ever = ever]
                   ELSE query[q])
  BY <1>2 DEF Observe
<1>4. ASSUME NEW r \in QueryType
      PROVE  LET s == [r EXCEPT !.must = must, !.may = may, !.ever = ever]
             IN  /\ s.pc = r.pc /\ s.ask = r.ask /\ s.gen = r.gen /\ s.rev = r.rev
                 /\ s.docs = r.docs /\ s.active = r.active /\ s.scope = r.scope
                 /\ s.out = r.out /\ s.must = must /\ s.may = may /\ s.ever = ever
  BY DEF QueryType
<1>5. /\ query'[q].pc = query[q].pc /\ query'[q].ask = query[q].ask
      /\ query'[q].gen = query[q].gen /\ query'[q].rev = query[q].rev
      /\ query'[q].docs = query[q].docs /\ query'[q].active = query[q].active
      /\ query'[q].scope = query[q].scope /\ query'[q].out = query[q].out
      /\ Running(q) => query'[q].must = must /\ query'[q].may = may /\ query'[q].ever = ever
      /\ ~Running(q) => query'[q] = query[q]
  BY <1>1, <1>3, <1>4
<1>6. Running(q)' <=> Running(q)
  BY <1>5 DEF Running
<1> QED
  BY <1>2, <1>5, <1>6

\* Where a question may look, before and after such a step.
LEMMA ObserveScopes ==
    ASSUME TypeOK, KeysSound, Advance, Observe, NEW q \in Queries, Running(q),
           NEW g, NEW a, g = query[q].gen, a = query[q].ask
    PROVE  /\ g \in 0 .. Len(manifests)
           /\ ScopeNext(g, a) = Scope(g, a, gone', Active', member')
           /\ ScopeNow(g, a)' = Scope(g, a, gone', Active', member')
           /\ MayNext(q) = Scope(g, a, gone', query'[q].ever, member')
           /\ Scope(g, a, gone, query[q].ever, member)' = MayNext(q)
<1>1. g \in 0 .. Len(manifests)
  BY QueryFields, ManifestTypes DEF KeysSound
<1>2. Manifest(g)' = Manifest(g)
  BY <1>1 DEF Advance
<1>3. query'[q].ever = query[q].ever \cup Active'
  BY ObserveFields
<1>4. ScopeNow(g, a)' = Scope(g, a, gone', Active', member')
  BY <1>2 DEF ScopeNow, Scope
<1>5. Scope(g, a, gone, query[q].ever, member)' = Scope(g, a, gone', query'[q].ever, member')
  BY <1>2 DEF Scope
<1> QED
  BY <1>1, <1>3, <1>4, <1>5 DEF ScopeNext, MayNext

\* The keys stay as old as they were.
LEMMA ObserveKeys ==
    ASSUME TypeOK, KeysSound, Advance, Observe, UNCHANGED cache PROVE KeysSound'
<1>1. ASSUME NEW q \in Queries, Running(q)'
      PROVE  /\ query'[q].ask \in Asks /\ query'[q].gen <= Len(manifests')
             /\ query'[q].rev <= revision'
             /\ query'[q].rev = revision' => query'[q].gen = Len(manifests')
  BY <1>1, ObserveFields, QueryFields, ManifestTypes DEF KeysSound, Advance
<1>2. \A e \in cache : e.rev \in Nat
  BY DEF TypeOK
<1> QED
  BY <1>1, <1>2 DEF KeysSound, Advance

\* must loses what leaves the scope, and may gains what enters it.
LEMMA ObserveBounds ==
    ASSUME TypeOK, KeysSound, BoundsSound, Advance, Observe PROVE BoundsSound'
<1> SUFFICES ASSUME NEW q \in Queries, Running(q),
                    NEW g, NEW a, g = query[q].gen, a = query[q].ask
             PROVE  /\ query'[q].must \subseteq ScopeNow(g, a)'
                    /\ Scope(g, a, gone, query[q].ever, member)' \subseteq query'[q].may
                    /\ Active' \subseteq query'[q].ever
  BY ObserveFields DEF BoundsSound
<1>1. /\ query'[q].must = query[q].must \cap ScopeNext(g, a)
      /\ query'[q].may = query[q].may \cup MayNext(q)
      /\ query'[q].ever = query[q].ever \cup Active'
  BY ObserveFields
<1>2. /\ ScopeNow(g, a)' = ScopeNext(g, a)
      /\ Scope(g, a, gone, query[q].ever, member)' = MayNext(q)
  BY ObserveScopes
<1> QED
  BY <1>1, <1>2

\* Fewer generations are retained.
LEMMA KeptBefore == ASSUME TypeOK, Advance, NEW g \in Nat PROVE Kept(g)' => Kept(g)
  BY ManifestTypes, RetrievalAssumption DEF Kept, Advance

\* What a question has read stays between bounds that only widen.
LEMMA ObserveStages ==
    ASSUME TypeOK, KeysSound, StagesSound, Advance, Observe PROVE StagesSound'
<1> SUFFICES ASSUME NEW q \in Queries,
                    NEW old, NEW new, old = query[q], new = query'[q]
             PROVE  /\ new.pc \in {"collections", "members"} =>
                          new.docs \subseteq Manifest(new.gen)' /\ new.must \subseteq new.docs
                    /\ new.pc = "members" =>
                          /\ new.active \subseteq new.ever
                          /\ \A v \in new.must :
                                new.ask = Everything \/ new.ask = DocOf[v] \/ new.ask \in new.active
                    /\ new.pc \in {"cache", "search"} =>
                          /\ new.scope \subseteq new.may \cup {v \in Versions : DocOf[v] \in gone'}
                          /\ new.must \subseteq new.scope
                    /\ new.pc \in {"manifest", "collections", "members", "cache"} => new.out = {}
                    /\ new.pc = "hydrate" =>
                          new.out \subseteq new.may \cup {v \in Versions : DocOf[v] \in gone'}
                    /\ new.pc = "store" => new.out \subseteq new.may
                    /\ new.pc \in {"hydrate", "store"} /\ Kept(new.gen)' =>
                          new.must \subseteq new.out
  BY DEF StagesSound, StageSound
<1>1. /\ new.pc = old.pc /\ new.ask = old.ask /\ new.gen = old.gen /\ new.docs = old.docs
      /\ new.active = old.active /\ new.scope = old.scope /\ new.out = old.out
      /\ new.must \subseteq old.must /\ old.may \subseteq new.may /\ old.ever \subseteq new.ever
  BY ObserveFields
<1>2. /\ old.pc \in {"collections", "members"} =>
            old.docs \subseteq Manifest(old.gen) /\ old.must \subseteq old.docs
      /\ old.pc = "members" =>
            /\ old.active \subseteq old.ever
            /\ \A v \in old.must :
                  old.ask = Everything \/ old.ask = DocOf[v] \/ old.ask \in old.active
      /\ old.pc \in {"cache", "search"} =>
            /\ old.scope \subseteq old.may \cup {v \in Versions : DocOf[v] \in gone}
            /\ old.must \subseteq old.scope
      /\ old.pc \in {"manifest", "collections", "members", "cache"} => old.out = {}
      /\ old.pc = "hydrate" =>
            old.out \subseteq old.may \cup {v \in Versions : DocOf[v] \in gone}
      /\ old.pc = "store" => old.out \subseteq old.may
      /\ old.pc \in {"hydrate", "store"} /\ Kept(old.gen) => old.must \subseteq old.out
  BY DEF StagesSound, StageSound
<1>3. old.gen \in Nat /\ (Kept(old.gen)' => Kept(old.gen)) /\ gone \subseteq gone'
  BY QueryFields, KeptBefore DEF Advance
<1>4. old.pc \in {"collections", "members"} => Manifest(old.gen)' = Manifest(old.gen)
  <2> SUFFICES ASSUME old.pc \in {"collections", "members"}
               PROVE  Manifest(old.gen)' = Manifest(old.gen)
    OBVIOUS
  <2>1. Running(q)
    BY DEF Running
  <2>2. old.gen \in 0 .. Len(manifests)
    BY <2>1, QueryFields, ManifestTypes DEF KeysSound
  <2> QED
    BY <2>2 DEF Advance
<1> QED
  BY <1>1, <1>2, <1>3, <1>4

\* Under an unmoved revision the scopes are those of before.
LEMMA ObservePresent ==
    ASSUME TypeOK, KeysSound, PresentSound, Advance, Observe PROVE PresentSound'
<1> SUFFICES ASSUME NEW q \in Queries, Running(q), query[q].rev = revision',
                    NEW g, NEW a, g = query[q].gen, a = query[q].ask
             PROVE  /\ query'[q].must = ScopeNow(g, a)'
                    /\ query'[q].may = ScopeNow(g, a)'
                    /\ query'[q].ever = Active'
  BY ObserveFields DEF PresentSound
<1>1. /\ query'[q].must = query[q].must \cap ScopeNext(g, a)
      /\ query'[q].may = query[q].may \cup MayNext(q)
      /\ query'[q].ever = query[q].ever \cup Active'
  BY ObserveFields
<1>2. /\ g \in 0 .. Len(manifests)
      /\ ScopeNext(g, a) = Scope(g, a, gone', Active', member')
      /\ ScopeNow(g, a)' = Scope(g, a, gone', Active', member')
      /\ MayNext(q) = Scope(g, a, gone', query'[q].ever, member')
  BY ObserveScopes
<1>3. revision' = revision
  BY DEF KeysSound, Advance
<1>4. Active' = Active /\ Scope(g, a, gone', Active', member') = ScopeNow(g, a)
  BY <1>2, <1>3 DEF Advance
<1>5. /\ query[q].must = ScopeNow(g, a) /\ query[q].may = ScopeNow(g, a)
      /\ query[q].ever = Active
  BY <1>3 DEF PresentSound
<1> QED
  BY <1>1, <1>2, <1>4, <1>5, ZenonT(60)

\* Questions with one key observe one change.
LEMMA ObserveTwins ==
    ASSUME TypeOK, TwinsSound, Observe PROVE TwinsSound'
<1> SUFFICES ASSUME NEW p \in Queries, NEW q \in Queries, Running(p), Running(q),
                    query[p].gen = query[q].gen, query[p].rev = query[q].rev,
                    query[p].ask = query[q].ask
             PROVE  /\ query'[p].must = query'[q].must
                    /\ query'[p].may = query'[q].may
                    /\ query'[p].ever = query'[q].ever
  BY ObserveFields DEF TwinsSound
<1>1. /\ query[p].must = query[q].must /\ query[p].may = query[q].may
      /\ query[p].ever = query[q].ever
  BY DEF TwinsSound
<1>2. MayNext(p) = MayNext(q)
  BY <1>1 DEF MayNext
<1> QED
  BY <1>1, <1>2, ObserveFields

\* An entry stays an answer while the bounds widen.
LEMMA ObserveEntries ==
    ASSUME TypeOK, EntriesSound, Advance, Observe, UNCHANGED cache PROVE EntriesSound'
<1> SUFFICES ASSUME NEW e \in cache, NEW q \in Queries, Running(q), SameKey(e, q)
             PROVE  /\ e.out \subseteq query'[q].may
                    /\ Kept(query[q].gen)' => query'[q].must \subseteq e.out
  BY ObserveFields DEF EntriesSound, SameKey, Kept
<1>1. /\ e.out \subseteq query[q].may
      /\ Kept(query[q].gen) => query[q].must \subseteq e.out
  BY DEF EntriesSound
<1>2. query[q].may \subseteq query'[q].may /\ query'[q].must \subseteq query[q].must
  BY ObserveFields
<1>3. PICK g \in Nat : g = query[q].gen
  BY QueryFields
<1>4. Kept(g)' => Kept(g)
  BY KeptBefore
<1>5. Kept(query[q].gen)' <=> Kept(g)'
  BY <1>3, ObserveFields DEF Kept
<1> QED
  BY <1>1, <1>2, <1>3, <1>4, <1>5

\* An entry that is of the present was of the present before.
LEMMA ObserveCurrent ==
    ASSUME TypeOK, KeysSound, CacheIsCurrent, Advance, Observe, UNCHANGED cache
    PROVE  CacheIsCurrent'
<1> SUFFICES ASSUME NEW e \in cache, NEW g, NEW a, g = e.gen, a = e.ask,
                    g = Len(manifests'), e.rev = revision'
             PROVE  e.out = ScopeNow(g, a)'
  BY DEF CacheIsCurrent
<1>1. revision' = revision
  <2>1. e.rev <= revision /\ revision <= revision' /\ revision \in Nat /\ revision' \in Nat
    BY DEF KeysSound, Advance
  <2> QED
    BY <2>1
<1>2. g = Len(manifests) /\ g \in 0 .. Len(manifests)
  BY <1>1, ManifestTypes DEF Advance
<1>3. e.out = ScopeNow(g, a)
  BY <1>1, <1>2 DEF CacheIsCurrent
<1>4. Scope(g, a, gone', Active', member') = ScopeNow(g, a) /\ Manifest(g)' = Manifest(g)
  BY <1>1, <1>2 DEF Advance
<1> QED
  BY <1>3, <1>4 DEF ScopeNow, Scope

\* A question that has its answer observes nothing, and fewer generations are retained.
LEMMA ObserveAnswers ==
    ASSUME TypeOK, NothingForeign, NothingMissed, Advance, Observe
    PROVE  NothingForeign' /\ NothingMissed'
<1>1. ASSUME NEW q \in Queries, query'[q].pc = "answer"
      PROVE  query'[q] = query[q] /\ query[q].pc = "answer"
  BY <1>1, ObserveFields DEF Running
<1>2. NothingForeign'
  BY <1>1 DEF NothingForeign
<1>3. ASSUME NEW q \in Queries, query[q].pc = "answer",
             Len(manifests') - query[q].gen < Retained
      PROVE  Len(manifests) - query[q].gen < Retained
  BY <1>3, QueryFields, ManifestTypes, RetrievalAssumption DEF Advance
<1>4. NothingMissed'
  <2> SUFFICES ASSUME NEW q \in Queries, query'[q].pc = "answer",
                      Len(manifests') - query'[q].gen < Retained
               PROVE  query'[q].must \subseteq query'[q].out
    BY DEF NothingMissed
  <2> QED
    BY <1>1, <1>3 DEF NothingMissed
<1> QED
  BY <1>2, <1>4

\* What such a step leaves to be shown is what it does to the catalogue and the sweep.
LEMMA ObserveStep ==
    ASSUME RetrievalSound, Advance, Observe, UNCHANGED cache, TypeOK',
           CatalogueSound', SweptSound'
    PROVE  RetrievalSound'
  BY ObserveKeys, ObserveBounds, ObserveStages, ObservePresent, ObserveTwins, ObserveEntries,
     ObserveCurrent, ObserveAnswers DEF RetrievalSound

-------------------------------------------------------------------------------
(* Ingestion *)

\* A document is published or retired under a new revision, and the manifest of the new
\* generation follows.
LEMMA IngestSteps ==
    ASSUME TypeOK, CatalogueSound, Ingest
    PROVE  /\ shown' \in [Docs -> Versions \cup {NoVersion}]
           /\ gone' \subseteq Docs /\ gone \subseteq gone'
           /\ revision' = revision + 1 /\ revision < MaxRevision
           /\ \A d \in Docs : shown'[d] # NoVersion => DocOf[shown'[d]] = d
           /\ \A d \in Docs :
                 \/ shown'[d] = shown[d]
                 \/ shown'[d] = NoVersion /\ d \in gone'
                 \/ /\ shown'[d] \in Versions \ Published
                    /\ shown[d] # NoVersion => Number[shown[d]] <= Number[shown'[d]]
<1>1. shown \in [Docs -> Versions \cup {NoVersion}] /\ gone \subseteq Docs
  BY DEF TypeOK
<1>2. revision < MaxRevision /\ Content!Next
  BY DEF Ingest, WithinRevisions
<1>3. CASE \E v \in Versions : Content!Publish(v)
  <2>1. PICK v \in Versions : Content!Publish(v)
    BY <1>3
  <2>2. PICK d \in Docs :
           /\ d = DocOf[v] /\ d \notin gone
           /\ shown[d] # NoVersion => Number[shown[d]] < Number[v]
           /\ shown' = [shown EXCEPT ![d] = v]
           /\ revision' = revision + 1 /\ gone' = gone
    BY <2>1, RetrievalAssumption DEF Content!Publish
  <2>3. /\ shown'[d] = v /\ v # NoVersion
        /\ \A e \in Docs \ {d} : shown'[e] = shown[e]
    BY <1>1, <2>2, RetrievalAssumption
  <2>4. shown' \in [Docs -> Versions \cup {NoVersion}]
    BY <1>1, <2>2
  <2>5. shown[d] # NoVersion => Number[shown[d]] \in Nat /\ Number[v] \in Nat
    BY <1>1, RetrievalAssumption
  <2>6. v \notin Published
    BY <2>2, <2>5 DEF CatalogueSound
  <2>7. shown[d] # NoVersion => Number[shown[d]] <= Number[shown'[d]]
    BY <2>2, <2>3, <2>5
  <2>8. \A e \in Docs : shown'[e] # NoVersion => DocOf[shown'[e]] = e
    BY <2>2, <2>3 DEF CatalogueSound
  <2> QED
    BY <1>1, <1>2, <2>2, <2>3, <2>4, <2>6, <2>7, <2>8
<1>4. CASE \E d \in Docs : Content!Retire(d)
  <2>1. PICK d \in Docs : Content!Retire(d)
    BY <1>4
  <2>2. /\ shown' = [shown EXCEPT ![d] = NoVersion] /\ gone' = gone \cup {d}
        /\ revision' = revision + 1
    BY <2>1 DEF Content!Retire
  <2>3. shown'[d] = NoVersion /\ \A e \in Docs \ {d} : shown'[e] = shown[e]
    BY <1>1, <2>2
  <2>4. \A e \in Docs : shown'[e] # NoVersion => DocOf[shown'[e]] = e
    BY <2>3 DEF CatalogueSound
  <2> QED
    BY <1>1, <1>2, <2>2, <2>3, <2>4
<1> QED
  BY <1>2, <1>3, <1>4 DEF Content!Next

\* The manifests of a step of ingestion.
LEMMA IngestManifests ==
    ASSUME TypeOK, CatalogueSound, Ingest
    PROVE  /\ manifests' \in Seq(SUBSET Versions)
           /\ Len(manifests') = Len(manifests) + 1
           /\ \A g \in 0 .. Len(manifests) : Manifest(g)' = Manifest(g)
           /\ Manifest(Len(manifests))' = Shown'
<1>1. manifests \in Seq(SUBSET Versions)
  BY DEF TypeOK
<1>2. PICK M : M = {shown'[d] : d \in Docs} \ {NoVersion}
  OBVIOUS
<1>3. M \subseteq Versions
  BY <1>2, IngestSteps
<1>4. manifests' = Append(manifests, M)
  BY <1>2 DEF Ingest
<1>5. PICK n \in Nat : n = Len(manifests)
  BY ManifestTypes
<1>6. /\ manifests' \in Seq(SUBSET Versions) /\ Len(manifests') = n + 1
      /\ \A g \in 1 .. n : manifests'[g] = manifests[g]
      /\ manifests'[n + 1] = M
  BY <1>1, <1>3, <1>4, <1>5
<1>7. \A g \in 0 .. n : Manifest(g)' = Manifest(g)
  BY <1>6 DEF Manifest
<1>8. Manifest(n + 1)' = M
  <2>1. n + 1 # 0
    OBVIOUS
  <2> QED
    BY <1>6, <2>1 DEF Manifest
<1>9. Manifest(Len(manifests))' = Manifest(n + 1)'
  BY <1>6 DEF Manifest
<1> QED
  BY <1>2, <1>5, <1>6, <1>7, <1>8, <1>9 DEF Shown

\* The latest manifest is what is shown, and what was shown was spared.
LEMMA IngestInv == ASSUME RetrievalSound, Ingest PROVE RetrievalSound'
<1> USE DEF RetrievalSound
<1>1. UNCHANGED <<swept, shelf, member, checked, deleting, cache>> /\ Observe
  BY DEF Ingest, collections
<1>2. TypeOK'
  <2>1. query' \in [Queries -> QueryType]
    BY <1>1, ObserveTypes DEF TypeOK
  <2>2. revision' \in 1 .. MaxRevision
    BY IngestSteps, RetrievalAssumption DEF TypeOK
  <2> QED
    BY <1>1, <2>1, <2>2, IngestSteps, IngestManifests DEF TypeOK
<1>3. PICK n \in Nat : n = Len(manifests)
  BY ManifestTypes
<1>4. /\ Len(manifests') = n + 1
      /\ \A g \in 0 .. n : Manifest(g)' = Manifest(g)
      /\ Manifest(n + 1)' = Shown'
  <2>1. Len(manifests') = n + 1 /\ Manifest(Len(manifests))' = Shown'
    BY <1>3, IngestManifests
  <2>2. Manifest(n + 1)' = Manifest(Len(manifests))'
    BY <2>1 DEF Manifest
  <2> QED
    BY <1>3, <2>1, <2>2, IngestManifests
<1>5. Advance
  BY <1>3, <1>4, IngestSteps DEF Advance, TypeOK
<1>6. ListedSound /\ ListedSound'
  BY <1>2, Listed, PTL
<1>7. \A v : v \in Published' <=> v \in Published \/ v \in Shown'
  <2>1. 1 .. n + 1 = (1 .. n) \cup {n + 1} /\ 1 .. n \subseteq 0 .. n
    OBVIOUS
  <2> QED
    BY <1>3, <1>4, <1>6, <2>1 DEF ListedSound
<1>8. \A v : v \in Spared' => v \in Spared \/ v \in Shown'
  <2> SUFFICES ASSUME NEW v, NEW g \in 1 .. n + 1, Kept(g)', v \in Manifest(g)', v \notin Shown'
               PROVE  v \in Spared
    BY <1>4, <1>6 DEF ListedSound
  <2>1. g \in 1 .. n /\ g \in 0 .. n /\ g \in Nat
    BY <1>4
  <2>2. Kept(g) /\ v \in Manifest(g)
    BY <1>4, <1>5, <2>1, KeptBefore
  <2> QED
    BY <1>3, <1>6, <2>1, <2>2 DEF ListedSound
<1>9. Shown \subseteq Spared
  <2> SUFFICES ASSUME NEW v \in Shown PROVE v \in Spared
    OBVIOUS
  <2>1. v \in Manifest(n) /\ Kept(n) /\ n # 0
    BY <1>3, LatestKept, ManifestTypes DEF CatalogueSound
  <2> QED
    BY <1>3, <1>6, <2>1 DEF ListedSound
<1>10. CatalogueSound'
  <2>1. \A d \in Docs : shown'[d] # NoVersion => DocOf[shown'[d]] = d
    BY IngestSteps
  <2>2. Manifest(Len(manifests))' = Shown'
    BY IngestManifests
  <2>3. ASSUME NEW v \in Published'
        PROVE  \/ DocOf[v] \in gone'
               \/ /\ shown'[DocOf[v]] # NoVersion
                  /\ Number[v] <= Number[shown'[DocOf[v]]]
    <3>1. v \in Versions /\ DocOf[v] \in Docs /\ Number[v] \in Nat
      BY <1>6, RetrievalAssumption DEF ListedSound
    <3>2. CASE v \in Shown'
      BY <3>1, <3>2, IngestSteps DEF Shown
    <3>3. CASE v \in Published
      <4>1. \/ DocOf[v] \in gone
            \/ /\ shown[DocOf[v]] # NoVersion
               /\ Number[v] <= Number[shown[DocOf[v]]]
        BY <3>3 DEF CatalogueSound
      <4>2. \A x \in Versions : Number[x] \in Nat
        BY RetrievalAssumption
      <4>3. shown[DocOf[v]] \in Versions \cup {NoVersion} /\ NoVersion \notin Versions
        BY <3>1, RetrievalAssumption DEF TypeOK
      <4> QED
        BY <3>1, <4>1, <4>2, <4>3, IngestSteps
    <3> QED
      BY <1>7, <3>2, <3>3
  <2>4. (\A v \in Published :
           \/ DocOf[v] \in gone
           \/ /\ shown[DocOf[v]] # NoVersion
              /\ Number[v] <= Number[shown[DocOf[v]]])'
    BY <2>3
  <2> QED
    BY <2>1, <2>2, <2>4 DEF CatalogueSound
<1>11. SweptSound'
  <2> SUFFICES ASSUME NEW v \in Versions, swept[v] # "kept"
               PROVE  v \in Published' /\ v \notin Spared'
    BY <1>1 DEF SweptSound
  <2>1. v \in Published /\ v \notin Spared
    BY DEF SweptSound
  <2>2. v \notin Shown'
    <3> SUFFICES ASSUME NEW d \in Docs, shown'[d] = v PROVE FALSE
      BY DEF Shown
    <3>1. shown[d] = v
      BY <2>1, IngestSteps, RetrievalAssumption
    <3>2. v \in Shown
      BY <3>1, RetrievalAssumption DEF Shown
    <3> QED
      BY <1>9, <2>1, <3>2
  <2> QED
    BY <1>7, <1>8, <2>1, <2>2
<1> QED
  BY <1>1, <1>2, <1>5, <1>10, <1>11, ObserveStep

-------------------------------------------------------------------------------
(* Collections *)

\* What is listed and swept is sound until content changes.
LEMMA CatalogueKept ==
    ASSUME CatalogueSound, SweptSound, UNCHANGED <<shown, gone, manifests, swept>>
    PROVE  CatalogueSound' /\ SweptSound'
<1>1. Manifest(Len(manifests))' = Manifest(Len(manifests)) /\ Shown' = Shown
  BY DEF Manifest, Shown
<1>2. Published' = Published /\ Spared' = Spared
  BY DEF Published, Spared
<1>3. CatalogueSound'
  BY <1>1, <1>2 DEF CatalogueSound
<1> QED
  BY <1>2, <1>3 DEF SweptSound

\* A new revision, and nothing else of the content.
LEMMA BumpAdvance ==
    ASSUME TypeOK, Bump
    PROVE  /\ Advance /\ UNCHANGED <<shown, gone, manifests>>
           /\ revision' \in 1 .. MaxRevision
<1>1. UNCHANGED <<shown, gone, manifests>> /\ revision' = revision + 1 /\ revision < MaxRevision
  BY DEF Bump, WithinRevisions
<1>2. revision \in Nat /\ revision' \in Nat /\ revision' > revision /\ MaxRevision \in Nat
  BY <1>1, RetrievalAssumption DEF TypeOK
<1>3. revision' \in 1 .. MaxRevision
  BY <1>1, <1>2
<1>4. Len(manifests) \in Nat /\ \A g \in 0 .. Len(manifests) : Manifest(g)' = Manifest(g)
  BY <1>1, ManifestTypes DEF Manifest
<1> QED
  BY <1>1, <1>2, <1>3, <1>4 DEF Advance

\* A step that edits collections and that the questions observe.
LEMMA CollectionStep ==
    ASSUME RetrievalSound, Advance, Observe, UNCHANGED <<shown, gone, manifests, swept, cache>>,
           revision' \in 1 .. MaxRevision,
           shelf' \in [Collections -> {"absent", "active", "deleted"}],
           member' \subseteq Docs \X Collections,
           checked' \subseteq Docs \X Collections,
           deleting' \in [Collections -> [on : BOOLEAN, seen : SUBSET (Docs \X Collections)]]
    PROVE  RetrievalSound'
<1>1. query' \in [Queries -> QueryType]
  BY ObserveTypes DEF RetrievalSound
<1>2. TypeOK'
  BY <1>1 DEF TypeOK, RetrievalSound
<1>3. CatalogueSound' /\ SweptSound'
  BY CatalogueKept DEF RetrievalSound
<1> QED
  BY <1>2, <1>3, ObserveStep

\* The types of what the collections keep.
LEMMA CollectionTypes ==
    ASSUME TypeOK
    PROVE  /\ revision \in 1 .. MaxRevision
           /\ shelf \in [Collections -> {"absent", "active", "deleted"}]
           /\ member \subseteq Docs \X Collections
           /\ checked \subseteq Docs \X Collections
           /\ deleting \in [Collections -> [on : BOOLEAN, seen : SUBSET (Docs \X Collections)]]
  BY DEF TypeOK

\* A new collection may find requests for every document.
LEMMA CreateInv ==
    ASSUME RetrievalSound, NEW c \in Collections, CreateCollection(c) PROVE RetrievalSound'
<1>1. TypeOK /\ Bump /\ Observe /\ UNCHANGED <<swept, member, deleting, cache>>
  BY DEF CreateCollection, RetrievalSound
<1>2. /\ shelf' = [shelf EXCEPT ![c] = "active"]
      /\ checked' = checked \cup (Docs \ gone) \X {c}
  BY DEF CreateCollection
<1>3. shelf' \in [Collections -> {"absent", "active", "deleted"}]
  BY <1>1, <1>2, CollectionTypes
<1>4. checked' \subseteq Docs \X Collections
  BY <1>1, <1>2, CollectionTypes
<1> QED
  BY <1>1, <1>3, <1>4, BumpAdvance, CollectionTypes, CollectionStep

\* A new name.
LEMMA RenameInv ==
    ASSUME RetrievalSound, NEW c \in Collections, Rename(c) PROVE RetrievalSound'
<1>1. TypeOK /\ Bump /\ Observe /\ UNCHANGED <<swept, shelf, member, checked, deleting, cache>>
  BY DEF Rename, RetrievalSound, collections
<1> QED
  BY <1>1, BumpAdvance, CollectionTypes, CollectionStep

\* A membership comes.
LEMMA AddInv ==
    ASSUME RetrievalSound, NEW c \in Collections, NEW d \in Docs, AddMember(d, c)
    PROVE  RetrievalSound'
<1>1. /\ TypeOK /\ Bump /\ Observe /\ UNCHANGED <<swept, shelf, checked, deleting, cache>>
      /\ member' = member \cup {<<d, c>>}
  BY DEF AddMember, RetrievalSound
<1>2. member' \subseteq Docs \X Collections
  BY <1>1, CollectionTypes
<1> QED
  BY <1>1, <1>2, BumpAdvance, CollectionTypes, CollectionStep

\* A membership goes.
LEMMA RemoveInv ==
    ASSUME RetrievalSound, NEW c \in Collections, NEW d \in Docs, RemoveMember(d, c)
    PROVE  RetrievalSound'
<1>1. /\ TypeOK /\ Bump /\ Observe /\ UNCHANGED <<swept, shelf, checked, deleting, cache>>
      /\ member' = member \ {<<d, c>>}
  BY DEF RemoveMember, RetrievalSound
<1>2. member' \subseteq Docs \X Collections
  BY <1>1, CollectionTypes
<1> QED
  BY <1>1, <1>2, BumpAdvance, CollectionTypes, CollectionStep

\* The collection and the memberships that the request has seen go together.
LEMMA DeleteInv ==
    ASSUME RetrievalSound, NEW c \in Collections, DeleteCommits(c) PROVE RetrievalSound'
<1>1. /\ TypeOK /\ Bump /\ Observe /\ UNCHANGED <<swept, checked, cache>>
      /\ shelf' = [shelf EXCEPT ![c] = "deleted"]
      /\ member' = member \ deleting[c].seen
      /\ deleting' = [deleting EXCEPT ![c] = NotDeleting]
  BY DEF DeleteCommits, RetrievalSound
<1>2. /\ shelf' \in [Collections -> {"absent", "active", "deleted"}]
      /\ member' \subseteq Docs \X Collections
  BY <1>1, CollectionTypes
<1>3. NotDeleting \in [on : BOOLEAN, seen : SUBSET (Docs \X Collections)]
  BY DEF NotDeleting
<1>4. deleting' \in [Collections -> [on : BOOLEAN, seen : SUBSET (Docs \X Collections)]]
  BY <1>1, <1>3, CollectionTypes
<1> QED
  BY <1>1, <1>2, <1>4, BumpAdvance, CollectionTypes, CollectionStep

\* A document that no manifest lists joins a collection: no scope changes, and the revision
\* need not.
LEMMA UploadInv ==
    ASSUME RetrievalSound, NEW c \in Collections, NEW d \in Docs, UploadInto(d, c)
    PROVE  RetrievalSound'
<1>1. /\ TypeOK /\ Observe
      /\ UNCHANGED <<shown, gone, revision, manifests, swept, shelf, checked, deleting, cache>>
      /\ \A v \in Published : DocOf[v] # d
      /\ member' = member \cup {<<d, c>>}
  BY DEF UploadInto, RetrievalSound, content
<1>2. member' \subseteq Docs \X Collections
  BY <1>1, CollectionTypes
<1>3. Active' = Active
  BY <1>1 DEF Active
<1>4. \A g \in 0 .. Len(manifests) : \A v \in Manifest(g) : DocOf[v] # d
  <2> SUFFICES ASSUME NEW g \in 0 .. Len(manifests), NEW v \in Manifest(g) PROVE DocOf[v] # d
    OBVIOUS
  <2>1. g \in 1 .. Len(manifests)
    BY <1>1, ManifestTypes
  <2> QED
    BY <1>1, <2>1, Listed DEF ListedSound
<1>5. \A g \in 0 .. Len(manifests) : \A a :
         Scope(g, a, gone', Active', member') = ScopeNow(g, a)
  BY <1>1, <1>3, <1>4 DEF ScopeNow, Scope, Selects
<1>6. Advance
  <2>1. Len(manifests) \in Nat /\ revision \in Nat /\ Len(manifests') = Len(manifests)
    BY <1>1, ManifestTypes, CollectionTypes
  <2>2. \A g \in 0 .. Len(manifests) : Manifest(g)' = Manifest(g)
    BY <1>1 DEF Manifest
  <2>3. Len(manifests) <= Len(manifests') /\ gone \subseteq gone' /\ revision <= revision'
    BY <1>1, <2>1
  <2>4. revision' \in Nat /\ Len(manifests') \in Nat
    BY <1>1, <2>1
  <2> QED
    BY <1>3, <1>5, <2>1, <2>2, <2>3, <2>4, Zenon DEF Advance
<1> QED
  BY <1>1, <1>2, <1>6, CollectionTypes, CollectionStep

\* What is in scope does not change by itself.
LEMMA InstantKept ==
    ASSUME UNCHANGED <<gone, manifests, shelf, member>>
    PROVE  /\ Active' = Active
           /\ \A g : Manifest(g)' = Manifest(g) /\ (Kept(g)' <=> Kept(g))
           /\ \A g, a : ScopeNow(g, a)' = ScopeNow(g, a)
           /\ \A g, a, ever : Scope(g, a, gone, ever, member)' = Scope(g, a, gone, ever, member)
           /\ \A r : StageSound(r)' <=> StageSound(r)
<1>1. Active' = Active /\ \A g : Manifest(g)' = Manifest(g) /\ (Kept(g)' <=> Kept(g))
  BY DEF Active, Manifest, Kept
<1>2. \A g, a : ScopeNow(g, a)' = ScopeNow(g, a)
  BY <1>1 DEF ScopeNow, Scope
<1>3. \A g, a, ever : Scope(g, a, gone, ever, member)' = Scope(g, a, gone, ever, member)
  BY <1>1 DEF Scope
<1>4. ASSUME NEW r PROVE StageSound(r)' <=> StageSound(r)
  <2>1. Manifest(r.gen)' = Manifest(r.gen) /\ (Kept(r.gen)' <=> Kept(r.gen))
    BY <1>1
  <2> QED
    BY <2>1 DEF StageSound
<1> QED
  BY <1>1, <1>2, <1>3, <1>4

\* A step that leaves the keys and the bounds of the running questions alone, and the cache.
LEMMA BoundsKept ==
    ASSUME RetrievalSound, UNCHANGED <<content, shelf, member, cache>>,
           \A q \in Queries : Running(q)' <=> Running(q),
           \A q \in Queries : Running(q) =>
              /\ query'[q].ask = query[q].ask /\ query'[q].gen = query[q].gen
              /\ query'[q].rev = query[q].rev /\ query'[q].must = query[q].must
              /\ query'[q].may = query[q].may /\ query'[q].ever = query[q].ever
    PROVE  /\ KeysSound' /\ BoundsSound' /\ PresentSound' /\ TwinsSound' /\ EntriesSound'
           /\ CacheIsCurrent'
<1>1. UNCHANGED <<shown, gone, revision, manifests, shelf, member, cache>>
  BY DEF content
<1>2. KeysSound' /\ TwinsSound'
  BY <1>1 DEF RetrievalSound, KeysSound, TwinsSound
<1>3. BoundsSound'
  <2> SUFFICES ASSUME NEW q \in Queries, Running(q),
                      NEW g, NEW a, NEW ever, g = query[q].gen, a = query[q].ask,
                      ever = query[q].ever
               PROVE  /\ query[q].must \subseteq ScopeNow(g, a)'
                      /\ Scope(g, a, gone, ever, member)' \subseteq query[q].may
                      /\ Active' \subseteq query[q].ever
    BY <1>1 DEF BoundsSound
  <2> QED
    BY <1>1, InstantKept DEF RetrievalSound, BoundsSound
<1>4. PresentSound'
  <2> SUFFICES ASSUME NEW q \in Queries, Running(q), query[q].rev = revision,
                      NEW g, NEW a, g = query[q].gen, a = query[q].ask
               PROVE  /\ query[q].must = ScopeNow(g, a)'
                      /\ query[q].may = ScopeNow(g, a)'
                      /\ query[q].ever = Active'
    BY <1>1 DEF PresentSound
  <2> QED
    BY <1>1, InstantKept DEF RetrievalSound, PresentSound
<1>5. CacheIsCurrent'
  <2> SUFFICES ASSUME NEW e \in cache, e.gen = Len(manifests), e.rev = revision,
                      NEW g, NEW a, g = e.gen, a = e.ask
               PROVE  e.out = ScopeNow(g, a)'
    BY <1>1 DEF CacheIsCurrent
  <2> QED
    BY <1>1, InstantKept DEF RetrievalSound, CacheIsCurrent
<1>6. EntriesSound'
  BY <1>1 DEF RetrievalSound, EntriesSound, Kept, SameKey
<1> QED
  BY <1>2, <1>3, <1>4, <1>5, <1>6

\* A step that no question can notice: what it changes are the sweep and the deletions
\* under way.
LEMMA QuietStep ==
    ASSUME RetrievalSound, TypeOK', SweptSound',
           UNCHANGED <<content, shelf, member, query, cache>>
    PROVE  RetrievalSound'
<1>1. UNCHANGED <<shown, gone, revision, manifests, shelf, member, query, cache>>
  BY DEF content
<1>2. CatalogueSound'
  BY <1>1 DEF RetrievalSound, CatalogueSound, Manifest, Shown, Published
<1>3. NothingForeign' /\ NothingMissed'
  BY <1>1 DEF RetrievalSound, NothingForeign, NothingMissed
<1>4. StagesSound'
  <2> SUFFICES ASSUME NEW q \in Queries, NEW r, r = query[q] PROVE StageSound(r)'
    BY <1>1 DEF StagesSound
  <2> QED
    BY <1>1, InstantKept DEF RetrievalSound, StagesSound
<1>5. \A q \in Queries : Running(q)' <=> Running(q)
  BY <1>1 DEF Running
<1>6. /\ KeysSound' /\ BoundsSound' /\ PresentSound' /\ TwinsSound' /\ EntriesSound'
      /\ CacheIsCurrent'
  BY <1>1, <1>5, BoundsKept
<1> QED
  BY <1>2, <1>3, <1>4, <1>6 DEF RetrievalSound

\* A deletion notes the memberships of this instant.
LEMMA DeleteWritesInv ==
    ASSUME RetrievalSound, NEW c \in Collections, DeleteWrites(c) PROVE RetrievalSound'
<1>1. /\ TypeOK
      /\ UNCHANGED <<content, swept, shelf, member, checked, query, cache>>
      /\ deleting' = [deleting EXCEPT ![c] = [on |-> TRUE, seen |-> {p \in member : p[2] = c}]]
  BY DEF DeleteWrites, RetrievalSound
<1>2. [on |-> TRUE, seen |-> {p \in member : p[2] = c}]
         \in [on : BOOLEAN, seen : SUBSET (Docs \X Collections)]
  BY <1>1, CollectionTypes
<1>3. deleting' \in [Collections -> [on : BOOLEAN, seen : SUBSET (Docs \X Collections)]]
  BY <1>1, <1>2, CollectionTypes
<1>4. TypeOK'
  BY <1>1, <1>3 DEF TypeOK, content
<1>5. SweptSound'
  BY <1>1 DEF RetrievalSound, SweptSound, Published, Spared, content
<1> QED
  BY <1>1, <1>4, <1>5, QuietStep

\* Points, then rows, of what no retained manifest lists.
LEMMA SweepInv ==
    ASSUME RetrievalSound, NEW v \in Versions, Sweep(v) PROVE RetrievalSound'
<1>1. /\ TypeOK /\ SweptSound /\ v \in Published \ Spared
      /\ swept' = [swept EXCEPT ![v] = IF @ = "kept" THEN "points" ELSE "rows"]
      /\ UNCHANGED <<content, shelf, member, checked, deleting, query, cache>>
  BY DEF Sweep, RetrievalSound, collections
<1>2. swept' \in [Versions -> {"kept", "points", "rows"}]
  BY <1>1 DEF TypeOK
<1>3. TypeOK'
  BY <1>1, <1>2 DEF TypeOK, content
<1>4. Published' = Published /\ Spared' = Spared
  BY <1>1 DEF Published, Spared, content
<1>5. \A u \in Versions \ {v} : swept'[u] = swept[u]
  BY <1>1 DEF TypeOK
<1>6. SweptSound'
  BY <1>1, <1>4, <1>5 DEF SweptSound
<1> QED
  BY <1>1, <1>3, <1>6, QuietStep

-------------------------------------------------------------------------------
(* Questions *)

\* A question goes on: its key and its bounds stay, and what it has read is within them.
LEMMA RunStep ==
    ASSUME RetrievalSound, NEW q \in Queries, Running(q), NEW r \in QueryType,
           query' = [query EXCEPT ![q] = r], UNCHANGED <<content, swept, collections, cache>>,
           r.pc \notin {"new", "answer", "done"},
           r.ask = query[q].ask, r.gen = query[q].gen, r.rev = query[q].rev,
           r.must = query[q].must, r.may = query[q].may, r.ever = query[q].ever,
           StageSound(r)
    PROVE  RetrievalSound'
<1>1. /\ UNCHANGED <<shown, gone, revision, manifests, swept, shelf, member, checked, deleting>>
      /\ UNCHANGED cache
  BY DEF content, collections
<1>2. query \in [Queries -> QueryType]
  BY DEF RetrievalSound, TypeOK
<1>3. query'[q] = r /\ \A p \in Queries \ {q} : query'[p] = query[p]
  BY <1>2
<1>4. query' \in [Queries -> QueryType]
  BY <1>2
<1>5. TypeOK'
  BY <1>1, <1>4 DEF RetrievalSound, TypeOK
<1>6. CatalogueSound' /\ SweptSound'
  BY <1>1, CatalogueKept DEF RetrievalSound
<1>7. \A p \in Queries : Running(p)' <=> Running(p)
  BY <1>3 DEF Running
<1>8. /\ KeysSound' /\ BoundsSound' /\ PresentSound' /\ TwinsSound' /\ EntriesSound'
      /\ CacheIsCurrent'
  BY <1>1, <1>3, <1>7, BoundsKept DEF content
<1>9. StagesSound'
  <2> SUFFICES ASSUME NEW p \in Queries, NEW s, s = query'[p] PROVE StageSound(s)'
    BY DEF StagesSound
  <2>1. StageSound(s)
    BY <1>3 DEF RetrievalSound, StagesSound
  <2> QED
    BY <1>1, <2>1, InstantKept
<1>10. NothingForeign'
  BY <1>1, <1>3 DEF RetrievalSound, NothingForeign
<1>11. NothingMissed'
  BY <1>1, <1>3 DEF RetrievalSound, NothingMissed
<1> QED
  BY <1>5, <1>6, <1>8, <1>9, <1>10, <1>11 DEF RetrievalSound

\* An entry of the cache may be used.
EntrySound(e) ==
    /\ e.rev <= revision
    /\ e.gen = Len(manifests) /\ e.rev = revision => e.out = ScopeNow(e.gen, e.ask)
    /\ \A q \in Queries : Running(q) /\ SameKey(e, q) =>
          /\ e.out \subseteq query[q].may
          /\ Kept(query[q].gen) => query[q].must \subseteq e.out

\* The entries of the cache are sound.
LEMMA CacheSound == ASSUME RetrievalSound PROVE \A e \in cache : EntrySound(e)
  BY DEF RetrievalSound, KeysSound, CacheIsCurrent, EntriesSound, EntrySound

\* A question ends, with an answer within its bounds or with none.
LEMMA StopStep ==
    ASSUME RetrievalSound, NEW q \in Queries, NEW r \in QueryType,
           query' = [query EXCEPT ![q] = r], UNCHANGED <<content, swept, collections>>,
           r.pc \in {"answer", "done"},
           r.pc = "answer" => r.out \subseteq r.may /\ (Kept(r.gen) => r.must \subseteq r.out),
           cache' \subseteq [gen : Nat, rev : Nat, ask : Asks, out : SUBSET Versions],
           \A e \in cache' : EntrySound(e)
    PROVE  RetrievalSound'
<1>1. UNCHANGED <<shown, gone, revision, manifests, swept, shelf, member, checked, deleting>>
  BY DEF content, collections
<1>2. query \in [Queries -> QueryType]
  BY DEF RetrievalSound, TypeOK
<1>3. query'[q] = r /\ \A p \in Queries \ {q} : query'[p] = query[p]
  BY <1>2
<1>4. query' \in [Queries -> QueryType]
  BY <1>2
<1>5. TypeOK'
  BY <1>1, <1>4 DEF RetrievalSound, TypeOK
<1>6. CatalogueSound' /\ SweptSound'
  BY <1>1, CatalogueKept DEF RetrievalSound
<1>7. \A p \in Queries : Running(p)' => Running(p) /\ query'[p] = query[p]
  BY <1>3 DEF Running
<1>8. KeysSound'
  BY <1>1, <1>7 DEF RetrievalSound, KeysSound, EntrySound
<1>9. TwinsSound'
  BY <1>7 DEF RetrievalSound, TwinsSound
<1>10. BoundsSound'
  <2> SUFFICES ASSUME NEW p \in Queries, Running(p), query'[p] = query[p],
                      NEW g, NEW a, NEW ever, g = query[p].gen, a = query[p].ask,
                      ever = query[p].ever
               PROVE  /\ query[p].must \subseteq ScopeNow(g, a)'
                      /\ Scope(g, a, gone, ever, member)' \subseteq query[p].may
                      /\ Active' \subseteq query[p].ever
    BY <1>7 DEF BoundsSound
  <2> QED
    BY <1>1, InstantKept DEF RetrievalSound, BoundsSound
<1>11. PresentSound'
  <2> SUFFICES ASSUME NEW p \in Queries, Running(p), query'[p] = query[p],
                      query[p].rev = revision,
                      NEW g, NEW a, g = query[p].gen, a = query[p].ask
               PROVE  /\ query[p].must = ScopeNow(g, a)'
                      /\ query[p].may = ScopeNow(g, a)'
                      /\ query[p].ever = Active'
    BY <1>1, <1>7 DEF PresentSound
  <2> QED
    BY <1>1, InstantKept DEF RetrievalSound, PresentSound
<1>12. CacheIsCurrent'
  <2> SUFFICES ASSUME NEW e \in cache', e.gen = Len(manifests), e.rev = revision,
                      NEW g, NEW a, g = e.gen, a = e.ask
               PROVE  e.out = ScopeNow(g, a)'
    BY <1>1 DEF CacheIsCurrent
  <2> QED
    BY <1>1, InstantKept DEF EntrySound
<1>13. EntriesSound'
  BY <1>1, <1>7 DEF EntriesSound, EntrySound, Kept, SameKey
<1>14. StagesSound'
  <2> SUFFICES ASSUME NEW p \in Queries, NEW s, s = query'[p] PROVE StageSound(s)'
    BY DEF StagesSound
  <2>1. CASE p = q
    BY <1>3, <2>1 DEF StageSound
  <2>2. CASE p # q
    <3>1. StageSound(s)
      BY <1>3, <2>2 DEF RetrievalSound, StagesSound
    <3> QED
      BY <1>1, <3>1, InstantKept
  <2> QED
    BY <2>1, <2>2
<1>15. NothingForeign'
  BY <1>3 DEF RetrievalSound, NothingForeign
<1>16. NothingMissed'
  BY <1>1, <1>3 DEF RetrievalSound, NothingMissed, Kept
<1> QED
  BY <1>5, <1>6, <1>8, <1>9, <1>10, <1>11, <1>12, <1>13, <1>14, <1>15, <1>16
     DEF RetrievalSound

\* A question begins, under the key of this instant.
LEMMA BeginInv ==
    ASSUME RetrievalSound, NEW q \in Queries, NEW a \in Asks, Begin(q, a)
    PROVE  RetrievalSound'
<1>1. PICK n, now :
         /\ n = Len(manifests) /\ now = ScopeNow(n, a)
         /\ query' = [query EXCEPT ![q] =
               [NoQuery EXCEPT !.pc = "manifest", !.ask = a, !.gen = n, !.rev = revision,
                               !.must = now, !.may = now, !.ever = Active]]
         /\ UNCHANGED <<content, swept, collections, cache>> /\ query[q].pc = "new"
  BY DEF Begin
<1>2. PICK r : r = [NoQuery EXCEPT !.pc = "manifest", !.ask = a, !.gen = n, !.rev = revision,
                                   !.must = now, !.may = now, !.ever = Active]
  OBVIOUS
<1>3. /\ UNCHANGED <<shown, gone, revision, manifests, swept, shelf, member, checked, deleting>>
      /\ UNCHANGED cache
  BY <1>1 DEF content, collections
<1>4. n \in Nat /\ n \in 0 .. Len(manifests) /\ revision \in Nat
  BY <1>1, ManifestTypes DEF RetrievalSound, TypeOK
<1>5. now \subseteq Versions /\ Active \subseteq Collections
  BY <1>1, <1>4, ManifestTypes DEF RetrievalSound, ScopeNow, Scope, Active
<1>6. /\ r \in QueryType /\ r.pc = "manifest" /\ r.ask = a /\ r.gen = n /\ r.rev = revision
      /\ r.must = now /\ r.may = now /\ r.ever = Active /\ r.out = {}
  BY <1>2, <1>4, <1>5 DEF NoQuery, QueryType
<1>7. query \in [Queries -> QueryType]
  BY DEF RetrievalSound, TypeOK
<1>8. query'[q] = r /\ \A p \in Queries \ {q} : query'[p] = query[p]
  BY <1>1, <1>2, <1>7
<1>9. TypeOK'
  <2>1. query' \in [Queries -> QueryType]
    BY <1>1, <1>2, <1>6, <1>7
  <2> QED
    BY <1>3, <2>1 DEF RetrievalSound, TypeOK
<1>10. CatalogueSound' /\ SweptSound'
  BY <1>3, CatalogueKept DEF RetrievalSound
<1>11. \A p \in Queries \ {q} : Running(p)' <=> Running(p)
  BY <1>8 DEF Running
<1>12. KeysSound'
  <2>1. \A p \in Queries \ {q} : Running(p)' =>
           /\ query'[p].ask \in Asks /\ query'[p].gen <= Len(manifests')
           /\ query'[p].rev <= revision'
           /\ query'[p].rev = revision' => query'[p].gen = Len(manifests')
    BY <1>3, <1>8, <1>11 DEF RetrievalSound, KeysSound
  <2>2. /\ query'[q].ask \in Asks /\ query'[q].gen <= Len(manifests')
        /\ query'[q].rev <= revision' /\ query'[q].gen = Len(manifests')
    BY <1>1, <1>3, <1>4, <1>6, <1>8
  <2>3. \A e \in cache' : e.rev <= revision'
    BY <1>3 DEF RetrievalSound, KeysSound
  <2> QED
    BY <2>1, <2>2, <2>3 DEF KeysSound
<1>13. BoundsSound'
  <2> SUFFICES ASSUME NEW p \in Queries, Running(p)', NEW s, s = query'[p],
                      NEW g, NEW b, NEW ever, g = s.gen, b = s.ask, ever = s.ever
               PROVE  /\ s.must \subseteq ScopeNow(g, b)'
                      /\ Scope(g, b, gone, ever, member)' \subseteq s.may
                      /\ Active' \subseteq s.ever
    BY DEF BoundsSound
  <2>1. /\ s.must \subseteq ScopeNow(g, b) /\ Scope(g, b, gone, ever, member) \subseteq s.may
        /\ Active \subseteq s.ever
    <3>1. CASE p = q
      BY <1>1, <1>6, <1>8, <3>1 DEF ScopeNow
    <3>2. CASE p # q
      BY <1>8, <1>11, <3>2 DEF RetrievalSound, BoundsSound
    <3> QED
      BY <3>1, <3>2
  <2> QED
    BY <1>3, <2>1, InstantKept
<1>14. PresentSound'
  <2> SUFFICES ASSUME NEW p \in Queries, Running(p)', NEW s, s = query'[p], s.rev = revision,
                      NEW g, NEW b, g = s.gen, b = s.ask
               PROVE  s.must = ScopeNow(g, b)' /\ s.may = ScopeNow(g, b)' /\ s.ever = Active'
    BY <1>3 DEF PresentSound
  <2>1. s.must = ScopeNow(g, b) /\ s.may = ScopeNow(g, b) /\ s.ever = Active
    <3>1. CASE p = q
      BY <1>1, <1>6, <1>8, <3>1
    <3>2. CASE p # q
      BY <1>8, <1>11, <3>2 DEF RetrievalSound, PresentSound
    <3> QED
      BY <3>1, <3>2
  <2> QED
    BY <1>3, <2>1, InstantKept
<1>15. ASSUME NEW p \in Queries \ {q}, Running(p), query[p].gen = n, query[p].rev = revision,
              query[p].ask = a
       PROVE  query[p].must = now /\ query[p].may = now /\ query[p].ever = Active
  BY <1>1, <1>15 DEF RetrievalSound, PresentSound
<1>16. TwinsSound'
  <2> SUFFICES ASSUME NEW p \in Queries, NEW o \in Queries, Running(p)', Running(o)',
                      query'[p].gen = query'[o].gen, query'[p].rev = query'[o].rev,
                      query'[p].ask = query'[o].ask
               PROVE  /\ query'[p].must = query'[o].must /\ query'[p].may = query'[o].may
                      /\ query'[p].ever = query'[o].ever
    BY DEF TwinsSound
  <2>1. CASE p # q /\ o # q
    BY <1>8, <1>11, <2>1 DEF RetrievalSound, TwinsSound
  <2>2. CASE p = q /\ o # q
    BY <1>6, <1>8, <1>11, <1>15, <2>2
  <2>3. CASE p # q /\ o = q
    BY <1>6, <1>8, <1>11, <1>15, <2>3
  <2> QED
    BY <2>1, <2>2, <2>3
<1>17. CacheIsCurrent'
  <2> SUFFICES ASSUME NEW e \in cache, e.gen = Len(manifests), e.rev = revision,
                      NEW g, NEW b, g = e.gen, b = e.ask
               PROVE  e.out = ScopeNow(g, b)'
    BY <1>3 DEF CacheIsCurrent
  <2> QED
    BY <1>3, InstantKept DEF RetrievalSound, CacheIsCurrent
<1>18. EntriesSound'
  <2> SUFFICES ASSUME NEW e \in cache, NEW p \in Queries, Running(p)', NEW s, s = query'[p],
                      e.gen = s.gen, e.rev = s.rev, e.ask = s.ask
               PROVE  e.out \subseteq s.may /\ (Kept(s.gen) => s.must \subseteq e.out)
    BY <1>3 DEF EntriesSound, SameKey, Kept
  <2>1. CASE p = q
    <3>1. e.out = now
      BY <1>1, <1>6, <1>8, <2>1 DEF RetrievalSound, CacheIsCurrent
    <3> QED
      BY <1>6, <1>8, <2>1, <3>1
  <2>2. CASE p # q
    BY <1>8, <1>11, <2>2 DEF RetrievalSound, EntriesSound, SameKey
  <2> QED
    BY <2>1, <2>2
<1>19. StagesSound'
  <2> SUFFICES ASSUME NEW p \in Queries, NEW s, s = query'[p] PROVE StageSound(s)'
    BY DEF StagesSound
  <2>1. StageSound(s)
    <3>1. CASE p = q
      BY <1>6, <1>8, <3>1 DEF StageSound
    <3>2. CASE p # q
      BY <1>8, <3>2 DEF RetrievalSound, StagesSound
    <3> QED
      BY <3>1, <3>2
  <2> QED
    BY <1>3, <2>1, InstantKept
<1>20. NothingForeign'
  BY <1>6, <1>8 DEF RetrievalSound, NothingForeign
<1>21. NothingMissed'
  BY <1>3, <1>6, <1>8 DEF RetrievalSound, NothingMissed
<1> QED
  BY <1>9, <1>10, <1>12, <1>13, <1>14, <1>16, <1>17, <1>18, <1>19, <1>20, <1>21
     DEF RetrievalSound

\* The question ends without an answer.
LEMMA EndStep ==
    ASSUME RetrievalSound, NEW q \in Queries, End(q),
           UNCHANGED <<content, swept, collections, cache>>
    PROVE  RetrievalSound'
<1>1. PICK r : r = [NoQuery EXCEPT !.pc = "done"]
  OBVIOUS
<1>2. r \in QueryType /\ r.pc = "done"
  BY <1>1 DEF NoQuery, QueryType
<1>3. query' = [query EXCEPT ![q] = r]
  BY <1>1 DEF End
<1>4. cache \subseteq [gen : Nat, rev : Nat, ask : Asks, out : SUBSET Versions]
  BY DEF RetrievalSound, TypeOK
<1> QED
  BY <1>2, <1>3, <1>4, CacheSound, StopStep

\* The question ends with an answer.
LEMMA AnswerStep ==
    ASSUME RetrievalSound, NEW q \in Queries, NEW out \in SUBSET Versions, Answer(q, out),
           UNCHANGED <<content, swept, collections>>,
           out \subseteq query[q].may,
           Kept(query[q].gen) => query[q].must \subseteq out,
           cache' \subseteq [gen : Nat, rev : Nat, ask : Asks, out : SUBSET Versions],
           \A e \in cache' : EntrySound(e)
    PROVE  RetrievalSound'
<1>1. PICK gen, must, may : gen = query[q].gen /\ must = query[q].must /\ may = query[q].may
  OBVIOUS
<1>2. gen \in Nat /\ must \subseteq Versions /\ may \subseteq Versions
  BY <1>1, QueryFields DEF RetrievalSound
<1>3. PICK r : r = [NoQuery EXCEPT !.pc = "answer", !.gen = gen, !.out = out,
                                   !.must = must, !.may = may]
  OBVIOUS
<1>4. /\ r \in QueryType /\ r.pc = "answer" /\ r.gen = gen /\ r.out = out
      /\ r.must = must /\ r.may = may
  BY <1>2, <1>3 DEF NoQuery, QueryType
<1>5. query' = [query EXCEPT ![q] = r]
  BY <1>1, <1>3 DEF Answer
<1> QED
  BY <1>1, <1>4, <1>5, StopStep

\* What is known of a question under way.
LEMMA QuestionFacts ==
    ASSUME RetrievalSound, NEW q \in Queries, Running(q), NEW old, old = query[q]
    PROVE  /\ old \in QueryType /\ old.gen \in Nat /\ old.gen \in 0 .. Len(manifests)
           /\ old.ask \in Asks /\ old.docs \subseteq Versions /\ old.scope \subseteq Versions
           /\ old.out \subseteq Versions /\ Active \subseteq Collections
           /\ old.must \subseteq Versions /\ old.must \subseteq ScopeNow(old.gen, old.ask)
           /\ Scope(old.gen, old.ask, gone, old.ever, member) \subseteq old.may
           /\ Active \subseteq old.ever
           /\ StageSound(old)
<1>1. TypeOK /\ KeysSound /\ BoundsSound /\ StagesSound
  BY DEF RetrievalSound
<1>2. old.gen \in Nat /\ old.gen \in 0 .. Len(manifests) /\ old.ask \in Asks
  BY <1>1, QueryFields, ManifestTypes DEF KeysSound
<1>3. /\ old \in QueryType /\ old.docs \subseteq Versions /\ old.scope \subseteq Versions
      /\ old.out \subseteq Versions /\ old.must \subseteq Versions
  BY <1>1, QueryFields
<1>4. Active \subseteq Collections
  BY DEF Active
<1> QED
  BY <1>1, <1>2, <1>3, <1>4 DEF BoundsSound, StagesSound

\* The manifest without the deleted documents holds what the question must find.
LEMMA ReadManifestInv ==
    ASSUME RetrievalSound, NEW q \in Queries, ReadManifest(q) PROVE RetrievalSound'
<1>1. PICK old : old = query[q]
  OBVIOUS
<1>2. PICK docs : docs = {v \in Manifest(old.gen) : DocOf[v] \notin gone}
  OBVIOUS
<1>3. /\ old.pc = "manifest" /\ UNCHANGED <<content, swept, collections, cache>>
      /\ \/ End(q)
         \/ query' = [query EXCEPT ![q].pc = "collections", ![q].docs = docs]
  BY <1>1, <1>2 DEF ReadManifest
<1>4. CASE End(q)
  BY <1>3, <1>4, EndStep
<1>5. CASE query' = [query EXCEPT ![q].pc = "collections", ![q].docs = docs]
  <2>1. Running(q)
    BY <1>1, <1>3 DEF Running
  <2>2. /\ old \in QueryType /\ old.gen \in 0 .. Len(manifests)
        /\ old.must \subseteq ScopeNow(old.gen, old.ask) /\ StageSound(old)
    BY <1>1, <2>1, QuestionFacts
  <2>3. docs \subseteq Versions
    BY <1>2, <2>2, ManifestTypes DEF RetrievalSound
  <2>4. PICK r : r = [old EXCEPT !.pc = "collections", !.docs = docs]
    OBVIOUS
  <2>5. /\ r \in QueryType /\ r.pc = "collections" /\ r.docs = docs /\ r.out = old.out
        /\ r.ask = old.ask /\ r.gen = old.gen /\ r.rev = old.rev
        /\ r.must = old.must /\ r.may = old.may /\ r.ever = old.ever
    BY <2>2, <2>3, <2>4 DEF QueryType
  <2>6. query' = [query EXCEPT ![q] = r]
    BY <1>1, <1>5, <2>4 DEF RetrievalSound, TypeOK
  <2>7. old.must \subseteq docs /\ docs \subseteq Manifest(old.gen)
    BY <1>2, <2>2 DEF ScopeNow, Scope
  <2>8. StageSound(r)
    BY <1>3, <2>2, <2>5, <2>7 DEF StageSound
  <2> QED
    BY <1>1, <1>3, <2>1, <2>5, <2>6, <2>8, RunStep
<1> QED
  BY <1>3, <1>4, <1>5

\* What the question must find was selected by a collection that is still active.
LEMMA ReadCollectionsInv ==
    ASSUME RetrievalSound, NEW q \in Queries, ReadCollections(q) PROVE RetrievalSound'
<1>1. PICK old : old = query[q]
  OBVIOUS
<1>3. /\ old.pc = "collections" /\ UNCHANGED <<content, swept, collections, cache>>
      /\ \/ End(q)
         \/ query' = [query EXCEPT ![q].pc = "members", ![q].active = Active]
  BY <1>1 DEF ReadCollections
<1>4. CASE End(q)
  BY <1>3, <1>4, EndStep
<1>5. CASE query' = [query EXCEPT ![q].pc = "members", ![q].active = Active]
  <2>1. Running(q)
    BY <1>1, <1>3 DEF Running
  <2>2. /\ old \in QueryType /\ Active \subseteq Collections /\ Active \subseteq old.ever
        /\ old.must \subseteq ScopeNow(old.gen, old.ask) /\ StageSound(old)
    BY <1>1, <2>1, QuestionFacts
  <2>4. PICK r : r = [old EXCEPT !.pc = "members", !.active = Active]
    OBVIOUS
  <2>5. /\ r \in QueryType /\ r.pc = "members" /\ r.active = Active /\ r.docs = old.docs
        /\ r.out = old.out
        /\ r.ask = old.ask /\ r.gen = old.gen /\ r.rev = old.rev
        /\ r.must = old.must /\ r.may = old.may /\ r.ever = old.ever
    BY <2>2, <2>4 DEF QueryType
  <2>6. query' = [query EXCEPT ![q] = r]
    BY <1>1, <1>5, <2>4 DEF RetrievalSound, TypeOK
  <2>7. \A v \in old.must : old.ask = Everything \/ old.ask = DocOf[v] \/ old.ask \in Active
    BY <2>2 DEF ScopeNow, Scope, Selects
  <2>8. StageSound(r)
    BY <1>3, <2>2, <2>5, <2>7 DEF StageSound
  <2> QED
    BY <1>1, <1>3, <2>1, <2>5, <2>6, <2>8, RunStep
<1> QED
  BY <1>3, <1>4, <1>5

\* The scope: with collections that were active since the question began, and with the
\* memberships of this instant.
LEMMA ReadMembersInv ==
    ASSUME RetrievalSound, NEW q \in Queries, ReadMembers(q) PROVE RetrievalSound'
<1>1. PICK old : old = query[q]
  OBVIOUS
<1>2. PICK scope : scope = {v \in old.docs : Selects(old.ask, DocOf[v], old.active, member)}
  OBVIOUS
<1>3. /\ old.pc = "members" /\ UNCHANGED <<content, swept, collections, cache>>
      /\ query' = [query EXCEPT ![q].pc = "cache", ![q].docs = {}, ![q].active = {},
                                ![q].scope = scope]
  BY <1>1, <1>2 DEF ReadMembers
<1>4. Running(q)
  BY <1>1, <1>3 DEF Running
<1>5. /\ old \in QueryType /\ old.docs \subseteq Versions
      /\ old.must \subseteq ScopeNow(old.gen, old.ask) /\ StageSound(old)
      /\ Scope(old.gen, old.ask, gone, old.ever, member) \subseteq old.may
  BY <1>1, <1>4, QuestionFacts
<1>6. PICK r : r = [old EXCEPT !.pc = "cache", !.docs = {}, !.active = {}, !.scope = scope]
  OBVIOUS
<1>7. /\ r \in QueryType /\ r.pc = "cache" /\ r.scope = scope /\ r.out = old.out
      /\ r.ask = old.ask /\ r.gen = old.gen /\ r.rev = old.rev
      /\ r.must = old.must /\ r.may = old.may /\ r.ever = old.ever
  BY <1>2, <1>5, <1>6 DEF QueryType
<1>8. query' = [query EXCEPT ![q] = r]
  BY <1>1, <1>3, <1>6 DEF RetrievalSound, TypeOK
<1>9. /\ old.docs \subseteq Manifest(old.gen) /\ old.must \subseteq old.docs
      /\ old.active \subseteq old.ever /\ old.out = {}
      /\ \A v \in old.must : old.ask = Everything \/ old.ask = DocOf[v] \/ old.ask \in old.active
  BY <1>3, <1>5 DEF StageSound
<1>10. scope \subseteq old.may \cup {v \in Versions : DocOf[v] \in gone}
  <2> SUFFICES ASSUME NEW v \in scope, DocOf[v] \notin gone PROVE v \in old.may
    BY <1>2, <1>5
  <2>1. v \in Manifest(old.gen) /\ Selects(old.ask, DocOf[v], old.ever, member)
    BY <1>2, <1>9 DEF Selects
  <2> QED
    BY <1>5, <2>1 DEF Scope
<1>11. old.must \subseteq scope
  BY <1>2, <1>5, <1>9 DEF ScopeNow, Scope, Selects
<1>12. StageSound(r)
  BY <1>7, <1>9, <1>10, <1>11 DEF StageSound
<1> QED
  BY <1>1, <1>3, <1>4, <1>7, <1>8, <1>12, RunStep

\* An entry under the key of the question is within its bounds.
LEMMA CacheHitInv ==
    ASSUME RetrievalSound, NEW q \in Queries, CacheHit(q) PROVE RetrievalSound'
<1>1. /\ query[q].pc = "cache" /\ UNCHANGED <<content, swept, collections>> /\ cache' = cache
  BY DEF CacheHit
<1>2. PICK e \in cache : SameKey(e, q) /\ Answer(q, e.out)
  BY DEF CacheHit
<1>3. Running(q)
  BY <1>1 DEF Running
<1>4. e.out \subseteq query[q].may /\ (Kept(query[q].gen) => query[q].must \subseteq e.out)
  BY <1>2, <1>3 DEF RetrievalSound, EntriesSound
<1>5. cache \subseteq [gen : Nat, rev : Nat, ask : Asks, out : SUBSET Versions]
  BY DEF RetrievalSound, TypeOK
<1>6. PICK out : out = e.out
  OBVIOUS
<1>7. out \in SUBSET Versions
  BY <1>5, <1>6
<1> QED
  BY <1>1, <1>2, <1>4, <1>5, <1>6, <1>7, CacheSound, AnswerStep

\* In an empty scope there is nothing that the question must find.
LEMMA CacheMissInv ==
    ASSUME RetrievalSound, NEW q \in Queries, CacheMiss(q) PROVE RetrievalSound'
<1>1. PICK old : old = query[q]
  OBVIOUS
<1>2. PICK pc : pc = IF old.scope = {} THEN "store" ELSE "search"
  OBVIOUS
<1>3. /\ old.pc = "cache" /\ UNCHANGED <<content, swept, collections, cache>>
      /\ query' = [query EXCEPT ![q].pc = pc]
  BY <1>1, <1>2 DEF CacheMiss, Goto
<1>4. Running(q)
  BY <1>1, <1>3 DEF Running
<1>5. old \in QueryType /\ StageSound(old)
  BY <1>1, <1>4, QuestionFacts
<1>6. PICK r : r = [old EXCEPT !.pc = pc]
  OBVIOUS
<1>7. /\ r \in QueryType /\ r.pc = pc /\ r.scope = old.scope /\ r.out = old.out
      /\ r.ask = old.ask /\ r.gen = old.gen /\ r.rev = old.rev
      /\ r.must = old.must /\ r.may = old.may /\ r.ever = old.ever
  BY <1>2, <1>5, <1>6 DEF QueryType
<1>8. query' = [query EXCEPT ![q] = r]
  BY <1>1, <1>3, <1>6 DEF RetrievalSound, TypeOK
<1>9. StageSound(r)
  BY <1>2, <1>3, <1>5, <1>7 DEF StageSound
<1>10. r.pc \notin {"new", "answer", "done"}
  BY <1>2, <1>7
<1> QED
  BY <1>1, <1>3, <1>4, <1>7, <1>8, <1>9, <1>10, RunStep

\* The index still has what the question must find, if its generation is retained.
LEMMA SearchInv ==
    ASSUME RetrievalSound, NEW q \in Queries, Search(q) PROVE RetrievalSound'
<1>1. PICK old : old = query[q]
  OBVIOUS
<1>2. PICK out : out = {v \in old.scope : swept[v] = "kept"}
  OBVIOUS
<1>3. /\ old.pc = "search" /\ UNCHANGED <<content, swept, collections, cache>>
      /\ query' = [query EXCEPT ![q].pc = "hydrate", ![q].scope = {}, ![q].out = out]
  BY <1>1, <1>2 DEF Search
<1>4. Running(q)
  BY <1>1, <1>3 DEF Running
<1>5. /\ old \in QueryType /\ old.scope \subseteq Versions /\ StageSound(old)
      /\ old.gen \in Nat /\ old.gen \in 0 .. Len(manifests)
      /\ old.must \subseteq ScopeNow(old.gen, old.ask)
  BY <1>1, <1>4, QuestionFacts
<1>6. PICK r : r = [old EXCEPT !.pc = "hydrate", !.scope = {}, !.out = out]
  OBVIOUS
<1>7. /\ r \in QueryType /\ r.pc = "hydrate" /\ r.out = out
      /\ r.ask = old.ask /\ r.gen = old.gen /\ r.rev = old.rev
      /\ r.must = old.must /\ r.may = old.may /\ r.ever = old.ever
  BY <1>2, <1>5, <1>6 DEF QueryType
<1>8. query' = [query EXCEPT ![q] = r]
  BY <1>1, <1>3, <1>6 DEF RetrievalSound, TypeOK
<1>9. /\ old.scope \subseteq old.may \cup {v \in Versions : DocOf[v] \in gone}
      /\ old.must \subseteq old.scope
  BY <1>3, <1>5 DEF StageSound
<1>10. ASSUME Kept(old.gen) PROVE old.must \subseteq out
  <2>1. old.gen <= Len(manifests) /\ TypeOK /\ SweptSound
    BY <1>5, ManifestTypes DEF RetrievalSound
  <2>2. PICK g \in Nat : g = old.gen
    BY <1>5
  <2>3. \A v \in Manifest(g) : swept[v] = "kept"
    BY <1>10, <2>1, <2>2, KeptUnswept
  <2>4. old.must \subseteq Manifest(g)
    BY <1>5, <2>2 DEF ScopeNow, Scope
  <2> QED
    BY <1>2, <1>9, <2>3, <2>4
<1>11. StageSound(r)
  BY <1>2, <1>7, <1>9, <1>10 DEF StageSound
<1> QED
  BY <1>1, <1>3, <1>4, <1>7, <1>8, <1>11, RunStep

\* The rows of a deleted document are passed over, and the others are still there.
LEMMA HydrateInv ==
    ASSUME RetrievalSound, NEW q \in Queries, Hydrate(q) PROVE RetrievalSound'
<1>1. PICK old : old = query[q]
  OBVIOUS
<1>2. PICK out : out = {v \in old.out : swept[v] # "rows" /\ DocOf[v] \notin gone}
  OBVIOUS
<1>3. /\ old.pc = "hydrate" /\ UNCHANGED <<content, swept, collections, cache>>
      /\ query' = [query EXCEPT ![q].pc = "store", ![q].out = out]
  BY <1>1, <1>2 DEF Hydrate
<1>4. Running(q)
  BY <1>1, <1>3 DEF Running
<1>5. /\ old \in QueryType /\ old.out \subseteq Versions /\ StageSound(old)
      /\ old.gen \in Nat /\ old.gen \in 0 .. Len(manifests)
      /\ old.must \subseteq ScopeNow(old.gen, old.ask)
  BY <1>1, <1>4, QuestionFacts
<1>6. PICK r : r = [old EXCEPT !.pc = "store", !.out = out]
  OBVIOUS
<1>7. /\ r \in QueryType /\ r.pc = "store" /\ r.out = out
      /\ r.ask = old.ask /\ r.gen = old.gen /\ r.rev = old.rev
      /\ r.must = old.must /\ r.may = old.may /\ r.ever = old.ever
  BY <1>2, <1>5, <1>6 DEF QueryType
<1>8. query' = [query EXCEPT ![q] = r]
  BY <1>1, <1>3, <1>6 DEF RetrievalSound, TypeOK
<1>9. /\ old.out \subseteq old.may \cup {v \in Versions : DocOf[v] \in gone}
      /\ Kept(old.gen) => old.must \subseteq old.out
  BY <1>3, <1>5 DEF StageSound
<1>10. ASSUME Kept(old.gen) PROVE old.must \subseteq out
  <2>1. old.gen <= Len(manifests) /\ TypeOK /\ SweptSound
    BY <1>5, ManifestTypes DEF RetrievalSound
  <2>2. PICK g \in Nat : g = old.gen
    BY <1>5
  <2>3. \A v \in Manifest(g) : swept[v] = "kept"
    BY <1>10, <2>1, <2>2, KeptUnswept
  <2>4. old.must \subseteq Manifest(g) /\ \A v \in old.must : DocOf[v] \notin gone
    BY <1>5, <2>2 DEF ScopeNow, Scope
  <2> QED
    BY <1>2, <1>9, <1>10, <2>3, <2>4
<1>11. out \subseteq old.may
  BY <1>2, <1>9
<1>12. StageSound(r)
  BY <1>7, <1>10, <1>11 DEF StageSound
<1> QED
  BY <1>1, <1>3, <1>4, <1>7, <1>8, <1>12, RunStep

\* The result becomes an entry under a key that is still the key of its bounds.
LEMMA StoreInv ==
    ASSUME RetrievalSound, NEW q \in Queries, Store(q) PROVE RetrievalSound'
<1>1. PICK old : old = query[q]
  OBVIOUS
<1>2. PICK out : out = old.out
  OBVIOUS
<1>3. PICK new : new = [gen |-> old.gen, rev |-> old.rev, ask |-> old.ask, out |-> out]
  OBVIOUS
<1>4. /\ old.pc = "store" /\ UNCHANGED <<content, swept, collections>> /\ Answer(q, out)
      /\ cache' \subseteq cache \cup {new}
  BY <1>1, <1>2, <1>3 DEF Store
<1>5. Running(q)
  BY <1>1, <1>4 DEF Running
<1>6. /\ old.gen \in Nat /\ old.ask \in Asks /\ old.out \subseteq Versions /\ StageSound(old)
  BY <1>1, <1>5, QuestionFacts
<1>7. old.rev \in Nat /\ old.rev <= revision
  BY <1>1, <1>5, QueryFields DEF RetrievalSound, KeysSound
<1>8. /\ new.gen = old.gen /\ new.rev = old.rev /\ new.ask = old.ask /\ new.out = out
      /\ new \in [gen : Nat, rev : Nat, ask : Asks, out : SUBSET Versions]
  BY <1>2, <1>3, <1>6, <1>7
<1>9. out \subseteq old.may /\ (Kept(old.gen) => old.must \subseteq out)
  BY <1>2, <1>4, <1>6 DEF StageSound
<1>10. cache' \subseteq [gen : Nat, rev : Nat, ask : Asks, out : SUBSET Versions]
  BY <1>4, <1>8 DEF RetrievalSound, TypeOK
<1>11. EntrySound(new)
  <2>1. new.gen = Len(manifests) /\ new.rev = revision => new.out = ScopeNow(new.gen, new.ask)
    <3> SUFFICES ASSUME old.gen = Len(manifests), old.rev = revision
                 PROVE  out = ScopeNow(old.gen, old.ask)
      BY <1>8
    <3>1. Kept(old.gen)
      BY LatestKept DEF RetrievalSound
    <3>2. old.must = ScopeNow(old.gen, old.ask) /\ old.may = ScopeNow(old.gen, old.ask)
      BY <1>1, <1>5 DEF RetrievalSound, PresentSound
    <3> QED
      BY <1>9, <3>1, <3>2
  <2>2. ASSUME NEW p \in Queries, Running(p), SameKey(new, p)
        PROVE  /\ new.out \subseteq query[p].may
               /\ Kept(query[p].gen) => query[p].must \subseteq new.out
    <3>1. query[p].gen = old.gen /\ query[p].rev = old.rev /\ query[p].ask = old.ask
      BY <1>8, <2>2 DEF SameKey
    <3>2. query[p].must = old.must /\ query[p].may = old.may
      BY <1>1, <1>5, <2>2, <3>1 DEF RetrievalSound, TwinsSound
    <3> QED
      BY <1>8, <1>9, <3>1, <3>2
  <2> QED
    BY <1>7, <1>8, <2>1, <2>2 DEF EntrySound
<1>12. \A e \in cache' : EntrySound(e)
  BY <1>4, <1>11, CacheSound
<1>13. out \in SUBSET Versions
  BY <1>2, <1>6
<1> QED
  BY <1>1, <1>4, <1>9, <1>10, <1>12, <1>13, AnswerStep

-------------------------------------------------------------------------------
(* The theorems *)

\* Nothing is there, and nothing is asked.
LEMMA InitSound == Init => RetrievalSound
<1> SUFFICES ASSUME Init PROVE RetrievalSound
  OBVIOUS
<1>1. /\ shown = [d \in Docs |-> NoVersion] /\ gone = {} /\ revision = 1 /\ manifests = <<>>
      /\ swept = [v \in Versions |-> "kept"] /\ shelf = [c \in Collections |-> "absent"]
      /\ member = {} /\ checked = {} /\ deleting = [c \in Collections |-> NotDeleting]
      /\ query = [q \in Queries |-> NoQuery] /\ cache = {}
  BY DEF Init, Content!Init
<1>2. NoQuery \in QueryType /\ NoQuery.pc = "new"
  BY DEF NoQuery, QueryType
<1>3. \A q \in Queries : query[q] = NoQuery /\ ~Running(q)
  BY <1>1, <1>2 DEF Running
<1>4. TypeOK
  <2>1. NotDeleting \in [on : BOOLEAN, seen : SUBSET (Docs \X Collections)]
    BY DEF NotDeleting
  <2>2. revision \in 1 .. MaxRevision
    BY <1>1, RetrievalAssumption
  <2> QED
    BY <1>1, <1>2, <2>1, <2>2 DEF TypeOK
<1>5. CatalogueSound
  BY <1>1 DEF CatalogueSound, Manifest, Shown, Published
<1>6. SweptSound
  BY <1>1 DEF SweptSound
<1>7. KeysSound /\ BoundsSound /\ PresentSound /\ TwinsSound /\ EntriesSound /\ CacheIsCurrent
  BY <1>1, <1>3 DEF KeysSound, BoundsSound, PresentSound, TwinsSound, EntriesSound, CacheIsCurrent
<1>8. StagesSound /\ NothingForeign /\ NothingMissed
  BY <1>2, <1>3 DEF StagesSound, StageSound, NothingForeign, NothingMissed
<1> QED
  BY <1>4, <1>5, <1>6, <1>7, <1>8 DEF RetrievalSound

\* Without a step everything stays.
LEMMA StutterSound == ASSUME RetrievalSound, UNCHANGED vars PROVE RetrievalSound'
<1>1. /\ UNCHANGED <<shown, gone, revision, manifests, swept, shelf, member, checked, deleting>>
      /\ UNCHANGED <<query, cache>>
  BY DEF vars, content, collections
<1>2. TypeOK'
  BY <1>1 DEF RetrievalSound, TypeOK
<1>3. SweptSound'
  BY <1>1 DEF RetrievalSound, SweptSound, Published, Spared
<1> QED
  BY <1>1, <1>2, <1>3, QuietStep DEF content

\* Every step keeps the invariant.
LEMMA NextSound == RetrievalSound /\ [Next]_vars => RetrievalSound'
<1> SUFFICES ASSUME RetrievalSound, [Next]_vars PROVE RetrievalSound'
  OBVIOUS
<1>1. CASE Ingest
  BY <1>1, IngestInv
<1>2. CASE \E v \in Versions : Sweep(v)
  BY <1>2, SweepInv
<1>3. CASE \E c \in Collections : CollectionRequest(c)
  BY <1>3, CreateInv, RenameInv, DeleteWritesInv, DeleteInv, AddInv, RemoveInv, UploadInv
     DEF CollectionRequest
<1>4. CASE \E q \in Queries : Question(q)
  <2>1. ASSUME NEW q \in Queries, Reply(q) PROVE RetrievalSound'
    BY <2>1, EndStep DEF Reply
  <2> QED
    BY <1>4, <2>1, BeginInv, ReadManifestInv, ReadCollectionsInv, ReadMembersInv, CacheHitInv,
       CacheMissInv, SearchInv, HydrateInv, StoreInv DEF Question
<1>5. CASE UNCHANGED vars
  BY <1>5, StutterSound
<1> QED
  BY <1>1, <1>2, <1>3, <1>4, <1>5 DEF Next

\* The inductive invariant holds of every execution.
THEOREM RetrievalHolds == Spec => []RetrievalSound
  BY InitSound, NextSound, PTL DEF Spec

\* MetadataResolver, the cache key and the revision: whenever an entry can be found under
\* the present generation and revision, it is what a fresh query would compute now.
THEOREM CacheAnswersPresent == Spec => []RetrievalInv
<1>1. RetrievalSound => RetrievalInv
  BY DEF RetrievalSound, RetrievalInv
<1> QED
  BY <1>1, RetrievalHolds, PTL

\* However the statements of a query, the cache, ingestion, garbage collection and the edits
\* of the collections interleave, nothing is answered from outside what was in scope.
THEOREM AnswersNothingForeign == Spec => []NothingForeign
<1>1. RetrievalSound => NothingForeign
  BY DEF RetrievalSound
<1> QED
  BY <1>1, RetrievalHolds, PTL

\* And nothing is missing that was in scope all the time, while the generation is retained.
THEOREM AnswersMissNothing == Spec => []NothingMissed
<1>1. RetrievalSound => NothingMissed
  BY DEF RetrievalSound
<1> QED
  BY <1>1, RetrievalHolds, PTL

-------------------------------------------------------------------------------
(* Links and citations *)

partsVars == <<part, vars, webVars, conversationVars, linkVars>>

\* Words for the state of a preview, and all texts of chunks: no text is one of these words.
Unsaid == {"none", "sent", "missing", "lost", "done"}
AllTexts == UNION {{Texts[v][i] : i \in DOMAIN Texts[v]} : v \in Versions}
LinkParameters == AllTexts \cap Unsaid = {}

LinkTypes ==
    /\ shown \in [Docs -> Versions \cup {NoVersion}]
    /\ gone \subseteq Docs
    /\ status \in [Versions -> {"none", "ready", "active", "superseded", "failed"}]
    /\ disk \in [Versions -> {"absent", "whole", "altered"}]
    /\ collected \in [Versions -> {"kept", "file", "rows"}]
    /\ enabled \in BOOLEAN
    /\ link \in [at : {"none", "issued", "checked", "hashed", "served", "gone", "missing",
                       "broken"},
                 version : Versions \cup {NoVersion}, page : 0 .. 2,
                 expired : BOOLEAN, late : BOOLEAN]
    /\ message.at \in {"none", "asked", "answered"}
    /\ dialog \in [open : BOOLEAN, loading : BOOLEAN, unavailable : BOOLEAN,
                   preview : AllTexts \cup {"none"}, of : 0 .. 2]
    /\ request \in [1 .. MaxOpens -> AllTexts \cup Unsaid]

\* What is searchable is the active version of its document.
ShownIsActive ==
    \A d \in Docs : shown[d] # NoVersion => DocOf[shown[d]] = d /\ status[shown[d]] = "active"

\* A raw file is there until garbage collection takes it.
FilesKept == \A v \in Versions : status[v] # "none" => disk[v] # "absent" \/ collected[v] # "kept"

\* A link is made for a version that was readable, and a page that it has.
LinkMade ==
    link.at # "none" =>
        link.version \in Versions /\ status[link.version] # "none"
        /\ Leading!HasPage(link.version, link.page)

\* An answer is made of chunks of a version that was searchable, and of web pages.
AnswerMade ==
    /\ message.at # "none" /\ message.scope # NoVersion =>
          message.scope \in Versions /\ status[message.scope] \in {"active", "superseded"}
    /\ message.at = "answered" => \A n \in message.cited :
          \/ message.sources[n] = Leading!Page
          \/ \E i \in DOMAIN Texts[message.scope] :
                /\ message.scope \in Versions
                /\ message.sources[n] = Leading!ChunkOf(message.scope, i)

\* A dialog is about one citation of the answer.
DialogMade ==
    /\ dialog.of = 0 =>
          dialog.preview = "none" /\ \A o \in 1 .. MaxOpens : request[o] = "none"
    /\ dialog.of # 0 => message.at = "answered" /\ dialog.of \in message.cited

LinksInv ==
    /\ LinkTypes /\ ShownIsActive /\ FilesKept /\ LinkMade /\ AnswerMade /\ DialogMade
    /\ Leading!LinksHold /\ Leading!PreviewsHold

-------------------------------------------------------------------------------

\* Nothing is shown, stored, linked or asked for at first.
LEMMA LinksBegin == PartsInit /\ part = "links" => LinksInv
<1> SUFFICES ASSUME PartsInit, part = "links" PROVE LinksInv
  OBVIOUS
<1>1. Leading!Init
  BY DEF PartsInit
<1>2. /\ Leading!Content!Init /\ enabled = TRUE
      /\ status = [v \in Versions |-> "none"] /\ disk = [v \in Versions |-> "absent"]
      /\ collected = [v \in Versions |-> "kept"]
      /\ link = Leading!NoLink /\ message = Leading!NoMessage /\ dialog = Leading!Closed
      /\ request = [o \in 1 .. MaxOpens |-> "none"]
  BY <1>1 DEF Leading!Init, Leading!Opens
<1>3. LinkTypes
  BY <1>2 DEF LinkTypes, Leading!Content!Init, Leading!NoLink, Leading!NoMessage,
              Leading!Closed, Unsaid
<1>4. ShownIsActive /\ FilesKept /\ LinkMade /\ AnswerMade /\ DialogMade
  BY <1>2 DEF ShownIsActive, FilesKept, LinkMade, AnswerMade, DialogMade,
              Leading!Content!Init, Leading!NoLink, Leading!NoMessage, Leading!Closed
<1>5. Leading!LinksHold /\ Leading!PreviewsHold
  BY <1>2 DEF Leading!LinksHold, Leading!PreviewsHold, Leading!NoLink, Leading!Closed,
              Leading!Opens
<1> QED
  BY <1>3, <1>4, <1>5 DEF LinksInv

\* What happens to the documents and the user goes one way only.
Onward ==
    /\ UNCHANGED <<follow, link, message, dialog, request>>
    /\ gone \subseteq gone' /\ (enabled' => enabled)
    /\ \A v \in Versions :
          /\ status[v] # "none" =>
                status'[v] # "none" /\ (disk[v] # "whole" => disk'[v] # "whole")
          /\ status[v] = "failed" => status'[v] = "failed"
          /\ status[v] \in {"active", "superseded"} => status'[v] \in {"active", "superseded"}
          /\ collected[v] # "kept" => collected'[v] # "kept"
          /\ collected[v] = "rows" => collected'[v] = "rows"

\* The source of the citation that the dialog is about.
Source == message.sources[dialog.of]

\* It is a web page, or a chunk of the version to which the question was put.
LEMMA SourceOfDialog ==
    ASSUME AnswerMade, DialogMade, dialog.of # 0
    PROVE  \/ Source = Leading!Page /\ Source.type = "web"
           \/ /\ Source.type = "document" /\ Source.version = message.scope
              /\ message.scope \in Versions
              /\ Source.index \in DOMAIN Texts[message.scope]
              /\ Source.text = Texts[message.scope][Source.index]
<1>1. message.at = "answered" /\ dialog.of \in message.cited
  BY DEF DialogMade
<1>2. \/ Source = Leading!Page
      \/ \E i \in DOMAIN Texts[message.scope] :
            message.scope \in Versions /\ Source = Leading!ChunkOf(message.scope, i)
  BY <1>1 DEF AnswerMade, Source
<1>3. CASE Source = Leading!Page
  BY <1>3 DEF Leading!Page
<1>4. ASSUME NEW i \in DOMAIN Texts[message.scope], message.scope \in Versions,
             Source = Leading!ChunkOf(message.scope, i)
      PROVE  /\ Source.type = "document" /\ Source.version = message.scope
             /\ Source.index = i /\ Source.text = Texts[message.scope][i]
  BY <1>4 DEF Leading!ChunkOf
<1> QED
  BY <1>2, <1>3, <1>4

\* Links, answers and previews stay sound while the documents go their way.
LEMMA OnwardLinks ==
    ASSUME LinksInv, Onward, LinkTypes', ShownIsActive', FilesKept'
    PROVE  LinksInv'
<1>1. /\ UNCHANGED <<follow, link, message, dialog, request>>
      /\ gone \subseteq gone' /\ (enabled' => enabled)
  BY DEF Onward
<1>2. LinkMade'
  BY <1>1 DEF LinksInv, LinkMade, Onward, Leading!HasPage
<1>3. AnswerMade'
  <2>1. AnswerMade /\ UNCHANGED message
    BY <1>1 DEF LinksInv
  <2>2. message.at # "none" /\ message.scope # NoVersion =>
           message.scope \in Versions /\ status'[message.scope] \in {"active", "superseded"}
    BY <2>1 DEF AnswerMade, Onward
  <2>3. \A v, i : Leading!ChunkOf(v, i)' = Leading!ChunkOf(v, i) /\ Leading!Page' = Leading!Page
    BY DEF Leading!ChunkOf, Leading!Page
  <2> QED
    BY <2>1, <2>2, <2>3 DEF AnswerMade
<1>4. DialogMade'
  BY <1>1 DEF LinksInv, DialogMade
<1>5. Leading!LinksHold'
  <2>1. link.at # "none" => link.version \in Versions /\ status[link.version] # "none"
    BY DEF LinksInv, LinkMade
  <2> QED
    BY <1>1, <2>1 DEF LinksInv, LinkTypes, Leading!LinksHold, Leading!Withdrawn, Onward
<1>6. Leading!PreviewsHold'
  <2>1. ASSUME NEW o \in 1 .. MaxOpens, request[o] = "missing"
        PROVE  \/ Source.type = "web" \/ ~enabled' \/ DocOf[Source.version] \in gone'
               \/ collected'[Source.version] = "rows"
    <3>1. AnswerMade /\ DialogMade /\ dialog.of # 0
      BY <2>1 DEF LinksInv, DialogMade
    <3>2. Source.type = "web" \/ Source.version \in Versions
      BY <3>1, SourceOfDialog
    <3>3. \/ Source.type = "web" \/ ~enabled \/ DocOf[Source.version] \in gone
          \/ collected[Source.version] = "rows"
      BY <2>1 DEF LinksInv, Leading!PreviewsHold, Leading!Opens, Source
    <3> QED
      BY <1>1, <3>2, <3>3 DEF Onward
  <2> QED
    BY <1>1, <2>1 DEF LinksInv, Leading!PreviewsHold, Leading!Opens, Source
<1> QED
  BY <1>2, <1>3, <1>4, <1>5, <1>6 DEF LinksInv

\* A version becomes ready, fails or is collected, or its file is damaged.
LEMMA ReadyLinks ==
    ASSUME LinksInv, NEW v \in Versions,
           Leading!Ready(v) \/ Leading!Fails(v) \/ Leading!Sweep(v) \/ Leading!Damage(v)
    PROVE  LinksInv'
<1>1. /\ UNCHANGED <<follow, link, message, dialog, request, shown, gone, revision, enabled>>
      /\ LinkTypes /\ ShownIsActive /\ FilesKept
  BY DEF LinksInv, Leading!Ready, Leading!Fails, Leading!Sweep, Leading!Damage, Leading!Unused
<1>2. \/ /\ status[v] = "none" /\ status' = [status EXCEPT ![v] = "ready"]
         /\ disk' = [disk EXCEPT ![v] = "whole"] /\ collected' = collected
      \/ /\ status[v] = "ready" /\ status' = [status EXCEPT ![v] = "failed"]
         /\ UNCHANGED <<disk, collected>>
      \/ /\ status[v] \in {"superseded", "failed"} /\ status' = status
         /\ disk' = [disk EXCEPT ![v] = "absent"]
         /\ collected[v] # "rows" /\ \E to \in {"file", "rows"} :
               collected' = [collected EXCEPT ![v] = to]
      \/ /\ disk[v] = "whole" /\ disk' = [disk EXCEPT ![v] = "altered"]
         /\ UNCHANGED <<status, collected>>
  BY DEF Leading!Ready, Leading!Fails, Leading!Sweep, Leading!Damage
<1>3. LinkTypes'
  BY <1>1, <1>2 DEF LinkTypes
<1>4. ShownIsActive'
  BY <1>1, <1>2 DEF LinkTypes, ShownIsActive
<1>5. FilesKept'
  BY <1>1, <1>2 DEF LinkTypes, FilesKept
<1>6. Onward
  BY <1>1, <1>2 DEF LinkTypes, Onward
<1> QED
  BY <1>3, <1>4, <1>5, <1>6, OnwardLinks

\* The version that is replaced was active, and may still be read.
LEMMA PublishLinks ==
    ASSUME LinksInv, NEW v \in Versions, Leading!Publish(v)
    PROVE  LinksInv'
<1> DEFINE d == DocOf[v]
<1>1. /\ UNCHANGED <<follow, link, message, dialog, request, gone, disk, collected, enabled>>
      /\ LinkTypes /\ ShownIsActive /\ FilesKept
      /\ status[v] = "ready" /\ shown' = [shown EXCEPT ![d] = v]
      /\ status' = [u \in Versions |-> IF u = v THEN "active"
                                       ELSE IF u = shown[d] THEN "superseded" ELSE status[u]]
  BY DEF LinksInv, Leading!Publish, Leading!Unused, Leading!Content!Publish
<1>2. d \in Docs /\ NoVersion \notin Versions
  BY RetrievalAssumption DEF RetrievalAssumption
<1>3. LinkTypes'
  BY <1>1, <1>2 DEF LinkTypes
<1>4. shown[d] # NoVersion => status[shown[d]] = "active"
  BY <1>1, <1>2 DEF ShownIsActive
<1>5. ShownIsActive'
  <2> SUFFICES ASSUME NEW e \in Docs, shown'[e] # NoVersion
               PROVE  DocOf[shown'[e]] = e /\ status'[shown'[e]] = "active"
    BY DEF ShownIsActive
  <2>1. CASE e = d
    BY <1>1, <1>2, <2>1 DEF LinkTypes
  <2>2. CASE e # d
    <3>1. shown'[e] = shown[e] /\ shown[e] \in Versions /\ DocOf[shown[e]] = e
          /\ status[shown[e]] = "active"
      BY <1>1, <1>2, <2>2 DEF LinkTypes, ShownIsActive
    <3>2. shown[e] # v /\ shown[e] # shown[d]
      BY <1>1, <1>2, <2>2, <3>1 DEF ShownIsActive
    <3> QED
      BY <1>1, <3>1, <3>2
  <2> QED
    BY <2>1, <2>2
<1>6. FilesKept'
  BY <1>1, <1>2, <1>4 DEF LinkTypes, FilesKept
<1>7. Onward
  <2>1. \A u \in Versions :
          /\ status[u] # "none" => status'[u] # "none"
          /\ status[u] = "failed" => status'[u] = "failed"
          /\ status[u] \in {"active", "superseded"} => status'[u] \in {"active", "superseded"}
    BY <1>1, <1>2, <1>4 DEF LinkTypes
  <2> QED
    BY <1>1, <2>1 DEF Onward
<1> QED
  BY <1>3, <1>5, <1>6, <1>7, OnwardLinks

\* A document is deleted, or the user disabled.
LEMMA RetireLinks ==
    ASSUME LinksInv, (\E d \in Docs : Leading!Retire(d)) \/ Leading!Disable
    PROVE  LinksInv'
<1>1. /\ UNCHANGED <<follow, link, message, dialog, request, disk, collected>>
      /\ LinkTypes /\ ShownIsActive /\ FilesKept
  BY DEF LinksInv, Leading!Retire, Leading!Disable, Leading!Unused
<1>2. CASE Leading!Disable
  <2>1. ~enabled' /\ enabled' \in BOOLEAN /\ UNCHANGED <<shown, gone, status>>
    BY <1>2 DEF Leading!Disable
  <2>2. LinkTypes'
    BY <1>1, <2>1, ZenonT(60) DEF LinkTypes
  <2>3. ShownIsActive' /\ FilesKept'
    BY <1>1, <2>1 DEF ShownIsActive, FilesKept
  <2>4. Onward
    BY <1>1, <2>1 DEF LinkTypes, Onward
  <2> QED
    BY <2>2, <2>3, <2>4, OnwardLinks
<1>3. ASSUME NEW d \in Docs, Leading!Retire(d) PROVE LinksInv'
  <2>1. /\ shown' = [shown EXCEPT ![d] = NoVersion] /\ gone' = gone \cup {d}
        /\ enabled' = enabled
        /\ status' = [v \in Versions |-> IF DocOf[v] # d THEN status[v]
                                         ELSE IF status[v] = "ready" THEN "failed"
                                         ELSE IF status[v] = "active" THEN "superseded"
                                         ELSE status[v]]
    BY <1>3 DEF Leading!Retire, Leading!Content!Retire
  <2>2. LinkTypes'
    BY <1>1, <2>1 DEF LinkTypes
  <2>3. ShownIsActive'
    BY <1>1, <2>1 DEF LinkTypes, ShownIsActive
  <2>4. FilesKept' /\ Onward
    BY <1>1, <2>1 DEF LinkTypes, FilesKept, Onward
  <2> QED
    BY <2>2, <2>3, <2>4, OnwardLinks
<1> QED
  BY <1>2, <1>3

\* A link is made, and read step by step.
LEMMA LinkLinks ==
    ASSUME LinksInv,
           \/ \E v \in Versions \cup {NoVersion}, p \in 0 .. 2 : Leading!Issue(v, p)
           \/ Leading!Expire \/ Leading!Read \/ Leading!Hash \/ Leading!Send
    PROVE  LinksInv'
<1>1. /\ UNCHANGED <<shown, gone, revision, status, disk, collected, enabled, message, dialog,
                     request>>
      /\ LinkTypes /\ ShownIsActive /\ FilesKept /\ LinkMade /\ AnswerMade /\ DialogMade
      /\ Leading!LinksHold /\ Leading!PreviewsHold
  BY DEF LinksInv, Leading!Issue, Leading!Expire, Leading!Read, Leading!Hash, Leading!Send,
         Leading!content
<1>2. /\ ShownIsActive' /\ FilesKept' /\ AnswerMade' /\ DialogMade'
      /\ Leading!PreviewsHold'
  BY <1>1 DEF ShownIsActive, FilesKept, AnswerMade, DialogMade, Leading!PreviewsHold,
              Leading!Page, Leading!ChunkOf, Leading!Opens
<1> DEFINE Link == [at : {"none", "issued", "checked", "hashed", "served", "gone", "missing",
                          "broken"},
                    version : Versions \cup {NoVersion}, page : 0 .. 2,
                    expired : BOOLEAN, late : BOOLEAN]
<1>3. ASSUME link' \in Link, LinkMade', Leading!LinksHold' PROVE LinksInv'
  BY <1>1, <1>2, <1>3 DEF LinksInv, LinkTypes
<1>4. link \in Link
  BY <1>1 DEF LinkTypes
<1>5. ASSUME NEW v \in Versions \cup {NoVersion}, NEW p \in 0 .. 2, Leading!Issue(v, p)
      PROVE  LinksInv'
  <2> DEFINE u(d) == IF v = NoVersion THEN shown[d] ELSE v
             made(w) == [Leading!NoLink EXCEPT !.at = "issued", !.version = w, !.page = p]
  <2>1. PICK d \in Docs :
          /\ u(d) # NoVersion /\ Leading!ReadableVersion(u(d))
          /\ Leading!HasPage(u(d), p) /\ link' = made(u(d))
    BY <1>5 DEF Leading!Issue
  <2>2. u(d) \in Versions
    BY <1>1, <2>1 DEF LinkTypes
  <2>3. /\ link' \in Link /\ link'.at = "issued" /\ link'.version = u(d) /\ link'.page = p
    <3>1. Leading!NoLink \in Link
      BY DEF Leading!NoLink
    <3> HIDE DEF u
    <3> QED
      BY <2>1, <2>2, <3>1
  <2>4. LinkMade'
    BY <1>1, <2>1, <2>2, <2>3 DEF LinkMade, Leading!ReadableVersion, Leading!HasPage
  <2>5. Leading!LinksHold'
    BY <2>3 DEF Leading!LinksHold
  <2> QED
    BY <1>3, <2>3, <2>4, <2>5
<1>6. CASE Leading!Expire
  <2>1. /\ link' \in Link /\ link'.at = link.at /\ link'.version = link.version
        /\ link'.page = link.page /\ link'.late = link.late /\ link'.expired
    BY <1>4, <1>6 DEF Leading!Expire
  <2>2. LinkMade'
    BY <1>1, <2>1 DEF LinkMade, Leading!HasPage
  <2>3. Leading!LinksHold'
    BY <1>1, <2>1 DEF Leading!LinksHold, Leading!Withdrawn
  <2> QED
    BY <1>3, <2>1, <2>2, <2>3
<1>7. CASE Leading!Read
  <2>1. link.at # "none" /\ link.version \in Versions /\ status[link.version] # "none"
        /\ Leading!HasPage(link.version, link.page)
    BY <1>1, <1>7 DEF Leading!Read, LinkMade
  <2>2. PICK to \in {"gone", "checked", "missing"} :
          /\ to = IF link.expired THEN "gone"
                  ELSE IF Leading!Bound(link.version) THEN "checked" ELSE "missing"
          /\ link' = [link EXCEPT !.late = Leading!Withdrawn(link.version), !.at = to]
    BY <1>7, <2>1 DEF Leading!Read
  <2>3. /\ link'.at = to /\ link'.version = link.version /\ link'.page = link.page
        /\ link'.expired = link.expired /\ link'.late = Leading!Withdrawn(link.version)
    BY <1>4, <2>2
  <2>4. Leading!Withdrawn(link.version) \in BOOLEAN
    BY <1>1, <1>4 DEF Leading!Withdrawn, LinkTypes
  <2>5. link' \in Link
    BY <1>4, <2>2, <2>4
  <2>6. LinkMade'
    BY <1>1, <2>1, <2>3 DEF LinkMade, Leading!HasPage
  <2>7. Leading!LinksHold'
    <3>1. to = "checked" => ~Leading!Withdrawn(link.version)
      BY <2>2 DEF Leading!Withdrawn, Leading!Bound
    <3>2. to = "missing" => Leading!Withdrawn(link.version) \/ status[link.version] = "failed"
      BY <1>1, <2>1, <2>2 DEF Leading!Withdrawn, Leading!Bound, Leading!ReadableVersion,
                              LinkTypes
    <3>3. Leading!Withdrawn(link.version)' = Leading!Withdrawn(link.version)
      BY <1>1, <2>3 DEF Leading!Withdrawn
    <3> QED
      BY <1>1, <2>2, <2>3, <3>1, <3>2, <3>3 DEF Leading!LinksHold
  <2> QED
    BY <1>3, <2>5, <2>6, <2>7
<1>8. CASE Leading!Hash \/ Leading!Send
  <2>1. link.at \in {"checked", "hashed"} /\ ~link.late /\ link.version \in Versions
        /\ status[link.version] # "none" /\ Leading!HasPage(link.version, link.page)
    BY <1>1, <1>8 DEF Leading!Hash, Leading!Send, LinkMade, Leading!LinksHold
  <2>2. PICK to \in {"hashed", "missing", "broken", "served"} :
          /\ link' = [link EXCEPT !.at = to]
          /\ to = "missing" => disk[link.version] # "whole"
          /\ to = "broken" => disk[link.version] = "absent"
    BY <1>8 DEF Leading!Hash, Leading!Send
  <2>3. /\ link' \in Link /\ link'.at = to /\ link'.version = link.version
        /\ link'.page = link.page /\ link'.expired = link.expired /\ link'.late = link.late
    BY <1>4, <2>2
  <2>4. LinkMade'
    BY <1>1, <2>1, <2>3 DEF LinkMade, Leading!HasPage
  <2>5. Leading!LinksHold'
    BY <1>1, <2>1, <2>2, <2>3 DEF Leading!LinksHold, FilesKept
  <2> QED
    BY <1>3, <2>3, <2>4, <2>5
<1> QED
  BY <1>5, <1>6, <1>7, <1>8

\* An answer is made of chunks of the version that was searchable when the question came.
LEMMA AnswerLinks ==
    ASSUME LinksInv, Leading!Ask \/ Leading!Answer
    PROVE  LinksInv'
<1>1. /\ UNCHANGED <<shown, gone, revision, follow, status, disk, collected, enabled, link,
                     dialog, request>>
      /\ LinkTypes /\ ShownIsActive /\ FilesKept /\ LinkMade /\ AnswerMade /\ DialogMade
      /\ Leading!LinksHold /\ Leading!PreviewsHold
  BY DEF LinksInv, Leading!Ask, Leading!Answer, Leading!content
<1>2. ShownIsActive' /\ FilesKept' /\ LinkMade' /\ Leading!LinksHold'
  BY <1>1 DEF ShownIsActive, FilesKept, LinkMade, Leading!LinksHold, Leading!HasPage,
              Leading!Withdrawn
<1>3. message.at # "answered" /\ dialog.of = 0
  BY <1>1 DEF Leading!Ask, Leading!Answer, DialogMade, LinkTypes
<1>4. DialogMade'
  BY <1>1, <1>3 DEF DialogMade
<1>5. Leading!PreviewsHold'
  BY <1>1, <1>3, <1>4 DEF DialogMade, Leading!PreviewsHold, Leading!Opens
<1>6. ASSUME message'.at \in {"asked", "answered"}, AnswerMade' PROVE LinksInv'
  BY <1>1, <1>2, <1>4, <1>5, <1>6 DEF LinksInv, LinkTypes
<1>7. CASE Leading!Ask
  <2>1. PICK d \in Docs : message' = [at |-> "asked", scope |-> shown[d], sources |-> <<>>,
                                      cited |-> {}]
    BY <1>7 DEF Leading!Ask, Leading!NoMessage
  <2>2. shown[d] # NoVersion => shown[d] \in Versions /\ status[shown[d]] = "active"
    BY <1>1 DEF LinkTypes, ShownIsActive
  <2>3. AnswerMade'
    BY <1>1, <2>1, <2>2 DEF AnswerMade
  <2> QED
    BY <1>6, <2>1, <2>3
<1>8. CASE Leading!Answer
  <2>1. PICK packing \in Packings :
          /\ \A n \in DOMAIN packing :
                packing[n] # 0 =>
                    /\ message.scope # NoVersion
                    /\ packing[n] \in DOMAIN Texts[message.scope]
          /\ \E cited \in SUBSET DOMAIN packing :
                message' = Leading!Metadata(message.scope, packing, cited)
    BY <1>8 DEF Leading!Answer
  <2>2. PICK cited \in SUBSET DOMAIN packing :
          message' = Leading!Metadata(message.scope, packing, cited)
    BY <2>1
  <2>3. /\ message'.at = "answered" /\ message'.scope = message.scope
        /\ message'.cited = cited
        /\ \A n \in DOMAIN packing :
              message'.sources[n] = IF packing[n] = 0 THEN Leading!Page
                                    ELSE Leading!ChunkOf(message.scope, packing[n])
    BY <2>2 DEF Leading!Metadata
  <2>4. message.at = "asked"
    BY <1>8 DEF Leading!Answer
  <2>5. \A v, i : Leading!ChunkOf(v, i)' = Leading!ChunkOf(v, i) /\ Leading!Page' = Leading!Page
    BY DEF Leading!ChunkOf, Leading!Page
  <2>6. AnswerMade'
    BY <1>1, <2>1, <2>3, <2>4, <2>5 DEF AnswerMade
  <2> QED
    BY <1>6, <2>3, <2>6
<1> QED
  BY <1>7, <1>8

\* Opening and closing the preview, what an opening is answered, and its arrival.
LEMMA PreviewLinks ==
    ASSUME LinkParameters, LinksInv,
           \/ \E o \in 1 .. MaxOpens, n \in 1 .. 2 : Leading!Open(o, n)
           \/ Leading!Close
           \/ \E o \in 1 .. MaxOpens :
                 Leading!Preview(o) \/ Leading!Lose(o) \/ Leading!Arrive(o)
    PROVE  LinksInv'
<1>1. /\ UNCHANGED <<shown, gone, revision, follow, status, disk, collected, enabled, link,
                     message>>
      /\ LinkTypes /\ ShownIsActive /\ FilesKept /\ LinkMade /\ AnswerMade /\ DialogMade
      /\ Leading!LinksHold /\ Leading!PreviewsHold
  BY DEF LinksInv, Leading!Open, Leading!Close, Leading!Preview, Leading!Lose,
         Leading!Arrive, Leading!content
<1>2. /\ ShownIsActive' /\ FilesKept' /\ LinkMade' /\ AnswerMade' /\ Leading!LinksHold'
  BY <1>1 DEF ShownIsActive, FilesKept, LinkMade, AnswerMade, Leading!LinksHold,
              Leading!HasPage, Leading!Withdrawn, Leading!Page, Leading!ChunkOf
<1> DEFINE Dialog == [open : BOOLEAN, loading : BOOLEAN, unavailable : BOOLEAN,
                      preview : AllTexts \cup {"none"}, of : 0 .. 2]
           Requests == [1 .. MaxOpens -> AllTexts \cup Unsaid]
<1>3. dialog \in Dialog /\ request \in Requests
  BY <1>1 DEF LinkTypes
<1>4. ASSUME dialog' \in Dialog, request' \in Requests, DialogMade', Leading!PreviewsHold'
      PROVE  LinksInv'
  BY <1>1, <1>2, <1>4 DEF LinksInv, LinkTypes
<1>5. ASSUME NEW o \in 1 .. MaxOpens, NEW n \in 1 .. 2, Leading!Open(o, n) PROVE LinksInv'
  <2>1. /\ message.at = "answered" /\ n \in message.cited /\ dialog.of \in {0, n}
        /\ dialog' = [open |-> TRUE, loading |-> TRUE, unavailable |-> FALSE,
                      preview |-> "none", of |-> n]
        /\ request' = [request EXCEPT ![o] = "sent"]
    BY <1>5 DEF Leading!Open, Leading!Closed
  <2>2. dialog' \in Dialog /\ request' \in Requests
    BY <1>3, <2>1 DEF Unsaid
  <2>3. DialogMade'
    BY <1>1, <2>1 DEF DialogMade
  <2>4. \A p \in 1 .. MaxOpens : request'[p] # "sent" =>
            request'[p] = request[p] /\ (request[p] = "none" \/ dialog.of = n)
    BY <1>1, <1>3, <2>1 DEF DialogMade
  <2>5. request'[o] = "sent"
    BY <1>3, <2>1
  <2>6. Leading!PreviewsHold'
    BY <1>1, <2>1, <2>4, <2>5 DEF Leading!PreviewsHold, Leading!Opens
  <2> QED
    BY <1>4, <2>2, <2>3, <2>6
<1>6. CASE Leading!Close
  <2>1. /\ dialog' \in Dialog /\ dialog'.of = dialog.of /\ dialog'.preview = dialog.preview
        /\ dialog'.loading = dialog.loading /\ dialog'.unavailable = dialog.unavailable
        /\ request' = request
    BY <1>3, <1>6 DEF Leading!Close
  <2>2. DialogMade'
    BY <1>1, <2>1 DEF DialogMade
  <2>3. Leading!PreviewsHold'
    BY <1>1, <2>1 DEF Leading!PreviewsHold
  <2> QED
    BY <1>3, <1>4, <2>1, <2>2, <2>3
<1>7. ASSUME NEW o \in 1 .. MaxOpens, Leading!Preview(o) \/ Leading!Lose(o) PROVE LinksInv'
  <2>1. request[o] = "sent" /\ dialog' = dialog
    BY <1>7 DEF Leading!Preview, Leading!Lose
  <2>2. dialog.of # 0 /\ AnswerMade /\ DialogMade
    BY <1>1, <2>1 DEF DialogMade
  <2>3. PICK text : request' = [request EXCEPT ![o] = text] /\
          \/ text = "lost"
          \/ text = "missing" /\ (\/ Source.type = "web" \/ ~enabled
                                  \/ DocOf[Source.version] \in gone
                                  \/ collected[Source.version] = "rows")
          \/ text \in AllTexts /\ text = Source.text
    <3>1. CASE Leading!Lose(o)
      BY <3>1 DEF Leading!Lose
    <3>2. CASE Leading!Preview(o)
      <4> DEFINE found == {Texts[s.version][s.index] : s \in Leading!Previewed(dialog.of)}
      <4>1. PICK text \in IF found = {} THEN {"missing"} ELSE found :
              request' = [request EXCEPT ![o] = text]
        BY <3>2 DEF Leading!Preview
      <4>2. dialog.of \in message.cited /\ message.at = "answered"
        BY <2>2 DEF DialogMade
      <4>3. CASE found = {}
        <5>1. text = "missing" /\ Leading!Previewed(dialog.of) = {}
          BY <4>1, <4>3
        <5>2. \/ Source.type # "document"
              \/ ~(/\ enabled /\ DocOf[Source.version] \notin gone
                   /\ Leading!ReadableVersion(Source.version)
                   /\ collected[Source.version] # "rows")
          BY <4>2, <5>1 DEF Leading!Previewed, Leading!Resolved, Source
        <5>3. Source.type = "web" \/ Leading!ReadableVersion(Source.version)
          <6>1. \/ Source.type = "web"
                \/ /\ Source.version = message.scope /\ message.scope \in Versions
            BY <2>2, SourceOfDialog
          <6>2. message.scope \in Versions =>
                    status[message.scope] \in {"active", "superseded"}
            BY <2>2, <4>2, RetrievalAssumption DEF AnswerMade, RetrievalAssumption
          <6> QED
            BY <6>1, <6>2 DEF Leading!ReadableVersion
        <5>4. Source.type \in {"web", "document"}
          BY <2>2, SourceOfDialog
        <5> QED
          BY <4>1, <5>1, <5>2, <5>3, <5>4
      <4>4. CASE found # {}
        <5>1. PICK s \in Leading!Previewed(dialog.of) : text = Texts[s.version][s.index]
          BY <4>1, <4>4
        <5>2. s = Source /\ Source.type = "document"
          BY <5>1 DEF Leading!Previewed, Leading!Resolved, Source
        <5>3. /\ Source.version = message.scope /\ message.scope \in Versions
              /\ Source.index \in DOMAIN Texts[message.scope]
              /\ Source.text = Texts[message.scope][Source.index]
          BY <2>2, <5>2, SourceOfDialog
        <5>4. text = Source.text /\ text \in AllTexts
          BY <5>1, <5>2, <5>3 DEF AllTexts
        <5> QED
          BY <4>1, <5>4
      <4> QED
        BY <4>3, <4>4
    <3> QED
      BY <1>7, <3>1, <3>2
  <2>4. text \in AllTexts \cup Unsaid /\ text # "none" /\ text # "sent" /\ text # "done"
    BY <2>3 DEF Unsaid, LinkParameters
  <2>5. dialog' \in Dialog /\ request' \in Requests
    BY <1>3, <2>1, <2>3, <2>4
  <2>6. DialogMade'
    BY <1>1, <2>1, <2>2, <2>3 DEF DialogMade
  <2>7. Leading!PreviewsHold'
    <3>1. \A p \in 1 .. MaxOpens : request'[p] = IF p = o THEN text ELSE request[p]
      BY <1>3, <2>3
    <3>2. \A p \in 1 .. MaxOpens :
            request'[p] \notin {"none", "sent", "missing", "lost", "done"} =>
                request'[p] = Source.text
      BY <1>1, <2>3, <3>1 DEF Leading!PreviewsHold, Leading!Opens, Source
    <3>3. \A p \in 1 .. MaxOpens : request'[p] = "missing" =>
            \/ Source.type = "web" \/ ~enabled \/ DocOf[Source.version] \in gone
            \/ collected[Source.version] = "rows"
      <4>1. AllTexts \cap {"missing"} = {}
        BY DEF LinkParameters, Unsaid
      <4> QED
        BY <1>1, <2>3, <3>1, <4>1 DEF Leading!PreviewsHold, Leading!Opens, Source
    <3>4. request'[o] \notin {"none", "done"}
      BY <2>4, <3>1
    <3> QED
      BY <1>1, <2>1, <3>2, <3>3, <3>4 DEF Leading!PreviewsHold, Leading!Opens, Source
  <2> QED
    BY <1>4, <2>5, <2>6, <2>7
<1>8. ASSUME NEW o \in 1 .. MaxOpens, Leading!Arrive(o) PROVE LinksInv'
  <2>1. /\ request[o] \notin {"none", "sent", "done"}
        /\ request' = [request EXCEPT ![o] = "done"]
        /\ dialog' = IF request[o] \in {"missing", "lost"}
                     THEN [dialog EXCEPT !.loading = FALSE, !.unavailable = TRUE]
                     ELSE [dialog EXCEPT !.loading = FALSE, !.preview = request[o]]
    BY <1>8 DEF Leading!Arrive
  <2>2. dialog.of # 0
    BY <1>1, <2>1 DEF DialogMade
  <2>3. request[o] \in {"missing", "lost"} \/ request[o] \in AllTexts
    BY <1>3, <2>1 DEF Unsaid
  <2>4. dialog' \in Dialog /\ request' \in Requests
    BY <1>3, <2>1, <2>3 DEF Unsaid
  <2>5. /\ dialog'.of = dialog.of /\ ~dialog'.loading
        /\ \/ request[o] \in {"missing", "lost"} /\ dialog'.unavailable
              /\ dialog'.preview = dialog.preview
           \/ request[o] \notin {"missing", "lost"} /\ dialog'.preview = request[o]
              /\ dialog'.unavailable = dialog.unavailable
    BY <1>3, <2>1
  <2>6. DialogMade'
    BY <1>1, <2>2, <2>5 DEF DialogMade
  <2>7. Leading!PreviewsHold'
    <3>1. \A p \in 1 .. MaxOpens : request'[p] = IF p = o THEN "done" ELSE request[p]
      BY <1>3, <2>1
    <3>2. dialog'.preview # "none" => dialog'.preview = Source.text
      BY <1>1, <2>1, <2>5 DEF Leading!PreviewsHold, Leading!Opens, Source
    <3>3. ~dialog'.loading /\ (dialog'.unavailable \/ dialog'.preview # "none")
      BY <2>1, <2>5
    <3> QED
      BY <1>1, <2>5, <3>1, <3>2, <3>3 DEF Leading!PreviewsHold, Leading!Opens, Source
  <2> QED
    BY <1>4, <2>4, <2>6, <2>7
<1> QED
  BY <1>5, <1>6, <1>7, <1>8

\* Every step of this part keeps the invariant.
LEMMA LinksSteps ==
    ASSUME LinkParameters, part = "links", LinksInv, [PartsNext]_partsVars
    PROVE  LinksInv'
<1>1. CASE UNCHANGED partsVars
  <2>1. UNCHANGED <<shown, gone, revision, status, disk, collected, enabled, link, message,
                    dialog, request>>
    BY <1>1 DEF partsVars, vars, content, linkVars
  <2>2. \A v, i : Leading!ChunkOf(v, i)' = Leading!ChunkOf(v, i) /\ Leading!Page' = Leading!Page
    BY DEF Leading!ChunkOf, Leading!Page
  <2>3. LinkTypes'
    BY <2>1 DEF LinksInv, LinkTypes
  <2>4. ShownIsActive' /\ FilesKept' /\ LinkMade' /\ DialogMade'
    BY <2>1 DEF LinksInv, ShownIsActive, FilesKept, LinkMade, DialogMade, Leading!HasPage
  <2>5. AnswerMade'
    BY <2>1, <2>2 DEF LinksInv, AnswerMade
  <2>6. Leading!LinksHold'
    BY <2>1 DEF LinksInv, Leading!LinksHold, Leading!Withdrawn
  <2>7. Leading!PreviewsHold'
    BY <2>1 DEF LinksInv, Leading!PreviewsHold, Leading!Opens
  <2> QED
    BY <2>3, <2>4, <2>5, <2>6, <2>7 DEF LinksInv
<1>2. CASE PartsNext
  <2>1. \/ \E v \in Versions :
              Leading!Ready(v) \/ Leading!Fails(v) \/ Leading!Sweep(v) \/ Leading!Damage(v)
        \/ \E v \in Versions : Leading!Publish(v)
        \/ (\E d \in Docs : Leading!Retire(d)) \/ Leading!Disable
        \/ \/ \E v \in Versions \cup {NoVersion}, p \in 0 .. 2 : Leading!Issue(v, p)
           \/ Leading!Expire \/ Leading!Read \/ Leading!Hash \/ Leading!Send
        \/ Leading!Ask \/ Leading!Answer
        \/ \/ \E o \in 1 .. MaxOpens, n \in 1 .. 2 : Leading!Open(o, n)
           \/ Leading!Close
           \/ \E o \in 1 .. MaxOpens :
                 Leading!Preview(o) \/ Leading!Lose(o) \/ Leading!Arrive(o)
    BY <1>2 DEF PartsNext, Retrieving, OnTheWeb, InTalk, Linking
  <2> QED
    BY <2>1, ReadyLinks, PublishLinks, RetireLinks, LinkLinks, AnswerLinks, PreviewLinks
<1> QED
  BY <1>1, <1>2

\* No step changes which part runs.
LEMMA PartStays ==
    ASSUME [PartsNext]_partsVars
    PROVE  part' = part
  BY DEF PartsNext, partsVars, Retrieving, OnTheWeb, InTalk, Linking

\* The invariant is stronger than what is promised of links and citations.
LEMMA InvLinksSound == LinksInv => Leading!LinksSound
<1> SUFFICES ASSUME LinksInv PROVE Leading!LinksSound
  OBVIOUS
<1>1. Leading!TypeOK
  BY DEF LinksInv, LinkTypes, Leading!TypeOK, Leading!Opens
<1> QED
  BY <1>1 DEF LinksInv, Leading!LinksSound

\* docs/p12-sveltekit.md:66-75: what was handed out leads to exactly its source, or nowhere,
\* for any documents, versions, texts, packings and any number of openings.
THEOREM LinksLead ==
    ASSUME LinkParameters
    PROVE  PartsSpec => []LinksSound
<1> DEFINE Now == part = "links"
           Sound == Now => LinksInv
<1>1. PartsInit => Sound
  BY LinksBegin
<1>2. Sound /\ [PartsNext]_partsVars => Sound'
  BY LinksSteps, PartStays
<1>3. Sound => LinksSound
  BY InvLinksSound DEF LinksSound
<1> QED
  BY <1>1, <1>2, <1>3, PTL DEF PartsSpec, partsVars

-------------------------------------------------------------------------------
(* The web branch *)

\* The limits are numbers; how large does not matter.
WebParameters ==
    ResultLimit \in Nat /\ Concurrency \in Nat /\ MaxRedirects \in Nat /\ MaxItems \in Nat

WebTypes ==
    /\ documents \in {"running", "done", "failed"}
    /\ web \in {"disabled", "searching", "fetching", "done", "cancelled"}
    /\ hits \in Seq(Urls)
    /\ fetches \in [1 .. Len(hits) -> [at : {"waiting", "running", "page", "failed"},
                                       visited : Seq(Urls)]]
    /\ result \in [status : {"none", "disabled", "empty", "ok", "partial", "failed"},
                   candidates : Seq(Nat), failures : Seq(Nat)]
    /\ answer \in {"none", "given", "raised"}

\* What each task has left for the other.
TasksLinked ==
    /\ web = "searching" => hits = <<>>
    /\ result.status = "none" <=> web \in {"searching", "fetching", "cancelled"}
    /\ answer = "given" => documents = "done" /\ web \in {"done", "disabled"}
    /\ answer = "raised" <=> documents = "failed"
    /\ documents = "failed" => web \notin {"searching", "fetching"}

WebInv == WebTypes /\ TasksLinked /\ Searching!FetchesBounded /\ Searching!ResultSound

\* One more item of the search response.
Found(found, url) ==
  IF Len(found) >= ResultLimit \/ url = Unusable \/ url \in Range(found)
  THEN found ELSE Append(found, url)

\* SearxngClient.search goes through the items one by one.
LEMMA HitsBySteps ==
    ASSUME NEW items \in Seq(Urls \cup {Unusable})
    PROVE  \E p \in [0 .. Len(items) -> Seq(Urls)] :
              /\ p[0] = <<>> /\ p[Len(items)] = Searching!Hits(items)
              /\ \A k \in 0 .. Len(items) - 1 : p[k + 1] = Found(p[k], items[k + 1])
<1> DEFINE n == Len(items)
           T == Seq(Urls)
           g == [i \in 1 .. n |-> [found \in T |-> Found(found, items[i])]]
           Body(it) == [s \in SUBSET (DOMAIN items) |->
                          IF s = {} THEN <<>> ELSE Found(it[s \ {Max(s)}], items[Max(s)])]
           it == CHOOSE f : f = Body(f)
<1>1. n \in Nat /\ DOMAIN items = 1 .. n /\ \A i \in 1 .. n : items[i] \in Urls \cup {Unusable}
  OBVIOUS
<1>2. \A found \in T, url \in Urls \cup {Unusable} : Found(found, url) \in T
  BY DEF Found
<1>3. g \in [1 .. n -> [T -> T]]
  BY <1>1, <1>2
<1>4. PICK f \in [SUBSET (1 .. n) -> T] : FoldsBy(f, n, T, <<>>, g)
  <2>1. <<>> \in T
    OBVIOUS
  <2> HIDE DEF T, g, n
  <2> QED
    BY <1>1, <1>3, <2>1, FoldExists
<1>5. ASSUME NEW s \in SUBSET (1 .. n), s # {}, NEW found \in T
      PROVE  g[Max(s)][found] = Found(found, items[Max(s)])
  <2>1. Max(s) \in s
    BY <1>1, <1>5, GreatestNumber, s \subseteq 0 .. n
  <2> QED
    BY <2>1
<1>6. it = Body(it)
  <2>0. ASSUME NEW s \in SUBSET (1 .. n), s # {}
        PROVE  f[s] = Found(f[s \ {Max(s)}], items[Max(s)])
    <3>1. f[s \ {Max(s)}] \in T
      OBVIOUS
    <3> HIDE DEF T, g
    <3> QED
      BY <1>4, <1>5, <2>0, <3>1 DEF FoldsBy
  <2>1. f = Body(f)
    BY <1>1, <1>4, <2>0 DEF FoldsBy
  <2> HIDE DEF Body
  <2> QED
    BY <2>1, Zenon
<1>7. Searching!Hits(items) = it[1 .. n]
  BY <1>1 DEF Found, Searching!Hits, Searching!FoldLeft, Searching!MapThenFoldSet, Searching!Max, Max, Range, Searching!Range
<1>8. FoldsBy(it, n, T, <<>>, g)
  <2> HIDE DEF it
  <2> QED
    BY <1>1, <1>5, <1>6, ZenonT(60) DEF FoldsBy
<1>9. PICK p : RunsBy(p, n, T, <<>>, g) /\ p[n] = it[1 .. n]
  <2>1. <<>> \in T
    OBVIOUS
  <2> HIDE DEF it, g, n, T
  <2> QED
    BY <1>1, <1>3, <1>8, <2>1, FoldRuns
<1>10. \A k \in 0 .. n - 1 : p[k + 1] = Found(p[k], items[k + 1])
  <2> SUFFICES ASSUME NEW k \in 0 .. n - 1 PROVE p[k + 1] = Found(p[k], items[k + 1])
    OBVIOUS
  <2>1. k + 1 \in 1 .. n /\ p[k] \in T
    BY <1>1, <1>9 DEF RunsBy
  <2> QED
    BY <1>9, <2>1 DEF RunsBy
<1> HIDE DEF g, Body, it
<1> QED
  BY <1>7, <1>9, <1>10 DEF RunsBy

\* It finds no url twice, and no more than its limit.
LEMMA HitsSound ==
    ASSUME WebParameters, NEW items \in Seq(Urls \cup {Unusable})
    PROVE  LET found == Searching!Hits(items) IN
           found \in Seq(Urls) /\ Len(found) <= ResultLimit /\ Searching!IsInjective(found)
<1> DEFINE n == Len(items)
<1>1. PICK p \in [0 .. n -> Seq(Urls)] :
         /\ p[0] = <<>> /\ p[n] = Searching!Hits(items)
         /\ \A k \in 0 .. n - 1 : p[k + 1] = Found(p[k], items[k + 1])
  BY HitsBySteps
<1> DEFINE Good(s) == Len(s) <= ResultLimit /\ \A i, j \in 1 .. Len(s) : s[i] = s[j] => i = j
           P == {k \in 0 .. n : Good(p[k])}
<1>2. 0 \in P
  BY <1>1 DEF WebParameters
<1>3. ASSUME NEW k \in 0 .. n - 1, k \in P PROVE k + 1 \in P
  <2>1. p[k] \in Seq(Urls) /\ Good(p[k]) /\ k + 1 \in 0 .. n
    BY <1>3
  <2>2. CASE p[k + 1] = p[k]
    BY <2>1, <2>2
  <2>3. CASE p[k + 1] # p[k]
    <3>1. /\ p[k + 1] = Append(p[k], items[k + 1])
          /\ ~(Len(p[k]) >= ResultLimit) /\ items[k + 1] \notin Range(p[k])
      BY <1>1, <2>3 DEF Found
    <3>2. \A i \in 1 .. Len(p[k]) : p[k][i] # items[k + 1]
      BY <2>1, <3>1 DEF Range
    <3>3. Len(p[k + 1]) = Len(p[k]) + 1 /\ p[k + 1][Len(p[k]) + 1] = items[k + 1]
          /\ \A i \in 1 .. Len(p[k]) : p[k + 1][i] = p[k][i]
      BY <2>1, <3>1
    <3>4. Len(p[k + 1]) <= ResultLimit
      BY <2>1, <3>1, <3>3 DEF WebParameters
    <3>5. \A i, j \in 1 .. Len(p[k + 1]) : p[k + 1][i] = p[k + 1][j] => i = j
      BY <2>1, <3>2, <3>3, SMTT(30)
    <3> QED
      BY <2>1, <3>4, <3>5
  <2> QED
    BY <2>2, <2>3
<1>4. Good(p[n])
  <2>1. n \in Nat /\ n \in 0 .. n
    OBVIOUS
  <2> HIDE DEF P
  <2>2. 0 .. n \subseteq P
    BY <1>2, <1>3, <2>1, Reaches
  <2>3. n \in P
    BY <2>1, <2>2
  <2> QED
    BY <2>3 DEF P
<1>5. p[n] \in Seq(Urls)
  OBVIOUS
<1> QED
  BY <1>1, <1>4, <1>5 DEF Searching!IsInjective

\* One more hit, by rank: it is a candidate or a failure.
Sorted(sofar, r) ==
  IF fetches[r].at = "page"
     /\ \A c \in Range(sofar[1]) : Searching!FinalUrl(c) # Searching!FinalUrl(r)
  THEN <<Append(sofar[1], r), sofar[2]>> ELSE <<sofar[1], Append(sofar[2], r)>>

\* WebRetriever.retrieve goes through the hits one by one.
LEMMA CollectedBySteps ==
    ASSUME NEW n \in Nat, Searching!Ranks = 1 .. n
    PROVE  \E p \in [0 .. n -> Seq(Nat) \X Seq(Nat)] :
              /\ p[0] = <<<<>>, <<>>>>
              /\ \A k \in 0 .. n - 1 : p[k + 1] = Sorted(p[k], k + 1)
              /\ Searching!Collected =
                    Searching!Result(Searching!Status(p[n][1], p[n][2]), p[n][1], p[n][2])
<1> DEFINE T == Seq(Nat) \X Seq(Nat)
           ranks == [r \in Searching!Ranks |-> r]
           g == [i \in 1 .. n |-> [sofar \in T |-> Sorted(sofar, i)]]
           Body(it) == [s \in SUBSET (DOMAIN ranks) |->
                          IF s = {} THEN <<<<>>, <<>>>>
                          ELSE Sorted(it[s \ {Max(s)}], ranks[Max(s)])]
           it == CHOOSE f : f = Body(f)
<1>1. DOMAIN ranks = 1 .. n /\ \A i \in 1 .. n : ranks[i] = i
  OBVIOUS
<1>2. ASSUME NEW sofar \in T, NEW i \in 1 .. n PROVE Sorted(sofar, i) \in T
  <2>1. sofar[1] \in Seq(Nat) /\ sofar[2] \in Seq(Nat)
    OBVIOUS
  <2>2. Append(sofar[1], i) \in Seq(Nat) /\ Append(sofar[2], i) \in Seq(Nat)
    BY <2>1
  <2>3. <<Append(sofar[1], i), sofar[2]>> \in T /\ <<sofar[1], Append(sofar[2], i)>> \in T
    BY <2>1, <2>2
  <2> QED
    BY <2>3 DEF Sorted
<1>3. g \in [1 .. n -> [T -> T]] /\ <<<<>>, <<>>>> \in T
  <2>1. <<>> \in Seq(Nat)
    OBVIOUS
  <2>2. <<<<>>, <<>>>> \in T
    BY <2>1
  <2> HIDE DEF T
  <2> QED
    BY <1>2, <2>2
<1>4. PICK f \in [SUBSET (1 .. n) -> T] : FoldsBy(f, n, T, <<<<>>, <<>>>>, g)
  <2> HIDE DEF T, g
  <2> QED
    BY <1>3, FoldExists
<1>5. ASSUME NEW s \in SUBSET (1 .. n), s # {}, NEW sofar \in T
      PROVE  g[Max(s)][sofar] = Sorted(sofar, ranks[Max(s)])
  <2>1. Max(s) \in s
    BY <1>5, GreatestNumber, s \subseteq 0 .. n
  <2> QED
    BY <1>1, <2>1
<1>6. it = Body(it)
  <2>0. ASSUME NEW s \in SUBSET (1 .. n), s # {}
        PROVE  f[s] = Sorted(f[s \ {Max(s)}], ranks[Max(s)])
    <3>1. f[s \ {Max(s)}] \in T
      OBVIOUS
    <3> HIDE DEF T, g
    <3> QED
      BY <1>4, <1>5, <2>0, <3>1 DEF FoldsBy
  <2>1. f = Body(f)
    <3> HIDE DEF ranks, T, g
    <3> QED
      BY <1>1, <1>4, <2>0 DEF FoldsBy
  <2> HIDE DEF Body
  <2> QED
    BY <2>1, Zenon
<1>7. Searching!Collected =
        Searching!Result(Searching!Status(it[1 .. n][1], it[1 .. n][2]),
                         it[1 .. n][1], it[1 .. n][2])
  BY <1>1 DEF Sorted, Searching!Collected, Searching!FoldLeft, Searching!MapThenFoldSet,
              Searching!Max, Max, Range, Searching!Range
<1>8. FoldsBy(it, n, T, <<<<>>, <<>>>>, g)
  <2>1. it[{}] = <<<<>>, <<>>>>
    BY <1>1, <1>6
  <2>2. \A s \in SUBSET (1 .. n) : s # {} => it[s] = Sorted(it[s \ {Max(s)}], ranks[Max(s)])
    BY <1>1, <1>6
  <2> HIDE DEF it, g, ranks, T
  <2> QED
    BY <1>5, <2>1, <2>2 DEF FoldsBy
<1>9. PICK p : RunsBy(p, n, T, <<<<>>, <<>>>>, g) /\ p[n] = it[1 .. n]
  <2> HIDE DEF it, g, T
  <2> QED
    BY <1>3, <1>8, FoldRuns
<1>10. \A k \in 0 .. n - 1 : p[k + 1] = Sorted(p[k], k + 1)
  <2> SUFFICES ASSUME NEW k \in 0 .. n - 1 PROVE p[k + 1] = Sorted(p[k], k + 1)
    OBVIOUS
  <2>1. k + 1 \in 1 .. n /\ p[k] \in T
    BY <1>9 DEF RunsBy
  <2> QED
    BY <1>9, <2>1 DEF RunsBy
<1> HIDE DEF g, Body, it, ranks
<1> QED
  BY <1>7, <1>9, <1>10 DEF RunsBy

\* By rank, none twice.
Increasing(list) ==
  \A i, j \in 1 .. Len(list) : i < j => list[i] < list[j]

\* One more number at the end of a list.
LEMMA Appended ==
    ASSUME NEW list \in Seq(Nat), NEW r \in Nat, Increasing(list), \A c \in Range(list) : c < r
    PROVE  /\ Append(list, r) \in Seq(Nat)
           /\ Range(Append(list, r)) = Range(list) \cup {r} /\ Increasing(Append(list, r))
<1> DEFINE more == Append(list, r)
<1>1. /\ Len(list) \in Nat
      /\ more \in Seq(Nat) /\ Len(more) = Len(list) + 1 /\ more[Len(list) + 1] = r
      /\ \A i \in 1 .. Len(list) : more[i] = list[i]
  OBVIOUS
<1>2. \A i \in 1 .. Len(list) : list[i] < r
  BY DEF Range
<1> HIDE DEF more
<1>3. Range(more) = Range(list) \cup {r}
  <2>1. \A c \in Range(more) : c \in Range(list) \cup {r}
    BY <1>1 DEF Range
  <2>2. \A i \in 1 .. Len(list) : i \in DOMAIN more
    BY <1>1
  <2>3. Len(list) + 1 \in DOMAIN more
    BY <1>1
  <2>4. ASSUME NEW c \in Range(list) PROVE c \in Range(more)
    <3>1. PICK i \in DOMAIN list : c = list[i]
      BY DEF Range
    <3>2. i \in DOMAIN more /\ more[i] = c
      BY <1>1, <2>2, <3>1, SMTT(30)
    <3> QED
      BY <3>2 DEF Range
  <2>5. r \in Range(more)
    BY <1>1, <2>3 DEF Range
  <2> QED
    BY <2>1, <2>4, <2>5
<1>4. Increasing(more)
  <2> SUFFICES ASSUME NEW i \in 1 .. Len(more), NEW j \in 1 .. Len(more), i < j
               PROVE  more[i] < more[j]
    BY DEF Increasing
  <2>1. i \in 1 .. Len(list) /\ more[i] = list[i]
    BY <1>1
  <2>2. CASE j = Len(list) + 1
    BY <1>1, <1>2, <2>1, <2>2
  <2>3. CASE j # Len(list) + 1
    <3>1. j \in 1 .. (Len(list) + 1)
      BY <1>1
    <3>2. j \in 1 .. Len(list)
      <4>1. \A m \in Nat : \A l \in 1 .. (m + 1) : l # m + 1 => l \in 1 .. m
        OBVIOUS
      <4> QED
        BY <1>1, <2>3, <3>1, <4>1
    <3>3. more[j] = list[j]
      BY <1>1, <3>2
    <3> QED
      BY <2>1, <3>2, <3>3 DEF Increasing
  <2> QED
    BY <2>2, <2>3
<1> QED
  BY <1>1, <1>3, <1>4 DEF more

\* Of the hits that lead to one page the best ranked is the candidate, and the others are
\* failures.
LEMMA CollectedSound ==
    ASSUME NEW n \in Nat, Searching!Ranks = 1 .. n
    PROVE  \E candidates, failures \in Seq(Nat) :
              /\ Searching!Collected =
                    Searching!Result(Searching!Status(candidates, failures),
                                     candidates, failures)
              /\ Range(candidates) = Searching!Bearers
              /\ Range(failures) = 1 .. n \ Searching!Bearers
              /\ Increasing(candidates) /\ Increasing(failures)
<1> DEFINE B == Searching!Bearers
           U(r) == Searching!FinalUrl(r)
<1>1. PICK p \in [0 .. n -> Seq(Nat) \X Seq(Nat)] :
         /\ p[0] = <<<<>>, <<>>>>
         /\ \A k \in 0 .. n - 1 : p[k + 1] = Sorted(p[k], k + 1)
         /\ Searching!Collected =
               Searching!Result(Searching!Status(p[n][1], p[n][2]), p[n][1], p[n][2])
  BY CollectedBySteps
<1>2. /\ B \subseteq 1 .. n
      /\ \A r \in 1 .. n : r \in B <=>
            /\ fetches[r].at = "page"
            /\ \A s \in 1 .. n : fetches[s].at = "page" /\ U(s) = U(r) => r <= s
  BY DEF Searching!Bearers, Searching!At
<1> DEFINE Good(q, k) ==
              /\ Range(q[1]) = B \cap 1 .. k /\ Range(q[2]) = 1 .. k \ B
              /\ Increasing(q[1]) /\ Increasing(q[2])
           P == {k \in 0 .. n : Good(p[k], k)}
<1>3. 0 \in P
  <2>1. p[0][1] = <<>> /\ p[0][2] = <<>> /\ 1 .. 0 = {}
    BY <1>1
  <2>2. Range(<<>>) = {} /\ Increasing(<<>>)
    BY DEF Range, Increasing
  <2> QED
    BY <2>1, <2>2
<1>4. ASSUME NEW k \in 0 .. n - 1, k \in P PROVE k + 1 \in P
  <2> DEFINE r == k + 1
             q == p[k]
  <2>1. /\ r \in 1 .. n /\ q \in Seq(Nat) \X Seq(Nat) /\ Good(q, k) /\ p[r] = Sorted(q, r)
        /\ r \in Nat /\ r \in 0 .. n
    BY <1>1, <1>4, SMTT(30)
  <2>2. q[1] \in Seq(Nat) /\ q[2] \in Seq(Nat)
    BY <2>1
  <2>3. (\A c \in Range(q[1]) : c < r) /\ (\A c \in Range(q[2]) : c < r)
    BY <2>1, SMTT(30)
  <2>4. 1 .. r = 1 .. k \cup {r} /\ r \notin 1 .. k
    OBVIOUS
  <2> HIDE DEF r, q, B, U
  <2>5. CASE r \in B
    <3>1. \A c \in Range(q[1]) : U(c) # U(r)
      BY <1>2, <2>1, <2>3, <2>5
    <3>2. p[r] = <<Append(q[1], r), q[2]>>
      BY <1>2, <2>1, <2>5, <3>1 DEF Sorted, U
    <3>3. p[r][1] = Append(q[1], r) /\ p[r][2] = q[2]
      BY <3>2
    <3>4. Range(p[r][1]) = Range(q[1]) \cup {r} /\ Increasing(p[r][1])
      BY <2>1, <2>2, <2>3, <3>3, Appended, SMTT(30)
    <3>5. Good(p[r], r)
      BY <2>1, <2>4, <2>5, <3>3, <3>4
    <3> QED
      BY <2>1, <3>5 DEF r
  <2>6. CASE r \notin B
    <3>1. ASSUME fetches[r].at = "page" PROVE \E c \in Range(q[1]) : U(c) = U(r)
      <4> DEFINE Same == {s \in 1 .. n : fetches[s].at = "page" /\ U(s) = U(r)}
      <4>1. r \in Same /\ Same \subseteq Nat
        BY <2>1, <3>1
      <4>2. PICK m \in Same : \A s \in Same : m <= s
        <5> HIDE DEF Same
        <5> QED
          BY <4>1, LeastNumber
      <4>3. m \in B
        BY <1>2, <4>2
      <4>4. m <= r /\ m # r
        BY <2>6, <4>1, <4>2, <4>3
      <4>5. m \in 1 .. k
        BY <4>2, <4>4 DEF r
      <4> QED
        BY <2>1, <4>2, <4>3, <4>5
    <3>2. p[r] = <<q[1], Append(q[2], r)>>
      BY <2>1, <3>1 DEF Sorted, U
    <3>3. p[r][1] = q[1] /\ p[r][2] = Append(q[2], r)
      BY <3>2
    <3>4. Range(p[r][2]) = Range(q[2]) \cup {r} /\ Increasing(p[r][2])
      BY <2>1, <2>2, <2>3, <3>3, Appended, SMTT(30)
    <3>5. Good(p[r], r)
      BY <2>1, <2>4, <2>6, <3>3, <3>4
    <3> QED
      BY <2>1, <3>5 DEF r
  <2> QED
    BY <2>5, <2>6
<1>5. Good(p[n], n)
  <2> HIDE DEF P
  <2>1. 0 .. n \subseteq P
    BY <1>3, <1>4, Reaches
  <2>2. n \in P
    BY <2>1
  <2> QED
    BY <2>2 DEF P
<1>6. p[n][1] \in Seq(Nat) /\ p[n][2] \in Seq(Nat) /\ B \cap 1 .. n = B
  BY <1>2
<1> HIDE DEF B
<1> QED
  BY <1>1, <1>5, <1>6 DEF B

\* The two names of the cardinality of a set.
LEMMA SameCardinality == \A S : Searching!Cardinality(S) = Cardinality(S)
  BY DEF Searching!Cardinality, Cardinality

\* Nothing is found yet.
LEMMA WebBegin ==
    ASSUME WebParameters, PartsInit, part = "web"
    PROVE  WebInv
<1>1. Searching!Init
  BY DEF PartsInit
<1>2. hits = <<>> /\ fetches = <<>> /\ Searching!Ranks = {}
  BY <1>1 DEF Searching!Init, Searching!Ranks
<1>3. Searching!At("running") = {} /\ Cardinality({}) = 0
  BY <1>2, FS_EmptySet DEF Searching!At
<1>4. Searching!FetchesBounded
  <2>1. Searching!Cardinality(Searching!At("running")) = 0
    BY <1>3, SameCardinality
  <2>2. Len(hits) = 0 /\ DOMAIN hits = {}
    BY <1>2
  <2>3. 0 <= ResultLimit /\ 0 <= Concurrency
    BY DEF WebParameters
  <2> QED
    BY <1>2, <2>1, <2>2, <2>3 DEF Searching!FetchesBounded, Searching!IsInjective
<1>5. WebTypes
  <2>1. Len(hits) = 0 /\ 1 .. 0 = {} /\ DOMAIN fetches = {} /\ fetches = [r \in {} |-> <<>>]
    BY <1>2
  <2>2. fetches \in [1 .. Len(hits) -> [at : {"waiting", "running", "page", "failed"},
                                       visited : Seq(Urls)]]
    BY <2>1
  <2>3. hits \in Seq(Urls) /\ <<>> \in Seq(Nat)
    BY <1>2
  <2>4. result \in [status : {"none", "disabled", "empty", "ok", "partial", "failed"},
                    candidates : Seq(Nat), failures : Seq(Nat)]
    <3>1. \E said \in {"disabled", "none"} : result = Searching!Result(said, <<>>, <<>>)
      BY <1>1 DEF Searching!Init, Searching!Disabled
    <3> QED
      BY <2>3, <3>1 DEF Searching!Result
  <2> QED
    BY <1>1, <2>2, <2>3, <2>4 DEF WebTypes, Searching!Init
<1>6. TasksLinked /\ Searching!ResultSound
  BY <1>1, <1>2
  DEF TasksLinked, Searching!ResultSound, Searching!Init, Searching!Disabled, Searching!Result
<1> QED
  BY <1>4, <1>5, <1>6 DEF WebInv

\* What the search finds: WebRetriever.retrieve, rag/web.py.
LEMMA SearchWeb ==
    ASSUME WebParameters, WebInv,
           \/ Searching!SearchFails
           \/ \E items \in Searching!Responses : Searching!Search(items)
    PROVE  WebInv'
<1>1. WebTypes /\ TasksLinked /\ web = "searching" /\ hits = <<>>
  BY DEF WebInv, TasksLinked, Searching!SearchFails, Searching!Search
<1>2. CASE Searching!SearchFails
  <2>1. /\ web' = "done" /\ result' = Searching!Result("failed", <<>>, <<>>)
        /\ UNCHANGED <<documents, hits, fetches, answer>>
    BY <1>2 DEF Searching!SearchFails, Searching!Ends
  <2>2. WebTypes' /\ TasksLinked' /\ Searching!ResultSound'
    BY <1>1, <2>1
    DEF WebTypes, TasksLinked, Searching!ResultSound, Searching!Result
  <2>3. Searching!FetchesBounded'
    BY <2>1 DEF WebInv, Searching!FetchesBounded, Searching!At, Searching!Ranks
  <2> QED
    BY <2>2, <2>3 DEF WebInv
<1>3. ASSUME NEW items \in Searching!Responses, Searching!Search(items) PROVE WebInv'
  <2>1. items \in Seq(Urls \cup {Unusable})
    BY DEF Searching!Responses, Searching!BoundedSeq, Searching!SeqOf, WebParameters
  <2> DEFINE found == Searching!Hits(items)
  <2>2. found \in Seq(Urls) /\ Len(found) <= ResultLimit /\ Searching!IsInjective(found)
    BY <2>1, HitsSound
  <2> HIDE DEF found
  <2>3. /\ hits' = found
        /\ fetches' = [r \in DOMAIN found |-> Searching!Fetch("waiting", <<>>)]
        /\ IF found = <<>>
           THEN web' = "done" /\ result' = Searching!Result("empty", <<>>, <<>>)
           ELSE web' = "fetching" /\ UNCHANGED result
        /\ UNCHANGED <<documents, answer>>
    BY <1>3 DEF found, Searching!Search, Searching!Ends
  <2>4. DOMAIN found = 1 .. Len(found) /\ <<>> \in Seq(Urls)
    BY <2>2
  <2>5. WebTypes'
    <3>1. fetches' \in [1 .. Len(hits') -> [at : {"waiting", "running", "page", "failed"},
                                            visited : Seq(Urls)]]
      BY <2>3, <2>4 DEF Searching!Fetch
    <3> QED
      BY <1>1, <2>2, <2>3, <3>1 DEF WebTypes, Searching!Result
  <2>6. TasksLinked' /\ Searching!ResultSound'
    BY <1>1, <2>3 DEF TasksLinked, WebTypes, Searching!ResultSound, Searching!Result
  <2>7. Searching!FetchesBounded'
    <3>1. \A r \in DOMAIN found : fetches'[r].at = "waiting" /\ fetches'[r].visited = <<>>
      BY <2>3 DEF Searching!Fetch
    <3>2. Searching!At("running")' = {}
      BY <2>3, <3>1 DEF Searching!At, Searching!Ranks
    <3>3. Searching!IsInjective(<<>>)
      BY DEF Searching!IsInjective
    <3>4. Searching!Cardinality(Searching!At("running")') = 0
      BY <3>2, SameCardinality, FS_EmptySet
    <3>5. 0 <= MaxRedirects + 1 /\ 0 <= Concurrency /\ Len(<<>>) = 0
      BY DEF WebParameters
    <3> QED
      BY <2>2, <2>3, <3>1, <3>3, <3>4, <3>5
      DEF Searching!FetchesBounded, Searching!Ranks
  <2> QED
    BY <2>5, <2>6, <2>7 DEF WebInv
<1> QED
  BY <1>2, <1>3

\* A fetch goes on within its bounds.
Fetched(r, next) ==
    /\ web = "fetching" /\ UNCHANGED <<documents, web, hits, result, answer>>
    /\ next \in [at : {"running", "page", "failed"}, visited : Seq(Urls)]
    /\ Len(next.visited) <= MaxRedirects + 1 /\ Searching!IsInjective(next.visited)
    /\ fetches' = [fetches EXCEPT ![r] = next]
    /\ \/ fetches[r].at = "running"
       \/ next.at # "running"
       \/ Cardinality(Searching!At("running")) < Concurrency

\* What holds of the tasks and the result does not depend on the fetches under way.
LEMMA FetchingWeb ==
    ASSUME WebParameters, WebInv, NEW r \in Searching!Ranks, NEW next, Fetched(r, next)
    PROVE  WebInv'
<1>1. /\ WebTypes /\ TasksLinked /\ Searching!FetchesBounded
      /\ Searching!Ranks = 1 .. Len(hits) /\ Len(hits) \in Nat
  BY DEF WebInv, WebTypes, Searching!Ranks
<1> USE DEF Fetched
<1>2. WebTypes'
  BY <1>1 DEF WebTypes
<1>3. TasksLinked' /\ Searching!ResultSound'
  BY <1>1 DEF TasksLinked, Searching!ResultSound
<1>4. Searching!FetchesBounded'
  <2> DEFINE R == Searching!At("running")
  <2>1. R \subseteq 1 .. Len(hits) /\ IsFiniteSet(R)
    <3>1. R \subseteq 1 .. Len(hits)
      BY <1>1 DEF Searching!At
    <3>2. IsFiniteSet(1 .. Len(hits))
      BY <1>1, FS_Interval
    <3> QED
      BY <3>1, <3>2, FS_Subset
  <2>2. Cardinality(R) \in Nat /\ Cardinality(R) <= Concurrency
    BY <1>1, <2>1, SameCardinality, FS_CardinalityType DEF Searching!FetchesBounded
  <2>3. R' = (IF next.at = "running" THEN R \cup {r} ELSE R \ {r})
    BY <1>1, <1>2 DEF Searching!At, Searching!Ranks, WebTypes
  <2>4. r \in R <=> fetches[r].at = "running"
    BY DEF Searching!At
  <2> HIDE DEF R
  <2>5. Cardinality(R') <= Concurrency
    <3>1. CASE next.at = "running"
      <4>1. CASE r \in R
        <5>1. R' = R
          BY <2>3, <3>1, <4>1
        <5> QED
          BY <2>2, <5>1
      <4>2. CASE r \notin R
        <5>1. Cardinality(R \cup {r}) = Cardinality(R) + 1
          BY <2>1, <4>2, FS_AddElement
        <5>2. Cardinality(R) < Concurrency
          BY <2>4, <3>1, <4>2 DEF R
        <5> QED
          BY <2>2, <2>3, <3>1, <5>1, <5>2 DEF WebParameters
      <4> QED
        BY <4>1, <4>2
    <3>2. CASE next.at # "running"
      <4>1. R' \subseteq R
        BY <2>3, <3>2
      <4>2. Cardinality(R') <= Cardinality(R) /\ Cardinality(R') \in Nat
        BY <2>1, <4>1, FS_Subset, FS_CardinalityType
      <4> QED
        BY <2>2, <4>2 DEF WebParameters
    <3> QED
      BY <3>1, <3>2
  <2>6. Searching!Cardinality(R') <= Concurrency
    BY <2>5, SameCardinality
  <2>7. ASSUME NEW s \in 1 .. Len(hits)
        PROVE  /\ Len(fetches'[s].visited) <= MaxRedirects + 1
               /\ Searching!IsInjective(fetches'[s].visited)
    <3>1. fetches'[s] = IF s = r THEN next ELSE fetches[s]
      BY <1>1 DEF WebTypes
    <3> QED
      BY <1>1, <3>1 DEF Searching!FetchesBounded
  <2> QED
    BY <1>1, <2>6, <2>7 DEF R, Searching!FetchesBounded, Searching!Ranks
<1> QED
  BY <1>2, <1>3, <1>4 DEF WebInv

\* A fetch begins, ends or is redirected: SafePageFetcher.fetch, web/fetcher.py.
LEMMA FetchWeb ==
    ASSUME WebParameters, WebInv, NEW r \in Searching!Ranks,
           \/ Searching!Begin(r) \/ Searching!Page(r) \/ Searching!Fails(r)
           \/ \E to \in Urls : Searching!Redirect(r, to)
    PROVE  WebInv'
<1>1. /\ web = "fetching" /\ Searching!Ranks = 1 .. Len(hits) /\ Len(hits) \in Nat
      /\ WebTypes /\ Searching!FetchesBounded
      /\ UNCHANGED <<documents, web, hits, result, answer>>
  BY DEF WebInv, WebTypes, Searching!Ranks, Searching!Begin, Searching!Page, Searching!Fails,
         Searching!Redirect, Searching!Visiting
<1>2. /\ fetches[r] \in [at : {"waiting", "running", "page", "failed"}, visited : Seq(Urls)]
      /\ hits[r] \in Urls
  BY <1>1 DEF WebTypes
<1>3. /\ Len(fetches[r].visited) <= MaxRedirects + 1
      /\ Searching!IsInjective(fetches[r].visited)
  BY <1>1 DEF Searching!FetchesBounded
<1>4. /\ <<>> \in Seq(Urls) /\ Len(<<>>) = 0 /\ Searching!IsInjective(<<>>)
      /\ 0 <= MaxRedirects + 1
  BY DEF Searching!IsInjective, WebParameters
<1>5. CASE Searching!Begin(r)
  <2> DEFINE one == <<hits[r]>>
  <2>1. one \in Seq(Urls) /\ Len(one) = 1 /\ \A i \in DOMAIN one : i = 1
    BY <1>2
  <2>2. Searching!IsInjective(one)
    BY <2>1 DEF Searching!IsInjective
  <2>3. 1 <= MaxRedirects + 1
    BY DEF WebParameters
  <2>4. /\ fetches' = [fetches EXCEPT ![r] = Searching!Fetch("running", one)]
        /\ Cardinality(Searching!At("running")) < Concurrency
    BY <1>5, SameCardinality DEF Searching!Begin
  <2> HIDE DEF one
  <2>5. Fetched(r, [at |-> "running", visited |-> one])
    BY <1>1, <2>1, <2>2, <2>3, <2>4 DEF Searching!Fetch, Fetched
  <2> QED
    BY <2>5, FetchingWeb
<1>6. CASE Searching!Page(r)
  <2>1. fetches' = [fetches EXCEPT ![r].at = "page"]
    BY <1>6 DEF Searching!Page
  <2>2. fetches' = [fetches EXCEPT ![r] = [at |-> "page", visited |-> fetches[r].visited]]
    <3>1. [fetches[r] EXCEPT !.at = "page"] = [at |-> "page", visited |-> fetches[r].visited]
      BY <1>2
    <3> QED
      BY <2>1, <3>1
  <2>3. Fetched(r, [at |-> "page", visited |-> fetches[r].visited])
    BY <1>1, <1>2, <1>3, <2>2 DEF Fetched
  <2> QED
    BY <2>3, FetchingWeb
<1>7. CASE Searching!Fails(r)
  <2>1. Fetched(r, [at |-> "failed", visited |-> <<>>])
    BY <1>1, <1>4, <1>7 DEF Searching!Fails, Searching!Fetch, Fetched
  <2> QED
    BY <2>1, FetchingWeb
<1>8. ASSUME NEW to \in Urls, Searching!Redirect(r, to) PROVE WebInv'
  <2> DEFINE visited == fetches[r].visited
  <2>1. /\ fetches' = [fetches EXCEPT
             ![r] = IF Len(visited) > MaxRedirects \/ to \in Range(visited)
                    THEN [at |-> "failed", visited |-> <<>>]
                    ELSE [at |-> "running", visited |-> Append(visited, to)]]
        /\ fetches[r].at = "running"
    BY <1>8
    DEF Searching!Redirect, Searching!Visiting, Searching!At, Searching!Fetch,
        Range, Searching!Range
  <2>2. CASE Len(visited) > MaxRedirects \/ to \in Range(visited)
    <3>1. Fetched(r, [at |-> "failed", visited |-> <<>>])
      BY <1>1, <1>4, <2>1, <2>2 DEF Fetched
    <3> QED
      BY <3>1, FetchingWeb
  <2>3. CASE ~(Len(visited) > MaxRedirects \/ to \in Range(visited))
    <3> DEFINE more == Append(visited, to)
    <3>0. \A i \in 1 .. Len(visited) : visited[i] \in Range(visited)
      BY <1>2 DEF Range
    <3>1. /\ Len(visited) \in Nat /\ Len(visited) + 1 <= MaxRedirects + 1
          /\ \A i \in 1 .. Len(visited) : visited[i] # to
      BY <1>2, <2>3, <3>0 DEF WebParameters
    <3>2. /\ more \in Seq(Urls) /\ Len(more) = Len(visited) + 1
          /\ DOMAIN more = 1 .. Len(visited) \cup {Len(visited) + 1}
          /\ more[Len(visited) + 1] = to
          /\ \A i \in 1 .. Len(visited) : more[i] = visited[i]
      BY <1>2
    <3>3. \A i, j \in 1 .. Len(visited) : visited[i] = visited[j] => i = j
      BY <1>2, <1>3 DEF Searching!IsInjective
    <3> HIDE DEF more, visited
    <3>4. Searching!IsInjective(more)
      BY <3>1, <3>2, <3>3 DEF Searching!IsInjective
    <3>5. Fetched(r, [at |-> "running", visited |-> more])
      BY <1>1, <2>1, <2>3, <3>1, <3>2, <3>4 DEF more, Fetched
    <3> QED
      BY <3>5, FetchingWeb
  <2> QED
    BY <2>2, <2>3
<1> QED
  BY <1>5, <1>6, <1>7, <1>8

\* The fetches are gathered: WebRetriever.retrieve, rag/web.py.
LEMMA GatherWeb ==
    ASSUME WebParameters, WebInv, Searching!Gather
    PROVE  WebInv'
<1> DEFINE n == Len(hits)
<1>1. /\ WebTypes /\ TasksLinked /\ web = "fetching" /\ web' = "done"
      /\ result' = Searching!Collected
      /\ UNCHANGED <<documents, hits, fetches, answer>>
      /\ Searching!Ranks = 1 .. n /\ n \in Nat
  BY DEF WebInv, WebTypes, Searching!Ranks, Searching!Gather, Searching!Ends
<1>2. PICK candidates, failures \in Seq(Nat) :
         /\ Searching!Collected =
               Searching!Result(Searching!Status(candidates, failures), candidates, failures)
         /\ Range(candidates) = Searching!Bearers
         /\ Range(failures) = 1 .. n \ Searching!Bearers
         /\ Increasing(candidates) /\ Increasing(failures)
  BY <1>1, CollectedSound
<1> DEFINE said == Searching!Status(candidates, failures)
<1>3. result' = [status |-> said, candidates |-> candidates, failures |-> failures]
  BY <1>1, <1>2 DEF Searching!Result
<1>4. said \in {"empty", "ok", "partial", "failed"}
  BY DEF Searching!Status
<1>5. /\ candidates = <<>> <=> Searching!Bearers = {}
      /\ failures = <<>> <=> 1 .. n \ Searching!Bearers = {}
  <2>1. ASSUME NEW list \in Seq(Nat) PROVE list = <<>> <=> Range(list) = {}
    <3>1. list # <<>> => 1 \in DOMAIN list
      OBVIOUS
    <3>2. list = <<>> => DOMAIN list = {}
      OBVIOUS
    <3> QED
      BY <3>1, <3>2 DEF Range
  <2> QED
    BY <1>2, <2>1
<1>6. said = CASE candidates # <<>> /\ failures # <<>> -> "partial"
               [] candidates # <<>> /\ failures = <<>> -> "ok"
               [] candidates = <<>> /\ failures # <<>> -> "failed"
               [] OTHER -> "empty"
  BY DEF Searching!Status
<1> HIDE DEF said
<1>7. WebTypes' /\ TasksLinked'
  BY <1>1, <1>3, <1>4 DEF WebTypes, TasksLinked
<1>8. Searching!FetchesBounded'
  BY <1>1 DEF WebInv, Searching!FetchesBounded, Searching!At, Searching!Ranks
<1>9. Searching!ResultSound'
  <2> SUFFICES ASSUME hits # <<>> PROVE Searching!ResultSound'
    BY <1>1 DEF Searching!ResultSound
  <2>1. Searching!Bearers' = Searching!Bearers /\ Searching!Ranks' = Searching!Ranks
    BY <1>1 DEF Searching!Bearers, Searching!At, Searching!Ranks, Searching!FinalUrl
  <2>2. n # 0 /\ 1 .. n # {} /\ Searching!Bearers \subseteq 1 .. n
    <3>1. hits \in Seq(Urls)
      BY <1>1 DEF WebTypes
    <3>2. n # 0
      BY <3>1
    <3>3. 1 \in 1 .. n
      BY <1>1, <3>2
    <3> QED
      BY <1>1, <3>2, <3>3 DEF Searching!Bearers, Searching!At
  <2>3. said = IF Searching!Bearers = {} THEN "failed"
               ELSE IF Searching!Bearers = 1 .. n THEN "ok" ELSE "partial"
    BY <1>5, <1>6, <2>2
  <2>4. \A ranks \in {candidates, failures} :
           \A i, j \in DOMAIN ranks : i < j => ranks[i] < ranks[j]
    <3>1. \A i, j \in DOMAIN candidates : i < j => candidates[i] < candidates[j]
      <4>1. DOMAIN candidates = 1 .. Len(candidates)
        OBVIOUS
      <4> QED
        BY <4>1, <1>2, Zenon DEF Increasing
    <3>2. \A i, j \in DOMAIN failures : i < j => failures[i] < failures[j]
      <4>1. DOMAIN failures = 1 .. Len(failures)
        OBVIOUS
      <4> QED
        BY <4>1, <1>2, Zenon DEF Increasing
    <3> QED
      BY <3>1, <3>2, Zenon
  <2> QED
    BY <1>1, <1>2, <1>3, <2>1, <2>3, <2>4 DEF Searching!ResultSound, Range, Searching!Range
<1> QED
  BY <1>7, <1>8, <1>9 DEF WebInv

\* The document task and the answer: CombinedRetrievalService.retrieve, rag/combined.py.
LEMMA AnswerWeb ==
    ASSUME WebInv,
           Searching!DocumentsFound \/ Searching!DocumentsFail \/ Searching!Answer
    PROVE  WebInv'
<1>1. UNCHANGED <<hits, fetches, result>> /\ (web' = "done" <=> web = "done")
  BY DEF Searching!DocumentsFound, Searching!DocumentsFail, Searching!Answer
<1>2. WebTypes' /\ TasksLinked'
  BY DEF WebInv, WebTypes, TasksLinked, Searching!DocumentsFound, Searching!DocumentsFail,
         Searching!Answer
<1>3. Searching!Bearers' = Searching!Bearers /\ Searching!Ranks' = Searching!Ranks
  BY <1>1 DEF Searching!Bearers, Searching!At, Searching!Ranks, Searching!FinalUrl
<1>4. Searching!FetchesBounded' /\ Searching!ResultSound'
  BY <1>1, <1>3
  DEF WebInv, Searching!FetchesBounded, Searching!ResultSound, Searching!At, Searching!Ranks
<1> QED
  BY <1>2, <1>4 DEF WebInv

\* Every step of this part keeps the invariant.
LEMMA WebSteps ==
    ASSUME WebParameters, part = "web", WebInv, [PartsNext]_partsVars
    PROVE  WebInv'
<1>1. CASE UNCHANGED partsVars
  BY <1>1, SMTT(30)
  DEF partsVars, webVars, WebInv, WebTypes, TasksLinked, Searching!FetchesBounded,
              Searching!ResultSound, Searching!Bearers, Searching!At, Searching!Ranks,
              Searching!FinalUrl
<1>2. CASE PartsNext
  <2>1. \/ \/ Searching!SearchFails
           \/ \E items \in Searching!Responses : Searching!Search(items)
        \/ \E r \in Searching!Ranks :
              \/ Searching!Begin(r) \/ Searching!Page(r) \/ Searching!Fails(r)
              \/ \E to \in Urls : Searching!Redirect(r, to)
        \/ Searching!Gather
        \/ Searching!DocumentsFound \/ Searching!DocumentsFail \/ Searching!Answer
    BY <1>2 DEF PartsNext, Retrieving, OnTheWeb, InTalk, Linking
  <2> QED
    BY <2>1, SearchWeb, FetchWeb, GatherWeb, AnswerWeb
<1> QED
  BY <1>1, <1>2

\* The invariant is stronger than what is promised of the web branch.
LEMMA InvWebSound == WebInv => Searching!WebSound
<1> SUFFICES ASSUME WebInv PROVE Searching!WebSound
  OBVIOUS
<1>1. Searching!TypeOK
  BY DEF WebInv, WebTypes, Searching!TypeOK, Searching!Ranks
<1> QED
  BY <1>1 DEF WebInv, WebTypes, TasksLinked, Searching!WebSound

\* docs/p7-web-retrieval.md:61-81: for any responses and limits, a web that fails takes
\* nothing from the documents, and what it found depends on the ranks of its pages alone.
THEOREM WebHolds ==
    ASSUME WebParameters
    PROVE  PartsSpec => []WebSound
<1> DEFINE Now == part = "web"
           Sound == Now => WebInv
<1>1. PartsInit => Sound
  BY WebBegin
<1>2. Sound /\ [PartsNext]_partsVars => Sound'
  BY WebSteps, PartStays
<1>3. Sound => WebSound
  BY InvWebSound DEF WebSound
<1> QED
  BY <1>1, <1>2, <1>3, PTL DEF PartsSpec, partsVars

-------------------------------------------------------------------------------
(* The conversations *)

\* A page has at least one row (core/pagination.py), and a question is asked in a session.
TalkParameters ==
    /\ IsFiniteSet(Sessions) /\ NoSession \notin Sessions
    /\ SessionOf \in [Questions -> Sessions]
    /\ Weight \in [Questions -> [user : Nat, assistant : Nat]]
    /\ Limit \in Nat \ {0} /\ Turns \in Nat /\ Budget \in Nat /\ PromptBudget \in Nat

Loading ==
    [at : {"idle", "sessions", "messages", "done", "failed"},
     requested : Sessions \cup {NoSession}, selected : Sessions \cup {NoSession},
     cursor : Nat, listed : Seq(Sessions), shown : Seq(Talking!Message),
     known : SUBSET Talking!Message, gone : SUBSET Sessions, touched : SUBSET Sessions]

TalkTypes ==
    /\ clock \in Nat
    /\ session \in [Sessions -> Talking!ChatSession]
    /\ messages \subseteq Talking!Message /\ IsFiniteSet(messages)
    /\ asked \in [Questions -> [at : {"new", "asking", "asked", "prompted", "answering",
                                      "answered", "failed"},
                                time : Nat, prompt : Seq(Talking!Message)]]
    /\ page \in Loading

Pending == {a \in Questions : asked[a].at \in {"asking", "answering"}}

TimesApart ==
    /\ \A m, n \in messages : m.at = n.at => m = n
    /\ \A s, t \in Sessions : session[s].updated = session[t].updated => s = t
    /\ \A m \in messages : m.at \in 1 .. clock
    /\ \A s \in Sessions : session[s].updated <= clock
    /\ \A a \in Pending :
          /\ asked[a].time \in 1 .. clock
          /\ \A m \in messages : m.at # asked[a].time
          /\ \A s \in Sessions : session[s].updated # asked[a].time
          /\ \A b \in Pending : asked[a].time = asked[b].time => a = b

TurnsTaken ==
    \A m \in messages :
        IF m.role = "user" THEN asked[m.ask].at \notin {"new", "asking"}
        ELSE asked[m.ask].at = "answered"

Untouched == Sessions \ (page.touched \cup page.gone)
Listing ==
    page.at = "sessions" =>
        /\ page.shown = <<>>
        /\ \A s \in page.gone : ~Talking!Live(s) /\ s \notin Talking!Range(page.listed)
        /\ \A s \in Untouched :
              /\ Talking!Live(s)
              /\ Talking!Occurrences(s, page.listed) =
                    IF session[s].updated >= page.cursor THEN 1 ELSE 0

Reading ==
    /\ page.at # "idle" => page.requested \in Sessions /\ page.known \subseteq messages
    /\ page.at = "messages" =>
        /\ \A i, j \in DOMAIN page.shown :
              i < j => Talking!Earlier(page.shown[i], page.shown[j])
        /\ \A i \in DOMAIN page.shown : page.shown[i].at <= page.cursor
        /\ \A m \in page.known :
              SessionOf[m.ask] = page.selected /\ m.at <= page.cursor =>
                  m \in Talking!Range(page.shown)

TalkInv ==
    /\ TalkTypes /\ TimesApart /\ TurnsTaken /\ Listing /\ Reading
    /\ Talking!SessionsListed /\ Talking!MessagesShown /\ Talking!PromptsSound

-------------------------------------------------------------------------------
(* The lists of sessions and messages *)

\* Sessions that changed at different times are listed in that order, the latest first.
LEMMA SessionRowsSound ==
    ASSUME TalkParameters, TalkTypes, TimesApart
    PROVE  LET rows == Talking!SessionRows IN
           /\ rows \in Seq(Sessions)
           /\ \A s \in Sessions :
                 Talking!Live(s) /\ session[s].updated < page.cursor <=>
                    \E k \in 1 .. Len(rows) : rows[k] = s
           /\ \A i, j \in 1 .. Len(rows) :
                 i < j <=> session[rows[i]].updated > session[rows[j]].updated
<1> DEFINE S == {s \in Sessions : Talking!Live(s) /\ session[s].updated < page.cursor}
           R == {p \in S \X S : session[p[1]].updated > session[p[2]].updated}
           rows == Talking!SessionRows
           N == Cardinality(S)
           Chosen(k) == CHOOSE x \in S :
              Cardinality({y \in S : session[y].updated > session[x].updated}) = k - 1
<1>1. IsFiniteSet(S) /\ N \in Nat
  <2>1. S \subseteq Sessions
    OBVIOUS
  <2> HIDE DEF S
  <2> QED
    BY <2>1, FS_Subset, FS_CardinalityType DEF TalkParameters
<1>2. \A s \in S : session[s].updated \in Nat
  BY DEF TalkTypes, Talking!ChatSession
<1>3. \A s, t \in S : <<s, t>> \in R <=> session[s].updated > session[t].updated
  OBVIOUS
<1>4. \A s, t \in S : s # t => session[s].updated # session[t].updated
  BY DEF TimesApart
<1>5. rows = [k \in 1 .. N |-> Chosen(k)]
  BY DEF Talking!SessionRows, Talking!Ordered, Talking!Cardinality, Cardinality
<1> HIDE DEF S, R, rows
<1>6. StrictOrder(R, S)
  <2>1. \A x \in S : <<x, x>> \notin R
    BY <1>2, <1>3
  <2>2. \A x, y, z \in S : <<x, y>> \in R /\ <<y, z>> \in R => <<x, z>> \in R
    BY <1>2, <1>3
  <2>3. \A x, y \in S : x # y => <<x, y>> \in R \/ <<y, x>> \in R
    BY <1>2, <1>3, <1>4
  <2> QED
    BY <2>1, <2>2, <2>3 DEF StrictOrder
<1>7. ASSUME NEW k \in 1 .. N
      PROVE  rows[k] \in S /\ Cardinality(Preceding(R, S, rows[k])) = k - 1
  <2>1. \A x \in S :
           Preceding(R, S, x) = {y \in S : session[y].updated > session[x].updated}
    BY <1>3 DEF Preceding
  <2>2. \E x \in S : Cardinality(Preceding(R, S, x)) = k - 1
    BY <1>1, <1>6, PlacesFilled
  <2>3. rows[k] = Chosen(k)
    BY <1>5
  <2> QED
    BY <2>1, <2>2, <2>3
<1>8. rows = [k \in 1 .. N |-> rows[k]]
  <2> HIDE DEF Chosen
  <2> QED
    BY <1>5
<1>9. /\ rows \in Seq(S) /\ Len(rows) = N
      /\ \A x \in S : \E k \in 1 .. N : rows[k] = x
      /\ \A i, j \in 1 .. N : i < j <=> <<rows[i], rows[j]>> \in R
  BY <1>1, <1>6, <1>7, <1>8, OrderedList
<1>10. \A k \in 1 .. N : rows[k] \in S
  BY <1>7
<1>11. rows \in Seq(Sessions)
  BY <1>9 DEF S
<1>12. ASSUME NEW s \in Sessions
       PROVE  Talking!Live(s) /\ session[s].updated < page.cursor <=>
                 \E k \in 1 .. Len(rows) : rows[k] = s
  <2>1. s \in S <=> Talking!Live(s) /\ session[s].updated < page.cursor
    BY DEF S
  <2> QED
    BY <1>9, <1>10, <2>1
<1> QED
  BY <1>3, <1>9, <1>10, <1>11, <1>12 DEF rows

\* The messages of a session after the cursor, the oldest first.
LEMMA MessageRowsSound ==
    ASSUME TalkParameters, TalkTypes, TimesApart
    PROVE  LET rows == Talking!MessageRows IN
           /\ rows \in Seq(messages)
           /\ \A m \in messages :
                 SessionOf[m.ask] = page.selected /\ m.at > page.cursor <=>
                    \E k \in 1 .. Len(rows) : rows[k] = m
           /\ \A i, j \in 1 .. Len(rows) : i < j <=> rows[i].at < rows[j].at
<1> DEFINE S == {m \in messages : SessionOf[m.ask] = page.selected /\ m.at > page.cursor}
           R == {p \in S \X S : p[1].at < p[2].at}
           rows == Talking!MessageRows
           N == Cardinality(S)
           Chosen(k) == CHOOSE x \in S : Cardinality({y \in S : y.at < x.at}) = k - 1
<1>1. IsFiniteSet(S) /\ N \in Nat
  <2>1. S \subseteq messages /\ IsFiniteSet(messages)
    BY DEF TalkTypes
  <2> HIDE DEF S
  <2> QED
    BY <2>1, FS_Subset, FS_CardinalityType
<1>2. \A m \in S : m \in Talking!Message /\ m.at \in Nat
  BY DEF TalkTypes, Talking!Message
<1>3. \A m, n \in S : <<m, n>> \in R <=> m.at < n.at
  OBVIOUS
<1>4. \A m, n \in S : m # n => m.at # n.at
  BY DEF TimesApart
<1>5. rows = [k \in 1 .. N |-> Chosen(k)]
  BY DEF Talking!MessageRows, Talking!Ordered, Talking!Earlier, Talking!Cardinality, Cardinality
<1>6. \A m \in S : m \in messages
  OBVIOUS
<1> HIDE DEF S, R, rows
<1>7. StrictOrder(R, S)
  <2>1. \A x \in S : <<x, x>> \notin R
    BY <1>2, <1>3
  <2>2. \A x, y, z \in S : <<x, y>> \in R /\ <<y, z>> \in R => <<x, z>> \in R
    BY <1>2, <1>3
  <2>3. \A x, y \in S : x # y => <<x, y>> \in R \/ <<y, x>> \in R
    BY <1>2, <1>3, <1>4
  <2> QED
    BY <2>1, <2>2, <2>3 DEF StrictOrder
<1>8. ASSUME NEW k \in 1 .. N
      PROVE  rows[k] \in S /\ Cardinality(Preceding(R, S, rows[k])) = k - 1
  <2>1. \A x \in S : Preceding(R, S, x) = {y \in S : y.at < x.at}
    BY <1>3 DEF Preceding
  <2>2. \E x \in S : Cardinality(Preceding(R, S, x)) = k - 1
    BY <1>1, <1>7, PlacesFilled
  <2>3. rows[k] = Chosen(k)
    BY <1>5
  <2> QED
    BY <2>1, <2>2, <2>3
<1>9. rows = [k \in 1 .. N |-> rows[k]]
  <2> HIDE DEF Chosen
  <2> QED
    BY <1>5
<1>10. /\ rows \in Seq(S) /\ Len(rows) = N
       /\ \A x \in S : \E k \in 1 .. N : rows[k] = x
       /\ \A i, j \in 1 .. N : i < j <=> <<rows[i], rows[j]>> \in R
  BY <1>1, <1>7, <1>8, <1>9, OrderedList
<1>11. \A k \in 1 .. N : rows[k] \in S
  BY <1>8
<1>12. rows \in Seq(messages)
  BY <1>6, <1>10, <1>11
<1>13. ASSUME NEW m \in messages
       PROVE  SessionOf[m.ask] = page.selected /\ m.at > page.cursor <=>
                 \E k \in 1 .. Len(rows) : rows[k] = m
  <2>1. m \in S <=> SessionOf[m.ask] = page.selected /\ m.at > page.cursor
    BY DEF S
  <2> QED
    BY <1>10, <1>11, <2>1
<1>14. \A i, j \in 1 .. Len(rows) : i < j <=> rows[i].at < rows[j].at
  BY <1>3, <1>10, <1>11
<1> QED
  BY <1>12, <1>13, <1>14 DEF rows

\* The latest messages of the session of a question, the newest first, without the question.
LEMMA RowsSound ==
    ASSUME TalkParameters, TalkTypes, TimesApart, NEW a
    PROVE  LET rows == Talking!Rows(a) IN
           /\ rows \in Seq(messages)
           /\ \A k \in 1 .. Len(rows) :
                 /\ SessionOf[rows[k].ask] = SessionOf[a]
                 /\ ~(rows[k].ask = a /\ rows[k].role = "user")
           /\ \A i, j \in 1 .. Len(rows) : i < j => rows[i].at > rows[j].at
<1> DEFINE S == {m \in messages : SessionOf[m.ask] = SessionOf[a]
                                    /\ ~(m.ask = a /\ m.role = "user")}
           R == {p \in S \X S : p[2].at < p[1].at}
           rows == Talking!Ordered(S, LAMBDA m, n : Talking!Earlier(n, m))
           N == Cardinality(S)
           Chosen(k) == CHOOSE x \in S : Cardinality({y \in S : x.at < y.at}) = k - 1
<1>1. IsFiniteSet(S) /\ N \in Nat
  <2>1. S \subseteq messages /\ IsFiniteSet(messages)
    BY DEF TalkTypes
  <2> HIDE DEF S
  <2> QED
    BY <2>1, FS_Subset, FS_CardinalityType
<1>2. \A m \in S : m \in Talking!Message /\ m.at \in Nat
  BY DEF TalkTypes, Talking!Message
<1>3. \A m, n \in S : <<m, n>> \in R <=> n.at < m.at
  OBVIOUS
<1>4. \A m, n \in S : m # n => m.at # n.at
  BY DEF TimesApart
<1>5. rows = [k \in 1 .. N |-> Chosen(k)]
  BY DEF Talking!Rows, Talking!Ordered, Talking!Earlier, Talking!Cardinality, Cardinality
<1>6. \A m \in S : m \in messages
  OBVIOUS
<1> HIDE DEF S, R, rows
<1>7. StrictOrder(R, S)
  <2>1. \A x \in S : <<x, x>> \notin R
    BY <1>2, <1>3
  <2>2. \A x, y, z \in S : <<x, y>> \in R /\ <<y, z>> \in R => <<x, z>> \in R
    BY <1>2, <1>3
  <2>3. \A x, y \in S : x # y => <<x, y>> \in R \/ <<y, x>> \in R
    BY <1>2, <1>3, <1>4
  <2> QED
    BY <2>1, <2>2, <2>3 DEF StrictOrder
<1>8. ASSUME NEW k \in 1 .. N
      PROVE  rows[k] \in S /\ Cardinality(Preceding(R, S, rows[k])) = k - 1
  <2>1. \A x \in S : Preceding(R, S, x) = {y \in S : x.at < y.at}
    BY <1>3 DEF Preceding
  <2>2. \E x \in S : Cardinality(Preceding(R, S, x)) = k - 1
    BY <1>1, <1>7, PlacesFilled
  <2>3. rows[k] = Chosen(k)
    BY <1>5
  <2> QED
    BY <2>1, <2>2, <2>3
<1>9. rows = [k \in 1 .. N |-> rows[k]]
  <2> HIDE DEF Chosen
  <2> QED
    BY <1>5
<1>10. /\ rows \in Seq(S) /\ Len(rows) = N
       /\ \A x \in S : \E k \in 1 .. N : rows[k] = x
       /\ \A i, j \in 1 .. N : i < j <=> <<rows[i], rows[j]>> \in R
  BY <1>1, <1>7, <1>8, <1>9, OrderedList
<1>11. \A k \in 1 .. N : rows[k] \in S
  BY <1>8
<1> DEFINE upto == IF Len(rows) < 2 * Turns THEN Len(rows) ELSE 2 * Turns
<1>12. Talking!Rows(a) = SubSeq(rows, 1, upto)
  BY DEF Talking!Rows, rows, S
<1>13. upto \in Nat /\ upto <= N
  BY <1>1, <1>10 DEF TalkParameters
<1>14. \A m \in S : SessionOf[m.ask] = SessionOf[a] /\ ~(m.ask = a /\ m.role = "user")
  BY DEF S
<1> HIDE DEF upto
<1>15. /\ SubSeq(rows, 1, upto) \in Seq(S) /\ Len(SubSeq(rows, 1, upto)) = upto
       /\ \A k \in 1 .. upto : SubSeq(rows, 1, upto)[k] = rows[k]
  BY <1>1, <1>10, <1>13
<1>16. ASSUME NEW i \in 1 .. upto, NEW j \in 1 .. upto, i < j PROVE rows[i].at > rows[j].at
  <2>1. i \in 1 .. N /\ j \in 1 .. N
    BY <1>1, <1>13
  <2>2. <<rows[i], rows[j]>> \in R /\ rows[i] \in S /\ rows[j] \in S
    BY <1>10, <1>11, <1>16, <2>1
  <2> QED
    BY <1>2, <1>3, <2>2
<1>17. SubSeq(rows, 1, upto) \in Seq(messages)
  BY <1>6, <1>15
<1> QED
  BY <1>1, <1>11, <1>12, <1>13, <1>14, <1>15, <1>16, <1>17

-------------------------------------------------------------------------------
(* The history and the prompt *)

Size(m) == Weight[m.ask][m.role]

\* Messages have a length.
LEMMA SizeType ==
    ASSUME TalkParameters, NEW m \in Talking!Message
    PROVE  Size(m) \in Nat
<1>1. m.ask \in Questions /\ m.role \in {"user", "assistant"}
  BY DEF Talking!Message
<1>2. Weight[m.ask] \in [user : Nat, assistant : Nat]
  BY <1>1 DEF TalkParameters
<1>3. Weight[m.ask].user \in Nat /\ Weight[m.ask].assistant \in Nat
  BY <1>2
<1> QED
  BY <1>1, <1>3 DEF Size

\* Tokens adds up the messages one by one.
LEMMA TokensBySteps ==
    ASSUME TalkParameters, NEW list \in Seq(Talking!Message)
    PROVE  \E p \in [0 .. Len(list) -> Nat] :
              /\ p[0] = 0 /\ p[Len(list)] = Talking!Tokens(list)
              /\ \A k \in 0 .. Len(list) - 1 : p[k + 1] = p[k] + Size(list[k + 1])
<1> DEFINE n == Len(list)
           T == Nat
           g == [i \in 1 .. n |-> [sum \in T |-> sum + Size(list[i])]]
           Body(it) == [s \in SUBSET (DOMAIN list) |->
                          IF s = {} THEN 0 ELSE it[s \ {Max(s)}] + Size(list[Max(s)])]
           it == CHOOSE f : f = Body(f)
<1>1. n \in Nat /\ DOMAIN list = 1 .. n /\ 0 \in T
  OBVIOUS
<1>2. \A i \in 1 .. n : Size(list[i]) \in Nat
  BY SizeType
<1>3. g \in [1 .. n -> [T -> T]]
  BY <1>2
<1>4. PICK f \in [SUBSET (1 .. n) -> T] : FoldsBy(f, n, T, 0, g)
  <2> HIDE DEF g, n, T
  <2> QED
    BY <1>1, <1>3, FoldExists
<1>5. ASSUME NEW s \in SUBSET (1 .. n), s # {}, NEW sum \in Nat
      PROVE  g[Max(s)][sum] = sum + Size(list[Max(s)])
  <2>1. Max(s) \in s
    BY <1>1, <1>5, GreatestNumber, s \subseteq 0 .. n
  <2> QED
    BY <2>1
<1>6. it = Body(it)
  <2>1. ASSUME NEW s \in SUBSET (1 .. n), s # {}
        PROVE  f[s] = f[s \ {Max(s)}] + Size(list[Max(s)])
    <3>1. f[s \ {Max(s)}] \in Nat
      OBVIOUS
    <3> HIDE DEF g
    <3> QED
      BY <1>4, <1>5, <2>1, <3>1 DEF FoldsBy
  <2>2. f = Body(f)
    BY <1>1, <1>4, <2>1 DEF FoldsBy
  <2> HIDE DEF Body
  <2> QED
    BY <2>2, Zenon
<1>7. Talking!Tokens(list) = it[1 .. n]
  BY <1>1
  DEF Size, Talking!Tokens, Talking!FoldLeft, Talking!MapThenFoldSet, Talking!Max, Max
<1>8. FoldsBy(it, n, T, 0, g)
  <2> HIDE DEF it
  <2> QED
    BY <1>1, <1>5, <1>6 DEF FoldsBy
<1>9. PICK p : RunsBy(p, n, T, 0, g) /\ p[n] = it[1 .. n]
  <2> HIDE DEF it, g, n, T
  <2> QED
    BY <1>1, <1>3, <1>8, FoldRuns
<1>10. \A k \in 0 .. n - 1 : p[k + 1] = p[k] + Size(list[k + 1])
  <2> SUFFICES ASSUME NEW k \in 0 .. n - 1 PROVE p[k + 1] = p[k] + Size(list[k + 1])
    OBVIOUS
  <2>1. k + 1 \in 1 .. n /\ p[k] \in Nat
    BY <1>1, <1>9 DEF RunsBy
  <2> QED
    BY <1>9, <2>1 DEF RunsBy
<1> HIDE DEF g, Body, it
<1> QED
  BY <1>7, <1>9, <1>10 DEF RunsBy

\* The end of a list has no more tokens than all of it.
LEMMA TokensOfEnd ==
    ASSUME TalkParameters, NEW list \in Seq(Talking!Message), NEW i \in 1 .. Len(list) + 1
    PROVE  Talking!Tokens(SubSeq(list, i, Len(list))) <= Talking!Tokens(list)
<1> DEFINE n == Len(list)
           end == SubSeq(list, i, n)
           l == n - i + 1
<1>1. /\ n \in Nat /\ l \in 0 .. n /\ end \in Seq(Talking!Message) /\ Len(end) = l
      /\ \A k \in 1 .. l : end[k] = list[k + (i - 1)]
  OBVIOUS
<1>2. \A k \in 1 .. n : Size(list[k]) \in Nat
  BY SizeType
<1> HIDE DEF end
<1>3. PICK p \in [0 .. n -> Nat] :
         /\ p[0] = 0 /\ p[n] = Talking!Tokens(list)
         /\ \A k \in 0 .. n - 1 : p[k + 1] = p[k] + Size(list[k + 1])
  BY TokensBySteps
<1>4. PICK q \in [0 .. l -> Nat] :
         /\ q[0] = 0 /\ q[l] = Talking!Tokens(end)
         /\ \A k \in 0 .. l - 1 : q[k + 1] = q[k] + Size(end[k + 1])
  BY <1>1, TokensBySteps
<1> DEFINE P == {k \in 0 .. l : q[k] <= p[k + (i - 1)]}
<1>5. 0 \in P
  <2>1. 0 \in 0 .. l /\ 0 + (i - 1) \in 0 .. n
    BY <1>1
  <2> QED
    BY <1>3, <1>4, <2>1
<1>6. ASSUME NEW k \in 0 .. l - 1, k \in P PROVE k + 1 \in P
  <2> DEFINE j == k + (i - 1)
  <2>1. j \in 0 .. n - 1 /\ k + 1 \in 0 .. l /\ k + 1 \in 1 .. l /\ j + 1 = (k + 1) + (i - 1)
        /\ j + 1 \in 1 .. n /\ j \in 0 .. n /\ k \in 0 .. l /\ j + 1 \in 0 .. n
    BY <1>1
  <2>2. q[k] <= p[j]
    BY <1>6
  <2>3. q[k + 1] = q[k] + Size(end[k + 1]) /\ p[j + 1] = p[j] + Size(list[j + 1])
    BY <1>3, <1>4, <2>1
  <2>4. end[k + 1] = list[j + 1]
    BY <1>1, <2>1, SMTT(30)
  <2>5. q[k] \in Nat /\ p[j] \in Nat /\ Size(list[j + 1]) \in Nat
    BY <1>2, <2>1
  <2> HIDE DEF j, l, n
  <2>6. q[k + 1] <= p[j + 1]
    BY <2>2, <2>3, <2>4, <2>5
  <2> QED
    BY <2>1, <2>6
<1>7. l \in P
  <2> HIDE DEF P, l
  <2>1. l \in Nat /\ l \in 0 .. l
    BY <1>1
  <2>2. 0 .. l \subseteq P
    BY <1>5, <1>6, <2>1, Reaches
  <2> QED
    BY <2>1, <2>2
<1>8. l + (i - 1) = n
  BY <1>1
<1> QED
  BY <1>3, <1>4, <1>7, <1>8 DEF end

\* One more message of the history, if it fits.
Keeping(kept, m) ==
  IF Talking!Tokens(<<m>> \o kept) > Budget THEN kept ELSE <<m>> \o kept

\* _history goes through the rows one by one.
LEMMA HistoryBySteps ==
    ASSUME TalkParameters, NEW a, Talking!Rows(a) \in Seq(Talking!Message)
    PROVE  LET rows == Talking!Rows(a) IN
           \E p \in [0 .. Len(rows) -> Seq(Talking!Message)] :
              /\ p[0] = <<>> /\ p[Len(rows)] = Talking!History(a)
              /\ \A k \in 0 .. Len(rows) - 1 : p[k + 1] = Keeping(p[k], rows[k + 1])
<1> DEFINE rows == Talking!Rows(a)
           n == Len(rows)
           T == Seq(Talking!Message)
           g == [i \in 1 .. n |-> [kept \in T |-> Keeping(kept, rows[i])]]
           Body(it) == [s \in SUBSET (DOMAIN rows) |->
                          IF s = {} THEN <<>> ELSE Keeping(it[s \ {Max(s)}], rows[Max(s)])]
           it == CHOOSE f : f = Body(f)
<1>7. Talking!History(a) = it[DOMAIN rows]
  BY DEF Keeping, Talking!History, Talking!FoldLeft, Talking!MapThenFoldSet, Talking!Max, Max
<1> HIDE DEF rows
<1>1. n \in Nat /\ DOMAIN rows = 1 .. n /\ <<>> \in T /\ \A i \in 1 .. n : rows[i] \in Talking!Message
  BY DEF rows
<1>2. ASSUME NEW kept \in T, NEW i \in 1 .. n PROVE Keeping(kept, rows[i]) \in T
  <2>1. <<rows[i]>> \in T
    BY <1>1
  <2>2. <<rows[i]>> \o kept \in T
    BY <2>1
  <2> QED
    BY <2>2 DEF Keeping
<1>3. g \in [1 .. n -> [T -> T]]
  <2> HIDE DEF T, n
  <2> QED
    BY <1>2
<1>4. PICK f \in [SUBSET (1 .. n) -> T] : FoldsBy(f, n, T, <<>>, g)
  <2> HIDE DEF T, g, n
  <2> QED
    BY <1>1, <1>3, FoldExists
<1>5. ASSUME NEW s \in SUBSET (1 .. n), s # {}, NEW kept \in T
      PROVE  g[Max(s)][kept] = Keeping(kept, rows[Max(s)])
  <2>1. Max(s) \in s
    BY <1>1, <1>5, GreatestNumber, s \subseteq 0 .. n
  <2> QED
    BY <2>1
<1>6. it = Body(it)
  <2>1. ASSUME NEW s \in SUBSET (1 .. n), s # {}
        PROVE  f[s] = Keeping(f[s \ {Max(s)}], rows[Max(s)])
    <3>1. f[s \ {Max(s)}] \in T
      OBVIOUS
    <3> HIDE DEF T, g
    <3> QED
      BY <1>4, <1>5, <2>1, <3>1 DEF FoldsBy
  <2>2. f = Body(f)
    BY <1>1, <1>4, <2>1 DEF FoldsBy
  <2> HIDE DEF Body
  <2> QED
    BY <2>2, Zenon
<1>8. FoldsBy(it, n, T, <<>>, g)
  <2> HIDE DEF it
  <2> QED
    BY <1>1, <1>5, <1>6 DEF FoldsBy
<1>9. PICK p : RunsBy(p, n, T, <<>>, g) /\ p[n] = it[1 .. n]
  <2> HIDE DEF it, g, n, T
  <2> QED
    BY <1>1, <1>3, <1>8, FoldRuns
<1>10. \A k \in 0 .. n - 1 : p[k + 1] = Keeping(p[k], rows[k + 1])
  <2> SUFFICES ASSUME NEW k \in 0 .. n - 1 PROVE p[k + 1] = Keeping(p[k], rows[k + 1])
    OBVIOUS
  <2>1. k + 1 \in 1 .. n /\ p[k] \in T
    BY <1>1, <1>9 DEF RunsBy
  <2> QED
    BY <1>9, <2>1 DEF RunsBy
<1> HIDE DEF g, Body, it
<1> QED
  BY <1>1, <1>7, <1>9, <1>10 DEF RunsBy, rows

\* What one prompt may hold.
InOrder(list) ==
  \A i, j \in 1 .. Len(list) : i < j => Talking!Earlier(list[i], list[j])

\* The history is in order, of the session, without the question, and within its budget.
LEMMA HistorySound ==
    ASSUME TalkParameters, TalkTypes, TimesApart, NEW a
    PROVE  LET history == Talking!History(a) IN
           /\ history \in Seq(Talking!Message) /\ InOrder(history)
           /\ \A i \in 1 .. Len(history) :
                 /\ history[i] \in messages /\ SessionOf[history[i].ask] = SessionOf[a]
                 /\ ~(history[i].ask = a /\ history[i].role = "user")
           /\ history # <<>> => Talking!Tokens(history) <= Budget
<1> DEFINE rows == Talking!Rows(a)
           n == Len(rows)
<1>1. /\ rows \in Seq(messages) /\ n \in Nat
      /\ \A k \in 1 .. n :
            /\ SessionOf[rows[k].ask] = SessionOf[a]
            /\ ~(rows[k].ask = a /\ rows[k].role = "user")
      /\ \A i, j \in 1 .. n : i < j => rows[i].at > rows[j].at
  BY RowsSound
<1>2. rows \in Seq(Talking!Message) /\ \A k \in 1 .. n : rows[k] \in messages
  <2>1. messages \subseteq Talking!Message
    BY DEF TalkTypes
  <2> QED
    BY <1>1, <2>1
<1>3. \A k \in 1 .. n : rows[k].at \in Nat
  <2>1. \A k \in 1 .. n : rows[k] \in Talking!Message
    BY <1>2
  <2> QED
    BY <2>1 DEF Talking!Message
<1>4. PICK p \in [0 .. n -> Seq(Talking!Message)] :
         /\ p[0] = <<>> /\ p[n] = Talking!History(a)
         /\ \A k \in 0 .. n - 1 : p[k + 1] = Keeping(p[k], rows[k + 1])
  BY <1>2, HistoryBySteps
<1> HIDE DEF rows
<1> DEFINE Good(kept, k) ==
              /\ \A i \in 1 .. Len(kept) : \E j \in 1 .. k : kept[i] = rows[j]
              /\ InOrder(kept)
              /\ kept # <<>> => Talking!Tokens(kept) <= Budget
           P == {k \in 0 .. n : Good(p[k], k)}
<1>5. 0 \in P
  BY <1>1, <1>4 DEF InOrder
<1>6. ASSUME NEW k \in 0 .. n - 1, k \in P PROVE k + 1 \in P
  <2> DEFINE kept == p[k]
             m == rows[k + 1]
             more == <<m>> \o kept
  <2>1. /\ kept \in Seq(Talking!Message) /\ Good(kept, k) /\ p[k + 1] = Keeping(kept, m)
        /\ k + 1 \in 0 .. n /\ k + 1 \in 1 .. n /\ k \in 0 .. n
    BY <1>1, <1>4, <1>6
  <2>2. CASE Talking!Tokens(more) > Budget
    <3>1. p[k + 1] = kept
      BY <2>1, <2>2 DEF Keeping
    <3> HIDE DEF kept
    <3> QED
      BY <2>1, <3>1
  <2>3. CASE ~(Talking!Tokens(more) > Budget)
    <3>1. p[k + 1] = more
      BY <2>1, <2>3 DEF Keeping
    <3>2. /\ Len(kept) \in Nat /\ more \in Seq(Talking!Message)
          /\ Len(more) = Len(kept) + 1 /\ more[1] = m
          /\ \A i \in 1 .. Len(kept) : more[i + 1] = kept[i]
      BY <1>2, <2>1
    <3>3. Talking!Tokens(more) <= Budget
      <4>1. PICK q \in [0 .. Len(more) -> Nat] : q[Len(more)] = Talking!Tokens(more)
        BY <3>2, TokensBySteps
      <4>2. Talking!Tokens(more) \in Nat
        BY <3>2, <4>1
      <4> QED
        BY <2>3, <4>2 DEF TalkParameters
    <3> HIDE DEF kept, more, m
    <3>4. \A i \in 1 .. Len(more) :
             i = 1 \/ (i - 1 \in 1 .. Len(kept) /\ more[i] = kept[i - 1])
      <4> SUFFICES ASSUME NEW i \in 1 .. Len(more), i # 1
                   PROVE  i - 1 \in 1 .. Len(kept) /\ more[i] = kept[i - 1]
        OBVIOUS
      <4>1. i - 1 \in 1 .. Len(kept) /\ (i - 1) + 1 = i
        BY <3>2
      <4> QED
        BY <3>2, <4>1
    <3>5. ASSUME NEW i \in 1 .. Len(more) PROVE \E j \in 1 .. (k + 1) : more[i] = rows[j]
      <4>1. CASE i = 1
        BY <2>1, <3>2, <4>1 DEF m
      <4>2. CASE i # 1
        <5>1. PICK j \in 1 .. k : kept[i - 1] = rows[j]
          BY <2>1, <3>4, <4>2
        <5> QED
          BY <2>1, <3>4, <4>2, <5>1
      <4> QED
        BY <4>1, <4>2
    <3>6. \A i \in 1 .. Len(kept) : kept[i].at > m.at
      <4> SUFFICES ASSUME NEW i \in 1 .. Len(kept) PROVE kept[i].at > m.at
        OBVIOUS
      <4>1. PICK j \in 1 .. k : kept[i] = rows[j]
        BY <2>1
      <4>2. j \in 1 .. n /\ j < k + 1
        BY <1>1, <2>1
      <4> QED
        BY <1>1, <2>1, <4>1, <4>2 DEF m
    <3>7. m.at \in Nat /\ \A i \in 1 .. Len(kept) : kept[i].at \in Nat
      BY <1>3, <2>1 DEF m, Talking!Message
    <3>8. ASSUME NEW i \in 1 .. Len(more), NEW j \in 1 .. Len(more), i < j
          PROVE  Talking!Earlier(more[i], more[j])
      <4>1. j # 1 /\ j - 1 \in 1 .. Len(kept) /\ more[j] = kept[j - 1]
        BY <3>2, <3>4, <3>8
      <4>2. CASE i = 1
        BY <3>2, <3>6, <3>7, <4>1, <4>2 DEF Talking!Earlier
      <4>3. CASE i # 1
        <5>1. i - 1 \in 1 .. Len(kept) /\ more[i] = kept[i - 1]
          BY <3>4, <4>3
        <5>2. i - 1 < j - 1
          BY <3>8, <4>1, <5>1
        <5> QED
          BY <2>1, <4>1, <5>1, <5>2 DEF InOrder
      <4> QED
        BY <4>2, <4>3
    <3>9. Good(more, k + 1)
      BY <3>3, <3>5, <3>8 DEF InOrder
    <3> QED
      BY <2>1, <3>1, <3>9
  <2> QED
    BY <2>2, <2>3
<1>7. Good(p[n], n)
  <2> HIDE DEF P, n
  <2>1. 0 .. n \subseteq P
    BY <1>1, <1>5, <1>6, Reaches
  <2>2. n \in P
    BY <1>1, <2>1
  <2> QED
    BY <2>2 DEF P
<1>8. p[n] \in Seq(Talking!Message)
  BY <1>1
<1> QED
  BY <1>1, <1>2, <1>4, <1>7, <1>8

\* The end of an ordered list is ordered.
LEMMA EndOfList ==
    ASSUME NEW S, NEW list \in Seq(S), NEW i \in 1 .. Len(list) + 1
    PROVE  LET end == SubSeq(list, i, Len(list)) IN
           /\ end \in Seq(S) /\ Len(end) = Len(list) - i + 1
           /\ \A k \in 1 .. Len(end) : k + (i - 1) \in 1 .. Len(list) /\ end[k] = list[k + (i - 1)]
           /\ InOrder(list) => InOrder(end)
<1> DEFINE end == SubSeq(list, i, Len(list))
<1>1. /\ end \in Seq(S) /\ Len(end) = Len(list) - i + 1 /\ Len(list) \in Nat
      /\ \A k \in 1 .. Len(end) : k + (i - 1) \in 1 .. Len(list) /\ end[k] = list[k + (i - 1)]
  OBVIOUS
<1> HIDE DEF end
<1>2. ASSUME InOrder(list), NEW k \in 1 .. Len(end), NEW l \in 1 .. Len(end), k < l
      PROVE  Talking!Earlier(end[k], end[l])
  <2>1. k + (i - 1) < l + (i - 1)
    BY <1>1, <1>2
  <2> QED
    BY <1>1, <1>2, <2>1 DEF InOrder
<1> QED
  BY <1>1, <1>2 DEF end, InOrder

-------------------------------------------------------------------------------
(* What the steps keep *)

\* What was loaded stays what it is while the lists are not touched.
LEMMA PageKept ==
    ASSUME TalkInv, page' = page, session' = session, messages \subseteq messages'
    PROVE  Listing' /\ Reading' /\ Talking!SessionsListed' /\ Talking!MessagesShown'
<1>1. Listing'
  BY DEF TalkInv, Listing, Untouched, Talking!Live
<1>2. Reading'
  BY DEF TalkInv, Reading
<1>3. Talking!SessionsListed' /\ Talking!MessagesShown'
  BY DEF TalkInv, Talking!SessionsListed, Talking!MessagesShown
<1> QED
  BY <1>1, <1>2, <1>3

\* A session that changes while the sessions are listed counts as touched.
LEMMA PageTouched ==
    ASSUME TalkInv, NEW s \in Sessions, page' = Talking!Touched(s),
           \A t \in Sessions \ {s} : session'[t] = session[t],
           ~Talking!Live(s) => ~Talking!Live(s)',
           messages \subseteq messages'
    PROVE  /\ page' \in Loading
           /\ Listing' /\ Reading' /\ Talking!SessionsListed' /\ Talking!MessagesShown'
<1>1. TalkTypes /\ Listing /\ Reading /\ Talking!SessionsListed /\ Talking!MessagesShown
  BY DEF TalkInv
<1>2. CASE page.at # "sessions"
  <2>1. page' = page
    BY <1>2 DEF Talking!Touched
  <2>2. Listing'
    BY <1>2, <2>1 DEF Listing
  <2>3. Reading'
    BY <1>1, <2>1 DEF Reading
  <2>4. Talking!SessionsListed' /\ Talking!MessagesShown'
    BY <1>1, <2>1 DEF Talking!SessionsListed, Talking!MessagesShown
  <2> QED
    BY <1>1, <2>1, <2>2, <2>3, <2>4 DEF TalkTypes
<1>3. CASE page.at = "sessions"
  <2>1. page' = [page EXCEPT !.touched = page.touched \cup {s}]
    BY <1>3 DEF Talking!Touched
  <2>2. /\ page' \in Loading
        /\ page'.at = "sessions" /\ page'.touched = page.touched \cup {s}
        /\ page'.requested = page.requested /\ page'.known = page.known
        /\ page'.gone = page.gone /\ page'.cursor = page.cursor
        /\ page'.listed = page.listed /\ page'.shown = page.shown
    <3>1. page \in Loading /\ page.touched \cup {s} \in SUBSET Sessions
      BY <1>1 DEF TalkTypes, Loading
    <3>2. page' \in Loading
      BY <2>1, <3>1 DEF Loading
    <3> QED
      BY <1>3, <2>1, <3>1, <3>2 DEF Loading
  <2>3. \A t \in Untouched' : t \in Untouched /\ session'[t] = session[t]
    BY <2>2 DEF Untouched
  <2>4. \A t \in Sessions : ~Talking!Live(t) => ~Talking!Live(t)'
    BY DEF Talking!Live
  <2>5. Listing'
    <3>1. page.gone \subseteq Sessions
      BY <1>1 DEF TalkTypes, Loading
    <3>2. \A t \in page.gone : ~Talking!Live(t)' /\ t \notin Talking!Range(page.listed)
      BY <1>1, <1>3, <2>4, <3>1 DEF Listing
    <3>3. \A t \in Untouched' :
             /\ Talking!Live(t)'
             /\ Talking!Occurrences(t, page.listed) =
                   IF session'[t].updated >= page.cursor THEN 1 ELSE 0
      BY <1>1, <1>3, <2>3 DEF Listing, Talking!Live
    <3> QED
      BY <1>1, <1>3, <2>2, <3>2, <3>3 DEF Listing
  <2>6. Reading'
    BY <1>1, <1>3, <2>2 DEF Reading
  <2>7. Talking!SessionsListed' /\ Talking!MessagesShown'
    BY <2>2 DEF Talking!SessionsListed, Talking!MessagesShown
  <2> QED
    BY <2>2, <2>5, <2>6, <2>7
<1> QED
  BY <1>2, <1>3

\* A prompt stays what it was made of, until it is answered or given up.
LEMMA PromptsKept ==
    ASSUME Talking!PromptsSound,
           \A a \in Questions : asked'[a].prompt = asked[a].prompt \/ asked'[a].prompt = <<>>
    PROVE  Talking!PromptsSound'
<1> SUFFICES ASSUME NEW a \in Questions
             PROVE  LET prompt == asked'[a].prompt IN
                    /\ \A i, j \in DOMAIN prompt :
                          i < j => Talking!Earlier(prompt[i], prompt[j])
                    /\ \A m \in Talking!Range(prompt) :
                          SessionOf[m.ask] = SessionOf[a] /\ m.ask # a
                    /\ prompt # <<>> =>
                          Talking!Tokens(prompt) <= Budget /\ Talking!Fits(a, prompt)
  BY DEF Talking!PromptsSound
<1>1. CASE asked'[a].prompt = asked[a].prompt
  BY <1>1 DEF Talking!PromptsSound
<1>2. CASE asked'[a].prompt = <<>>
  <2>1. DOMAIN <<>> = {} /\ Talking!Range(<<>>) = {}
    BY DEF Talking!Range
  <2> QED
    BY <1>2, <2>1
<1> QED
  BY <1>1, <1>2

\* Nothing is asked yet, and no sessions were made at the same time.
LEMMA TalkBegin ==
    ASSUME TalkParameters, PartsInit, part = "conversations"
    PROVE  TalkInv
<1>1. Talking!Init
  BY DEF PartsInit
<1>2. Cardinality(Sessions) \in Nat /\ Talking!Cardinality(Sessions) = Cardinality(Sessions)
  BY FS_CardinalityType DEF TalkParameters, Talking!Cardinality, Cardinality
<1>3. PICK created \in [Sessions -> 1 .. Cardinality(Sessions)] :
         /\ Talking!IsInjective(created)
         /\ session = [s \in Sessions |-> [updated |-> created[s], deleted |-> FALSE]]
  BY <1>1, <1>2 DEF Talking!Init
<1>4. clock = Cardinality(Sessions) /\ messages = {} /\ page = Talking!NoPage
      /\ asked = [a \in Questions |-> [at |-> "new", time |-> 0, prompt |-> <<>>]]
  BY <1>1, <1>2 DEF Talking!Init
<1>5. \A s \in Sessions : session[s].updated = created[s] /\ created[s] \in 1 .. clock
  BY <1>3, <1>4
<1>6. \A s, t \in Sessions : session[s].updated = session[t].updated => s = t
  BY <1>3, <1>5 DEF Talking!IsInjective
<1>7. TalkTypes
  <2>1. session \in [Sessions -> Talking!ChatSession]
    BY <1>2, <1>3 DEF Talking!ChatSession
  <2>2. asked \in [Questions -> [at : {"new", "asking", "asked", "prompted", "answering",
                                       "answered", "failed"},
                                 time : Nat, prompt : Seq(Talking!Message)]]
    <3>1. <<>> \in Seq(Talking!Message) /\ 0 \in Nat
      OBVIOUS
    <3> QED
      BY <1>4, <3>1
  <2>3. page \in Loading
    <3>1. <<>> \in Seq(Talking!Message) /\ <<>> \in Seq(Sessions) /\ 0 \in Nat
      OBVIOUS
    <3> QED
      BY <1>4, <3>1 DEF Talking!NoPage, Loading
  <2> QED
    BY <1>2, <1>4, <2>1, <2>2, <2>3, FS_EmptySet DEF TalkTypes
<1>8. TimesApart
  <2>1. Pending = {}
    BY <1>4 DEF Pending
  <2> QED
    BY <1>4, <1>5, <1>6, <2>1 DEF TimesApart
<1>9. TurnsTaken /\ Listing /\ Reading /\ Talking!SessionsListed /\ Talking!MessagesShown
  BY <1>4
  DEF TurnsTaken, Listing, Reading, Talking!SessionsListed, Talking!MessagesShown, Talking!NoPage
<1>10. Talking!PromptsSound
  <2>1. \A a \in Questions : asked[a].prompt = <<>>
    BY <1>4
  <2>2. DOMAIN <<>> = {} /\ Talking!Range(<<>>) = {}
    BY DEF Talking!Range
  <2> QED
    BY <2>1, <2>2 DEF Talking!PromptsSound
<1> QED
  BY <1>7, <1>8, <1>9, <1>10 DEF TalkInv

-------------------------------------------------------------------------------
(* Every step keeps the invariant *)

\* accept and _persist take a time that nobody has.
LEMMA TimeTalk ==
    ASSUME TalkInv, NEW a \in Questions, Talking!Ask(a) \/ Talking!Answer(a)
    PROVE  TalkInv'
<1>1. PICK from, to \in {"new", "asking", "prompted", "answering"} :
         /\ <<from, to>> \in {<<"new", "asking">>, <<"prompted", "answering">>}
         /\ asked[a].at = from /\ clock' = clock + 1
         /\ asked' = [asked EXCEPT ![a] = [at |-> to, time |-> clock + 1, prompt |-> <<>>]]
         /\ UNCHANGED <<session, messages, page>>
  BY DEF Talking!Ask, Talking!Answer, Talking!TakesTime
<1>2. TalkTypes /\ TimesApart /\ TurnsTaken /\ Talking!PromptsSound
  BY DEF TalkInv
<1>3. /\ clock \in Nat /\ asked'[a].at = to /\ asked'[a].time = clock + 1
      /\ asked'[a].prompt = <<>> /\ \A b \in Questions \ {a} : asked'[b] = asked[b]
  BY <1>1, <1>2 DEF TalkTypes
<1>4. TalkTypes'
  <2>1. <<>> \in Seq(Talking!Message) /\ clock + 1 \in Nat
    BY <1>3
  <2> QED
    BY <1>1, <1>2, <2>1 DEF TalkTypes
<1>5. TimesApart'
  <2>1. Pending' = Pending \cup {a} /\ a \notin Pending
    BY <1>1, <1>3 DEF Pending
  <2>2. \A s \in Sessions : session[s].updated \in Nat /\ session[s].updated <= clock
    BY <1>2 DEF TimesApart, TalkTypes, Talking!ChatSession
  <2>3. \A m \in messages : m.at \in 1 .. clock'
    BY <1>1, <1>2, <1>3 DEF TimesApart
  <2>4. \A s \in Sessions : session[s].updated <= clock'
    BY <1>1, <1>3, <2>2
  <2>5. ASSUME NEW b \in Pending'
        PROVE  /\ asked'[b].time \in 1 .. clock'
               /\ \A m \in messages : m.at # asked'[b].time
               /\ \A s \in Sessions : session[s].updated # asked'[b].time
               /\ \A c \in Pending' : asked'[b].time = asked'[c].time => b = c
    <3>1. \A c \in Pending' : c # a => c \in Pending /\ asked'[c] = asked[c]
      BY <1>3, <2>1 DEF Pending
    <3>2. \A c \in Pending : asked[c].time \in 1 .. clock
      BY <1>2 DEF TimesApart
    <3>3. CASE b = a
      <4>1. \A m \in messages : m.at # clock + 1
        BY <1>2, <1>3 DEF TimesApart
      <4>2. \A s \in Sessions : session[s].updated # clock + 1
        BY <1>3, <2>2
      <4>3. \A c \in Pending' : c # a => asked'[c].time # clock + 1
        BY <1>3, <3>1, <3>2
      <4> QED
        BY <1>1, <1>3, <3>3, <4>1, <4>2, <4>3
    <3>4. CASE b # a
      <4>1. b \in Pending /\ asked'[b] = asked[b] /\ asked[b].time \in 1 .. clock
        BY <3>1, <3>2, <3>4
      <4>2. asked'[b].time \in 1 .. clock' /\ asked'[b].time # clock + 1
        BY <1>1, <1>3, <4>1
      <4>3. \A c \in Pending' : asked'[b].time = asked'[c].time => b = c
        BY <1>2, <1>3, <3>1, <3>4, <4>1, <4>2 DEF TimesApart
      <4> QED
        BY <1>2, <4>1, <4>2, <4>3 DEF TimesApart
    <3> QED
      BY <3>3, <3>4
  <2> QED
    BY <1>1, <1>2, <2>3, <2>4, <2>5 DEF TimesApart
<1>6. TurnsTaken'
  BY <1>1, <1>2, <1>3 DEF TurnsTaken, TalkTypes, Talking!Message
<1>7. Talking!PromptsSound'
  BY <1>2, <1>3, PromptsKept
<1>8. Listing' /\ Reading' /\ Talking!SessionsListed' /\ Talking!MessagesShown'
  BY <1>1, PageKept
<1> QED
  BY <1>4, <1>5, <1>6, <1>7, <1>8 DEF TalkInv

\* The transaction commits: the message and the change of the session have its time.
LEMMA CommitTalk ==
    ASSUME TalkParameters, TalkInv, NEW a \in Questions,
           Talking!CommitQuestion(a) \/ Talking!CommitAnswer(a)
    PROVE  TalkInv'
<1> DEFINE s == SessionOf[a]
           t == asked[a].time
<1>1. PICK from, to, role \in {"asking", "answering", "asked", "answered", "user", "assistant"} :
         /\ <<from, to, role>> \in {<<"asking", "asked", "user">>,
                                    <<"answering", "answered", "assistant">>}
         /\ asked[a].at = from
         /\ messages' = messages \cup {[ask |-> a, role |-> role, at |-> t]}
         /\ session' = [session EXCEPT ![s].updated = t]
         /\ asked' = [asked EXCEPT ![a].at = to, ![a].time = 0]
         /\ page' = Talking!Touched(s) /\ clock' = clock
  BY DEF Talking!CommitQuestion, Talking!CommitAnswer, Talking!Commits
<1>2. TalkTypes /\ TimesApart /\ TurnsTaken /\ Talking!PromptsSound /\ a \in Pending
      /\ s \in Sessions
  BY <1>1 DEF TalkInv, Pending, TalkParameters
<1>3. /\ asked'[a].at = to /\ asked'[a].time = 0 /\ asked'[a].prompt = asked[a].prompt
      /\ \A b \in Questions \ {a} : asked'[b] = asked[b]
      /\ asked' \in [Questions -> [at : {"new", "asking", "asked", "prompted", "answering",
                                         "answered", "failed"},
                                   time : Nat, prompt : Seq(Talking!Message)]]
  <2>1. asked[a] \in [at : {"new", "asking", "asked", "prompted", "answering",
                            "answered", "failed"}, time : Nat, prompt : Seq(Talking!Message)]
    BY <1>2 DEF TalkTypes
  <2>2. asked' = [asked EXCEPT ![a] = [at |-> to, time |-> 0, prompt |-> asked[a].prompt]]
    <3> DEFINE moved == [at |-> to, time |-> asked[a].time, prompt |-> asked[a].prompt]
    <3>1. [asked[a] EXCEPT !.at = to] = moved
      BY <2>1
    <3>2. [asked[a] EXCEPT !.at = to, !.time = 0]
             = [[asked[a] EXCEPT !.at = to] EXCEPT !.time = 0]
      OBVIOUS
    <3>3. [moved EXCEPT !.time = 0] = [at |-> to, time |-> 0, prompt |-> asked[a].prompt]
      OBVIOUS
    <3>4. asked' = [asked EXCEPT ![a] = [asked[a] EXCEPT !.at = to, !.time = 0]]
      BY <1>1, <1>2 DEF TalkTypes
    <3> HIDE DEF moved
    <3> QED
      BY <3>1, <3>2, <3>3, <3>4
  <2>3. asked'[a] = [at |-> to, time |-> 0, prompt |-> asked[a].prompt]
        /\ \A b \in Questions \ {a} : asked'[b] = asked[b]
    BY <1>2, <2>2 DEF TalkTypes
  <2>4. [at |-> to, time |-> 0, prompt |-> asked[a].prompt] \in
           [at : {"new", "asking", "asked", "prompted", "answering", "answered", "failed"},
            time : Nat, prompt : Seq(Talking!Message)]
    BY <1>1, <2>1
  <2>5. asked' \in [Questions -> [at : {"new", "asking", "asked", "prompted", "answering",
                                       "answered", "failed"},
                                 time : Nat, prompt : Seq(Talking!Message)]]
    BY <1>2, <2>2, <2>4 DEF TalkTypes
  <2> QED
    BY <2>3, <2>5
<1>4. /\ session'[s].updated = t /\ session'[s].deleted = session[s].deleted
      /\ \A r \in Sessions \ {s} : session'[r] = session[r]
      /\ session' \in [Sessions -> Talking!ChatSession] /\ t \in Nat
  BY <1>1, <1>2 DEF TalkTypes, Talking!ChatSession
<1>5. /\ t \in 1 .. clock /\ (\A m \in messages : m.at # t)
      /\ (\A r \in Sessions : session[r].updated # t)
      /\ \A b \in Pending : asked[b].time = t => b = a
  BY <1>2 DEF TimesApart
<1> DEFINE new == [ask |-> a, role |-> role, at |-> t]
<1>6. new \in Talking!Message /\ messages' = messages \cup {new}
  BY <1>1, <1>4 DEF Talking!Message
<1>7. /\ page' \in Loading
      /\ Listing' /\ Reading' /\ Talking!SessionsListed' /\ Talking!MessagesShown'
  <2>1. ~Talking!Live(s) => ~Talking!Live(s)'
    BY <1>4 DEF Talking!Live
  <2>2. messages \subseteq messages' /\ page' = Talking!Touched(s)
    BY <1>1
  <2>3. \A r \in Sessions \ {s} : session'[r] = session[r]
    BY <1>4
  <2> HIDE DEF s
  <2> QED
    BY <1>2, <2>1, <2>2, <2>3, PageTouched
<1> HIDE DEF new, s, t
<1>8. TalkTypes'
  <2>1. IsFiniteSet(messages') /\ messages' \subseteq Talking!Message
    BY <1>2, <1>6, FS_AddElement DEF TalkTypes
  <2> QED
    BY <1>1, <1>2, <1>3, <1>4, <1>7, <2>1 DEF TalkTypes
<1>9. TimesApart'
  <2>1. Pending' = Pending \ {a}
    BY <1>1, <1>3 DEF Pending
  <2>2. \A m, n \in messages' : m.at = n.at => m = n
    BY <1>2, <1>5, <1>6 DEF TimesApart, new
  <2>3. \A q, r \in Sessions : session'[q].updated = session'[r].updated => q = r
    BY <1>2, <1>4, <1>5 DEF TimesApart
  <2>4. \A m \in messages' : m.at \in 1 .. clock
    BY <1>2, <1>5, <1>6 DEF TimesApart, new
  <2>5. \A r \in Sessions : session'[r].updated <= clock
    BY <1>2, <1>4, <1>5 DEF TimesApart
  <2>6. ASSUME NEW b \in Pending'
        PROVE  /\ asked'[b].time \in 1 .. clock
               /\ \A m \in messages' : m.at # asked'[b].time
               /\ \A r \in Sessions : session'[r].updated # asked'[b].time
               /\ \A c \in Pending' : asked'[b].time = asked'[c].time => b = c
    <3>1. b \in Pending /\ b # a /\ asked'[b] = asked[b] /\ asked[b].time # t
      BY <1>3, <1>5, <2>1 DEF Pending
    <3>2. \A c \in Pending' : c \in Pending /\ asked'[c] = asked[c]
      BY <1>3, <2>1 DEF Pending
    <3>3. \A m \in messages' : m.at # asked[b].time
      BY <1>2, <1>6, <3>1 DEF TimesApart, new
    <3>4. \A r \in Sessions : session'[r].updated # asked[b].time
      BY <1>2, <1>4, <3>1 DEF TimesApart
    <3> QED
      BY <1>2, <3>1, <3>2, <3>3, <3>4 DEF TimesApart
  <2>7. clock' = clock
    BY <1>1
  <2> QED
    BY <2>2, <2>3, <2>4, <2>5, <2>6, <2>7 DEF TimesApart
<1>10. TurnsTaken'
  <2>1. \A m \in messages : IF m.role = "user" THEN asked'[m.ask].at \notin {"new", "asking"}
                            ELSE asked'[m.ask].at = "answered"
    <3> SUFFICES ASSUME NEW m \in messages
                 PROVE  IF m.role = "user" THEN asked'[m.ask].at \notin {"new", "asking"}
                        ELSE asked'[m.ask].at = "answered"
      OBVIOUS
    <3>1. m.ask \in Questions
      BY <1>2 DEF TalkTypes, Talking!Message
    <3> QED
      BY <1>1, <1>2, <1>3, <3>1 DEF TurnsTaken
  <2>2. IF new.role = "user" THEN asked'[new.ask].at \notin {"new", "asking"}
        ELSE asked'[new.ask].at = "answered"
    BY <1>1, <1>3 DEF new
  <2> QED
    BY <1>6, <2>1, <2>2 DEF TurnsTaken
<1>11. Talking!PromptsSound'
  BY <1>2, <1>3, PromptsKept
<1> QED
  BY <1>7, <1>8, <1>9, <1>10, <1>11 DEF TalkInv

\* Fail, delete_session and the beginning of the loading.
LEMMA FailTalk ==
    ASSUME TalkInv, NEW a \in Questions, Talking!Fail(a)
    PROVE  TalkInv'
<1>1. /\ asked[a].at \in {"prompted", "new"}
      /\ asked' = [asked EXCEPT ![a].at = "failed", ![a].prompt = <<>>]
      /\ UNCHANGED <<clock, session, messages, page>>
  BY DEF Talking!Fail
<1>2. TalkTypes /\ TimesApart /\ TurnsTaken /\ Talking!PromptsSound
  BY DEF TalkInv
<1>3. /\ asked'[a].at = "failed" /\ asked'[a].prompt = <<>>
      /\ \A b \in Questions \ {a} : asked'[b] = asked[b]
      /\ TalkTypes'
  <2>1. asked[a] \in [at : {"new", "asking", "asked", "prompted", "answering",
                            "answered", "failed"}, time : Nat, prompt : Seq(Talking!Message)]
        /\ <<>> \in Seq(Talking!Message)
    BY <1>2 DEF TalkTypes
  <2>2. asked' = [asked EXCEPT ![a] = [at |-> "failed", time |-> asked[a].time,
                                       prompt |-> <<>>]]
    <3> DEFINE moved == [at |-> "failed", time |-> asked[a].time, prompt |-> asked[a].prompt]
    <3>1. [asked[a] EXCEPT !.at = "failed"] = moved
      BY <2>1
    <3>2. [asked[a] EXCEPT !.at = "failed", !.prompt = <<>>]
             = [[asked[a] EXCEPT !.at = "failed"] EXCEPT !.prompt = <<>>]
      OBVIOUS
    <3>3. [moved EXCEPT !.prompt = <<>>] = [at |-> "failed", time |-> asked[a].time, prompt |-> <<>>]
      OBVIOUS
    <3>4. asked' = [asked EXCEPT ![a] = [asked[a] EXCEPT !.at = "failed", !.prompt = <<>>]]
      BY <1>1, <1>2 DEF TalkTypes
    <3> HIDE DEF moved
    <3> QED
      BY <3>1, <3>2, <3>3, <3>4
  <2>3. asked[a].time \in Nat
    BY <2>1
  <2>4. asked' \in [Questions -> [at : {"new", "asking", "asked", "prompted", "answering",
                                       "answered", "failed"},
                                 time : Nat, prompt : Seq(Talking!Message)]]
    BY <1>2, <2>1, <2>2, <2>3 DEF TalkTypes
  <2>5. asked'[a] = [at |-> "failed", time |-> asked[a].time, prompt |-> <<>>]
        /\ \A b \in Questions \ {a} : asked'[b] = asked[b]
    BY <1>2, <2>2 DEF TalkTypes
  <2> QED
    BY <1>1, <1>2, <2>4, <2>5 DEF TalkTypes
<1>4. Pending' = Pending /\ \A b \in Pending : asked'[b] = asked[b]
  BY <1>1, <1>3 DEF Pending
<1>5. TimesApart'
  <2>1. clock' = clock /\ session' = session /\ messages' = messages
    BY <1>1
  <2> QED
    BY <1>2, <1>4, <2>1 DEF TimesApart
<1>6. TurnsTaken'
  <2> SUFFICES ASSUME NEW m \in messages
               PROVE  IF m.role = "user" THEN asked'[m.ask].at \notin {"new", "asking"}
                      ELSE asked'[m.ask].at = "answered"
    BY <1>1 DEF TurnsTaken
  <2>1. m.ask \in Questions
    BY <1>2 DEF TalkTypes, Talking!Message
  <2> QED
    BY <1>1, <1>2, <1>3, <2>1 DEF TurnsTaken
<1>7. Talking!PromptsSound'
  BY <1>2, <1>3, PromptsKept
<1>8. Listing' /\ Reading' /\ Talking!SessionsListed' /\ Talking!MessagesShown'
  BY <1>1, PageKept
<1> QED
  BY <1>3, <1>5, <1>6, <1>7, <1>8 DEF TalkInv

\* Tokens is a number.
LEMMA TokensType ==
    ASSUME TalkParameters, NEW list \in Seq(Talking!Message)
    PROVE  Talking!Tokens(list) \in Nat
<1>1. PICK p \in [0 .. Len(list) -> Nat] : p[Len(list)] = Talking!Tokens(list)
  BY TokensBySteps
<1>2. Len(list) \in 0 .. Len(list)
  OBVIOUS
<1> QED
  BY <1>1, <1>2

\* The prompt is made of the session's messages: _bounded_generation_messages.
LEMMA PromptTalk ==
    ASSUME TalkParameters, TalkInv, NEW a \in Questions, Talking!Prompt(a)
    PROVE  TalkInv'
<1> DEFINE history == Talking!History(a)
<1>1. PICK i \in 1 .. Len(history) + 1 :
         /\ asked[a].at = "asked"
         /\ Talking!Fits(a, SubSeq(history, i, Len(history)))
         /\ asked' = [asked EXCEPT ![a].at = "prompted",
                                   ![a].prompt = SubSeq(history, i, Len(history))]
         /\ UNCHANGED <<clock, session, messages, page>>
  BY DEF Talking!Prompt
<1>2. TalkTypes /\ TimesApart /\ TurnsTaken /\ Talking!PromptsSound
  BY DEF TalkInv
<1>3. /\ history \in Seq(Talking!Message) /\ InOrder(history)
      /\ \A k \in 1 .. Len(history) :
            /\ history[k] \in messages /\ SessionOf[history[k].ask] = SessionOf[a]
            /\ ~(history[k].ask = a /\ history[k].role = "user")
      /\ history # <<>> => Talking!Tokens(history) <= Budget
  BY <1>2, HistorySound
<1> DEFINE rest == SubSeq(history, i, Len(history))
<1> HIDE DEF history
<1>4. /\ rest \in Seq(Talking!Message) /\ InOrder(rest) /\ Len(rest) = Len(history) - i + 1
      /\ \A k \in 1 .. Len(rest) :
            k + (i - 1) \in 1 .. Len(history) /\ rest[k] = history[k + (i - 1)]
  BY <1>3, EndOfList
<1>5. Talking!Tokens(rest) <= Talking!Tokens(history)
  BY <1>3, TokensOfEnd
<1>6. rest # <<>> => Talking!Tokens(rest) <= Budget
  <2>1. Talking!Tokens(rest) \in Nat /\ Talking!Tokens(history) \in Nat
    BY <1>3, <1>4, TokensType
  <2>2. rest # <<>> => history # <<>>
    BY <1>3, <1>4
  <2> QED
    BY <1>3, <1>5, <2>1, <2>2 DEF TalkParameters
<1>7. Talking!Fits(a, rest)
  BY <1>1
<1>8. asked' = [asked EXCEPT ![a].at = "prompted", ![a].prompt = rest]
  BY <1>1
<1> HIDE DEF rest
<1>9. ASSUME NEW m \in Talking!Range(rest)
      PROVE  SessionOf[m.ask] = SessionOf[a] /\ m.ask # a
  <2>1. PICK k \in 1 .. Len(rest) : m = rest[k]
    BY <1>4 DEF Talking!Range
  <2>2. PICK l \in 1 .. Len(history) : m = history[l]
    BY <1>4, <2>1
  <2>3. m \in messages /\ SessionOf[m.ask] = SessionOf[a] /\ ~(m.ask = a /\ m.role = "user")
    BY <1>3, <2>2
  <2>4. m.role # "user" => asked[m.ask].at = "answered"
    BY <1>2, <2>3 DEF TurnsTaken
  <2> QED
    BY <1>1, <2>3, <2>4
<1>10. /\ asked' = [asked EXCEPT ![a] = [at |-> "prompted", time |-> asked[a].time,
                                        prompt |-> rest]]
       /\ asked[a].time \in Nat
  <2>1. asked[a] \in [at : {"new", "asking", "asked", "prompted", "answering",
                            "answered", "failed"}, time : Nat, prompt : Seq(Talking!Message)]
    BY <1>2 DEF TalkTypes
  <2> DEFINE moved == [at |-> "prompted", time |-> asked[a].time, prompt |-> asked[a].prompt]
  <2>2. [asked[a] EXCEPT !.at = "prompted"] = moved
    BY <2>1
  <2>3. [asked[a] EXCEPT !.at = "prompted", !.prompt = rest]
           = [[asked[a] EXCEPT !.at = "prompted"] EXCEPT !.prompt = rest]
    OBVIOUS
  <2>4. [moved EXCEPT !.prompt = rest]
           = [at |-> "prompted", time |-> asked[a].time, prompt |-> rest]
    OBVIOUS
  <2>5. asked' = [asked EXCEPT ![a] = [asked[a] EXCEPT !.at = "prompted", !.prompt = rest]]
    BY <1>2, <1>8 DEF TalkTypes
  <2>6. asked[a].time \in Nat
    BY <2>1
  <2> HIDE DEF moved
  <2> QED
    BY <2>2, <2>3, <2>4, <2>5, <2>6
<1>11. /\ asked'[a].at = "prompted" /\ asked'[a].prompt = rest
       /\ \A b \in Questions \ {a} : asked'[b] = asked[b]
       /\ TalkTypes'
  <2>1. [at |-> "prompted", time |-> asked[a].time, prompt |-> rest] \in
           [at : {"new", "asking", "asked", "prompted", "answering", "answered", "failed"},
            time : Nat, prompt : Seq(Talking!Message)]
    BY <1>4, <1>10
  <2>2. asked'[a] = [at |-> "prompted", time |-> asked[a].time, prompt |-> rest]
        /\ \A b \in Questions \ {a} : asked'[b] = asked[b]
    BY <1>2, <1>10 DEF TalkTypes
  <2>3. TalkTypes'
    BY <1>1, <1>2, <1>10, <2>1, ZenonT(60) DEF TalkTypes
  <2> QED
    BY <2>2, <2>3
<1>12. TimesApart'
  <2>1. Pending' = Pending /\ \A b \in Pending : asked'[b] = asked[b]
    BY <1>1, <1>11 DEF Pending
  <2>2. clock' = clock /\ session' = session /\ messages' = messages
    BY <1>1
  <2> QED
    BY <1>2, <2>1, <2>2 DEF TimesApart
<1>13. TurnsTaken'
  <2> SUFFICES ASSUME NEW m \in messages
               PROVE  IF m.role = "user" THEN asked'[m.ask].at \notin {"new", "asking"}
                      ELSE asked'[m.ask].at = "answered"
    BY <1>1 DEF TurnsTaken
  <2>1. m.ask \in Questions
    BY <1>2 DEF TalkTypes, Talking!Message
  <2> QED
    BY <1>1, <1>2, <1>11, <2>1 DEF TurnsTaken
<1>14. Talking!PromptsSound'
  <2> SUFFICES ASSUME NEW b \in Questions
               PROVE  LET prompt == asked'[b].prompt IN
                      /\ \A k, l \in DOMAIN prompt :
                            k < l => Talking!Earlier(prompt[k], prompt[l])
                      /\ \A m \in Talking!Range(prompt) :
                            SessionOf[m.ask] = SessionOf[b] /\ m.ask # b
                      /\ prompt # <<>> =>
                            Talking!Tokens(prompt) <= Budget /\ Talking!Fits(b, prompt)
    BY DEF Talking!PromptsSound
  <2>1. CASE b = a
    <3>1. \A k, l \in DOMAIN rest : k < l => Talking!Earlier(rest[k], rest[l])
      BY <1>4 DEF InOrder
    <3> QED
      BY <1>6, <1>7, <1>9, <1>11, <2>1, <3>1
  <2>2. CASE b # a
    <3>1. asked'[b] = asked[b]
      BY <1>11, <2>2
    <3> QED
      BY <1>2, <3>1 DEF Talking!PromptsSound
  <2> QED
    BY <2>1, <2>2
<1>15. Listing' /\ Reading' /\ Talking!SessionsListed' /\ Talking!MessagesShown'
  BY <1>1, PageKept
<1> QED
  BY <1>11, <1>12, <1>13, <1>14, <1>15 DEF TalkInv

\* delete_session
LEMMA DeleteTalk ==
    ASSUME TalkInv, NEW s \in Sessions, Talking!Delete(s)
    PROVE  TalkInv'
<1>1. /\ session' = [session EXCEPT ![s].deleted = TRUE] /\ page' = Talking!Touched(s)
      /\ UNCHANGED <<clock, messages, asked>>
  BY DEF Talking!Delete
<1>2. TalkTypes /\ TimesApart /\ TurnsTaken /\ Talking!PromptsSound
  BY DEF TalkInv
<1>3. /\ session' \in [Sessions -> Talking!ChatSession] /\ session'[s].deleted = TRUE
      /\ \A t \in Sessions : session'[t].updated = session[t].updated
      /\ \A t \in Sessions \ {s} : session'[t] = session[t]
  BY <1>1, <1>2 DEF TalkTypes, Talking!ChatSession
<1>4. /\ page' \in Loading
      /\ Listing' /\ Reading' /\ Talking!SessionsListed' /\ Talking!MessagesShown'
  <2>1. Talking!Live(s)' = FALSE
    BY <1>3 DEF Talking!Live
  <2> QED
    BY <1>1, <1>3, <2>1, PageTouched
<1>5. TalkTypes'
  BY <1>1, <1>2, <1>3, <1>4 DEF TalkTypes
<1>6. TimesApart'
  <2>1. Pending' = Pending
    BY <1>1 DEF Pending
  <2> QED
    BY <1>1, <1>2, <1>3, <2>1 DEF TimesApart
<1>7. TurnsTaken'
  BY <1>1, <1>2 DEF TurnsTaken
<1>8. Talking!PromptsSound'
  BY <1>1, <1>2, PromptsKept
<1> QED
  BY <1>4, <1>5, <1>6, <1>7, <1>8 DEF TalkInv

\* What does not touch the conversations keeps what is said of them.
LEMMA TalkKept ==
    ASSUME TalkInv, UNCHANGED <<clock, session, messages, asked>>,
           page' \in Loading, Listing', Reading',
           Talking!SessionsListed', Talking!MessagesShown'
    PROVE  TalkInv'
<1>1. TalkTypes /\ TimesApart /\ TurnsTaken /\ Talking!PromptsSound
  BY DEF TalkInv
<1>2. TalkTypes' /\ TurnsTaken'
  BY <1>1 DEF TalkTypes, TurnsTaken
<1>3. TimesApart'
  <2>1. Pending' = Pending
    BY DEF Pending
  <2> QED
    BY <1>1, <2>1 DEF TimesApart
<1>4. Talking!PromptsSound'
  BY <1>1, PromptsKept
<1> QED
  BY <1>2, <1>3, <1>4 DEF TalkInv

\* What stands at one place only occurs once.
LEMMA OccursOnce ==
    ASSUME NEW S, NEW list \in Seq(S), NEW x
    PROVE  /\ Talking!Occurrences(x, list) = 0 <=> \A i \in 1 .. Len(list) : list[i] # x
           /\ Talking!Occurrences(x, list) = 1 <=>
                 \E i \in 1 .. Len(list) :
                    list[i] = x /\ \A j \in 1 .. Len(list) : list[j] = x => j = i
<1> DEFINE D == {i \in 1 .. Len(list) : list[i] = x}
<1>1. Talking!Occurrences(x, list) = Cardinality(D)
  <2>1. DOMAIN list = 1 .. Len(list)
    OBVIOUS
  <2>2. Talking!Occurrences(x, list) = Talking!Cardinality(D)
    BY <2>1 DEF Talking!Occurrences
  <2> HIDE DEF D
  <2> QED
    BY <2>2 DEF Talking!Cardinality, Cardinality
<1>2. IsFiniteSet(D)
  <2>1. D \subseteq 1 .. Len(list) /\ IsFiniteSet(1 .. Len(list))
    BY FS_Interval
  <2> HIDE DEF D
  <2> QED
    BY <2>1, FS_Subset
<1>3. Cardinality(D) = 0 <=> D = {}
  BY <1>2, FS_EmptySet
<1>4. Cardinality(D) = 1 <=> \E i \in D : D = {i}
  <2> HIDE DEF D
  <2>1. Cardinality(D) = 1 => \E i \in D : D = {i}
    BY <1>2, FS_Singleton
  <2>2. ASSUME NEW i \in D, D = {i} PROVE Cardinality(D) = 1
    BY <2>2, FS_Singleton
  <2> QED
    BY <2>1, <2>2
<1>5. (\E i \in D : D = {i}) <=>
         \E i \in 1 .. Len(list) : list[i] = x /\ \A j \in 1 .. Len(list) : list[j] = x => j = i
  OBVIOUS
<1> QED
  BY <1>1, <1>3, <1>4, <1>5

\* One more page of a list: what is on it, and how often things occur then.
LEMMA OnePageMore ==
    ASSUME NEW S, NEW list \in Seq(S), NEW items \in Seq(S), NEW x
    PROVE  LET more == list \o items IN
           /\ more \in Seq(S)
           /\ /\ Talking!Occurrences(x, list) = 1
              /\ \A k \in 1 .. Len(items) : items[k] # x
              => Talking!Occurrences(x, more) = 1
           /\ /\ Talking!Occurrences(x, list) = 0
              /\ \E k \in 1 .. Len(items) :
                    items[k] = x /\ \A l \in 1 .. Len(items) : items[l] = x => l = k
              => Talking!Occurrences(x, more) = 1
           /\ /\ Talking!Occurrences(x, list) = 0
              /\ \A k \in 1 .. Len(items) : items[k] # x
              => Talking!Occurrences(x, more) = 0
<1> DEFINE more == list \o items
           n == Len(list)
<1>1. /\ more \in Seq(S) /\ n \in Nat /\ Len(items) \in Nat /\ Len(more) = n + Len(items)
      /\ \A i \in 1 .. n : more[i] = list[i]
      /\ \A k \in 1 .. Len(items) : more[n + k] = items[k]
  OBVIOUS
<1> HIDE DEF more, n
<1>2. \A i \in 1 .. Len(more) : i \in 1 .. n \/ (i - n \in 1 .. Len(items) /\ more[i] = items[i - n])
  <2> SUFFICES ASSUME NEW i \in 1 .. Len(more), i \notin 1 .. n
               PROVE  i - n \in 1 .. Len(items) /\ more[i] = items[i - n]
    OBVIOUS
  <2>1. i - n \in 1 .. Len(items) /\ n + (i - n) = i
    BY <1>1
  <2> QED
    BY <1>1, <2>1
<1>3. /\ Talking!Occurrences(x, list) = 0 <=> \A i \in 1 .. n : list[i] # x
      /\ Talking!Occurrences(x, list) = 1 <=>
            \E i \in 1 .. n : list[i] = x /\ \A j \in 1 .. n : list[j] = x => j = i
  BY OccursOnce DEF n
<1>4. /\ Talking!Occurrences(x, more) = 0 <=> \A i \in 1 .. Len(more) : more[i] # x
      /\ Talking!Occurrences(x, more) = 1 <=>
            \E i \in 1 .. Len(more) :
               more[i] = x /\ \A j \in 1 .. Len(more) : more[j] = x => j = i
  BY <1>1, OccursOnce
<1>5. ASSUME Talking!Occurrences(x, list) = 1, \A k \in 1 .. Len(items) : items[k] # x
      PROVE  Talking!Occurrences(x, more) = 1
  <2>1. PICK i \in 1 .. n : list[i] = x /\ \A j \in 1 .. n : list[j] = x => j = i
    BY <1>3, <1>5
  <2>2. i \in 1 .. Len(more) /\ more[i] = x
    BY <1>1, <2>1
  <2>3. \A j \in 1 .. Len(more) : more[j] = x => j = i
    BY <1>1, <1>2, <1>5, <2>1
  <2> QED
    BY <1>4, <2>2, <2>3
<1>6. ASSUME Talking!Occurrences(x, list) = 0, NEW k \in 1 .. Len(items), items[k] = x,
             \A l \in 1 .. Len(items) : items[l] = x => l = k
      PROVE  Talking!Occurrences(x, more) = 1
  <2>1. n + k \in 1 .. Len(more) /\ more[n + k] = x
    BY <1>1, <1>6
  <2>2. ASSUME NEW j \in 1 .. Len(more), more[j] = x PROVE j = n + k
    <3>1. j \notin 1 .. n
      BY <1>1, <1>3, <1>6, <2>2
    <3>2. j - n \in 1 .. Len(items) /\ items[j - n] = x
      BY <1>2, <2>2, <3>1
    <3>3. j - n = k
      BY <1>6, <3>2
    <3> QED
      BY <1>1, <3>3
  <2> QED
    BY <1>4, <2>1, <2>2
<1>7. ASSUME Talking!Occurrences(x, list) = 0, \A k \in 1 .. Len(items) : items[k] # x
      PROVE  Talking!Occurrences(x, more) = 0
  BY <1>1, <1>2, <1>3, <1>4, <1>7, ZenonT(60)
<1> QED
  BY <1>1, <1>5, <1>6, <1>7 DEF more

\* Items takes a page of the rows.
LEMMA ItemsSound ==
    ASSUME TalkParameters, NEW S, NEW rows \in Seq(S)
    PROVE  LET items == Talking!Items(rows) IN
           /\ items \in Seq(S) /\ Len(rows) \in Nat
           /\ Len(items) = IF Talking!HasMore(rows) THEN Limit ELSE Len(rows)
           /\ Limit \in Nat \ {0} /\ (Talking!HasMore(rows) <=> Len(rows) > Limit)
           /\ Len(items) <= Len(rows)
           /\ \A k \in 1 .. Len(items) : items[k] = rows[k]
<1> DEFINE size == IF Talking!HasMore(rows) THEN Limit ELSE Len(rows)
<1>1. Limit \in Nat \ {0} /\ Len(rows) \in Nat /\ (Talking!HasMore(rows) <=> Len(rows) > Limit)
  BY DEF TalkParameters, Talking!HasMore
<1>2. Talking!Items(rows) = SubSeq(rows, 1, size) /\ size \in Nat /\ size <= Len(rows)
  BY <1>1 DEF Talking!Items
<1> HIDE DEF size
<1>3. /\ SubSeq(rows, 1, size) \in Seq(S) /\ Len(SubSeq(rows, 1, size)) = size
      /\ \A k \in 1 .. size : SubSeq(rows, 1, size)[k] = rows[k]
  BY <1>1, <1>2
<1> QED
  BY <1>1, <1>2, <1>3 DEF size

\* The page begins to load.
LEMMA LoadTalk ==
    ASSUME TalkInv, NEW requested \in Sessions, Talking!Load(requested)
    PROVE  TalkInv'
<1> DEFINE deleted == {s \in Sessions : ~Talking!Live(s)}
<1>1. /\ page' = [Talking!NoPage EXCEPT !.at = "sessions", !.requested = requested,
                                        !.cursor = clock + 1, !.known = messages, !.gone = deleted]
      /\ UNCHANGED <<clock, session, messages, asked>>
  BY DEF Talking!Load
<1>2. TalkTypes /\ TimesApart
  BY DEF TalkInv
<1>3. page' = [at |-> "sessions", requested |-> requested, selected |-> NoSession,
               cursor |-> clock + 1, listed |-> <<>>, shown |-> <<>>,
               known |-> messages, gone |-> deleted, touched |-> {}]
  BY <1>1 DEF Talking!NoPage
<1>4. page' \in Loading
  <2>1. /\ <<>> \in Seq(Sessions) /\ <<>> \in Seq(Talking!Message) /\ clock + 1 \in Nat
        /\ messages \in SUBSET Talking!Message /\ deleted \in SUBSET Sessions
    BY <1>2 DEF TalkTypes
  <2> HIDE DEF deleted
  <2> QED
    BY <1>3, <2>1 DEF Loading
<1>5. Listing'
  <2>1. \A s \in Sessions : session[s].updated \in Nat /\ session[s].updated <= clock
    BY <1>2 DEF TimesApart, TalkTypes, Talking!ChatSession
  <2>2. clock \in Nat /\ session' = session
    BY <1>1, <1>2 DEF TalkTypes
  <2>3. ASSUME NEW s \in Sessions PROVE Talking!Occurrences(s, <<>>) = 0
    <3>1. <<>> \in Seq(Sessions) /\ Len(<<>>) = 0
      OBVIOUS
    <3> QED
      BY <3>1, OccursOnce, \A i \in 1 .. Len(<<>>) : <<>>[i] # s
  <2>4. Talking!Range(<<>>) = {}
    <3>1. DOMAIN <<>> = {}
      OBVIOUS
    <3> QED
      BY <3>1 DEF Talking!Range
  <2>5. /\ page'.shown = <<>> /\ page'.gone = deleted /\ page'.listed = <<>>
        /\ page'.cursor = clock + 1 /\ page'.touched = {}
    BY <1>3
  <2>6. \A s \in Sessions : Talking!Live(s)' <=> Talking!Live(s)
    BY <2>2 DEF Talking!Live
  <2>7. \A s \in deleted : ~Talking!Live(s)' /\ s \notin Talking!Range(page'.listed)
    BY <2>4, <2>5, <2>6
  <2>8. ASSUME NEW s \in Untouched'
        PROVE  /\ Talking!Live(s)'
               /\ Talking!Occurrences(s, page'.listed) = 0
               /\ ~(session'[s].updated >= page'.cursor)
    <3>1. s \in Sessions /\ s \notin deleted
      BY <2>5, <2>8 DEF Untouched
    <3> QED
      BY <2>1, <2>2, <2>3, <2>5, <2>6, <3>1
  <2> QED
    BY <2>5, <2>7, <2>8 DEF Listing
<1>6. Reading'
  BY <1>1, <1>3 DEF Reading
<1>7. Talking!SessionsListed' /\ Talking!MessagesShown'
  BY <1>3 DEF Talking!SessionsListed, Talking!MessagesShown
<1> QED
  BY <1>1, <1>4, <1>5, <1>6, <1>7, TalkKept

\* The next page has every untouched session down to the new cursor, and none that is gone.
LEMMA NextSessions ==
    ASSUME TalkParameters, TalkInv, page.at = "sessions"
    PROVE  LET rows == Talking!SessionRows
               listed == page.listed \o Talking!Items(rows)
           IN  /\ listed \in Seq(Sessions)
               /\ \A s \in page.gone : s \notin Talking!Range(listed)
               /\ Talking!HasMore(rows) => Talking!CursorRow(rows) \in Sessions
               /\ \A s \in Untouched :
                     Talking!Occurrences(s, listed) =
                        IF Talking!HasMore(rows)
                              => session[s].updated >= session[Talking!CursorRow(rows)].updated
                        THEN 1 ELSE 0
<1> DEFINE rows == Talking!SessionRows
           items == Talking!Items(rows)
           listed == page.listed \o items
           more == Talking!HasMore(rows)
           row == Talking!CursorRow(rows)
<1>1. TalkTypes /\ TimesApart /\ Listing
  BY DEF TalkInv
<1>2. /\ page.listed \in Seq(Sessions) /\ page.cursor \in Nat /\ page.gone \subseteq Sessions
      /\ \A s \in Sessions : session[s].updated \in Nat
  BY <1>1 DEF TalkTypes, Loading, Talking!ChatSession
<1>3. /\ rows \in Seq(Sessions)
      /\ \A s \in Sessions :
            Talking!Live(s) /\ session[s].updated < page.cursor <=>
               \E k \in 1 .. Len(rows) : rows[k] = s
      /\ \A i, j \in 1 .. Len(rows) :
            i < j <=> session[rows[i]].updated > session[rows[j]].updated
  BY <1>1, SessionRowsSound
<1>4. /\ items \in Seq(Sessions) /\ Len(rows) \in Nat
      /\ Len(items) = IF more THEN Limit ELSE Len(rows)
      /\ Limit \in Nat \ {0} /\ (more <=> Len(rows) > Limit)
      /\ Len(items) <= Len(rows)
      /\ \A k \in 1 .. Len(items) : items[k] = rows[k]
  BY <1>3, ItemsSound
<1>5. row = rows[Limit]
  BY DEF Talking!CursorRow
<1> HIDE DEF rows, items, more, row
<1>6. listed \in Seq(Sessions)
  BY <1>2, <1>4
<1>7. \A i \in 1 .. Len(rows) : rows[i] \in Sessions
  BY <1>3
<1>8. more => /\ Limit \in 1 .. Len(rows) /\ row \in Sessions
              /\ session[row].updated < page.cursor
  <2> SUFFICES ASSUME more
               PROVE  /\ Limit \in 1 .. Len(rows) /\ row \in Sessions
                      /\ session[row].updated < page.cursor
    OBVIOUS
  <2>1. Limit \in 1 .. Len(rows)
    BY <1>4
  <2> QED
    BY <1>3, <1>5, <1>7, <2>1
<1>9. ASSUME NEW s \in page.gone PROVE s \notin Talking!Range(listed)
  <2>1. /\ s \in Sessions /\ ~Talking!Live(s) /\ s \notin Talking!Range(page.listed)
    BY <1>1, <1>2 DEF Listing
  <2>2. \A k \in 1 .. Len(items) : items[k] # s
    BY <1>3, <1>4, <2>1
  <2>3. Talking!Occurrences(s, page.listed) = 0
    <3>1. \A i \in 1 .. Len(page.listed) : page.listed[i] # s
      BY <1>2, <2>1 DEF Talking!Range
    <3> QED
      BY <1>2, <3>1, OccursOnce
  <2>4. Talking!Occurrences(s, listed) = 0
    BY <1>2, <1>4, <2>2, <2>3, OnePageMore
  <2>5. \A i \in 1 .. Len(listed) : listed[i] # s
    BY <1>6, <2>4, OccursOnce
  <2> HIDE DEF listed
  <2>6. DOMAIN listed = 1 .. Len(listed)
    BY <1>6
  <2> QED
    BY <2>5, <2>6 DEF Talking!Range
<1>10. ASSUME NEW s \in Untouched
       PROVE  Talking!Occurrences(s, listed) =
                 IF more => session[s].updated >= session[row].updated THEN 1 ELSE 0
  <2>1. /\ s \in Sessions /\ Talking!Live(s) /\ session[s].updated \in Nat
        /\ Talking!Occurrences(s, page.listed) =
              IF session[s].updated >= page.cursor THEN 1 ELSE 0
    BY <1>1, <1>2 DEF Listing, Untouched
  <2>2. CASE session[s].updated >= page.cursor
    <3>1. \A k \in 1 .. Len(items) : items[k] # s
      BY <1>2, <1>3, <1>4, <2>1, <2>2
    <3>2. Talking!Occurrences(s, listed) = 1
      BY <1>2, <1>4, <2>1, <2>2, <3>1, OnePageMore
    <3>3. more => session[s].updated >= session[row].updated
      BY <1>2, <1>8, <2>1, <2>2
    <3> QED
      BY <3>2, <3>3
  <2>3. CASE session[s].updated < page.cursor
    <3>1. PICK k \in 1 .. Len(rows) : rows[k] = s
      BY <1>3, <2>1, <2>3
    <3>2. Talking!Occurrences(s, page.listed) = 0
      BY <1>2, <2>1, <2>3
    <3>3. \A l \in 1 .. Len(rows) : rows[l] = s => l = k
      <4> SUFFICES ASSUME NEW l \in 1 .. Len(rows), rows[l] = s PROVE l = k
        OBVIOUS
      <4>1. ~(l < k) /\ ~(k < l)
        BY <1>3, <2>1, <3>1
      <4> QED
        BY <1>4, <4>1
    <3>4. CASE k <= Len(items)
      <4>1. k \in 1 .. Len(items) /\ items[k] = s
        BY <1>4, <3>1, <3>4
      <4>2. \A l \in 1 .. Len(items) : items[l] = s => l = k
        BY <1>4, <3>3
      <4>3. Talking!Occurrences(s, listed) = 1
        BY <1>2, <1>4, <3>2, <4>1, <4>2, OnePageMore
      <4>4. more => session[s].updated >= session[row].updated
        <5> SUFFICES ASSUME more PROVE session[s].updated >= session[row].updated
          OBVIOUS
        <5>1. k = Limit \/ k < Limit
          BY <1>4, <3>4
        <5>2. k < Limit => session[s].updated > session[row].updated
          BY <1>3, <1>5, <1>8, <3>1
        <5> QED
          BY <1>2, <1>5, <1>8, <2>1, <3>1, <5>1, <5>2
      <4> QED
        BY <4>3, <4>4
    <3>5. CASE k > Len(items)
      <4>1. more /\ k > Limit
        BY <1>4, <3>5
      <4>2. session[s].updated < session[row].updated
        BY <1>2, <1>3, <1>5, <1>8, <2>1, <3>1, <4>1
      <4>3. \A l \in 1 .. Len(items) : items[l] # s
        <5> SUFFICES ASSUME NEW l \in 1 .. Len(items), items[l] = s PROVE FALSE
          OBVIOUS
        <5>1. l \in 1 .. Len(rows) /\ rows[l] = s
          BY <1>4
        <5>2. l = k
          BY <3>3, <5>1
        <5> QED
          BY <1>4, <3>5, <5>2
      <4>4. Talking!Occurrences(s, listed) = 0
        BY <1>2, <1>4, <3>2, <4>3, OnePageMore
      <4>5. ~(session[s].updated >= session[row].updated)
        BY <1>2, <1>8, <2>1, <4>1, <4>2
      <4> QED
        BY <4>1, <4>4, <4>5
    <3> QED
      BY <1>4, <3>4, <3>5
  <2> QED
    BY <1>2, <2>1, <2>2, <2>3
<1> QED
  BY <1>6, <1>8, <1>9, <1>10 DEF rows, items, more, row

\* list_sessions
LEMMA ListTalk ==
    ASSUME TalkParameters, TalkInv, Talking!ListSessions
    PROVE  TalkInv'
<1> DEFINE rows == Talking!SessionRows
           listed == page.listed \o Talking!Items(rows)
           more == Talking!HasMore(rows)
           row == Talking!CursorRow(rows)
           chosen == IF listed = <<>> THEN NoSession
                     ELSE IF page.requested \in Talking!Range(listed) THEN page.requested
                     ELSE Head(listed)
<1>1. /\ page.at = "sessions"
      /\ page' = IF more
                 THEN [page EXCEPT !.listed = listed, !.cursor = session[row].updated]
                 ELSE [page EXCEPT !.listed = listed, !.cursor = 0,
                                   !.at = IF listed = <<>> THEN "done" ELSE "messages",
                                   !.selected = chosen]
      /\ UNCHANGED <<clock, session, messages, asked>>
  BY DEF Talking!ListSessions
<1>2. TalkTypes /\ TimesApart /\ Listing /\ Reading
  BY DEF TalkInv
<1>3. /\ listed \in Seq(Sessions)
      /\ \A s \in page.gone : s \notin Talking!Range(listed)
      /\ more => row \in Sessions
      /\ \A s \in Untouched :
            Talking!Occurrences(s, listed) =
               IF more => session[s].updated >= session[row].updated THEN 1 ELSE 0
  BY <1>1, NextSessions
<1>4. /\ page \in Loading /\ page.shown = <<>> /\ page.requested \in Sessions
      /\ page.gone \subseteq Sessions /\ page.known \subseteq messages
      /\ \A s \in Untouched : Talking!Live(s)
      /\ \A s \in page.gone : ~Talking!Live(s)
      /\ \A s \in Sessions : session[s].updated \in Nat
      /\ \A m \in messages : m.at \in 1 .. clock
  BY <1>1, <1>2 DEF TalkTypes, Loading, Listing, Reading, TimesApart, Talking!ChatSession
<1> HIDE DEF listed, more, row
<1>5. CASE more
  <2>1. page' = [page EXCEPT !.listed = listed, !.cursor = session[row].updated]
    BY <1>1, <1>5
  <2>2. session[row].updated \in Nat
    BY <1>3, <1>4, <1>5
  <2>3. /\ page' \in Loading /\ page'.at = "sessions" /\ page'.listed = listed
        /\ page'.cursor = session[row].updated /\ page'.shown = <<>>
        /\ page'.gone = page.gone /\ page'.touched = page.touched
        /\ page'.requested = page.requested /\ page'.known = page.known
    BY <1>1, <1>3, <1>4, <2>1, <2>2 DEF Loading
  <2>4. Listing'
    <3>1. Untouched' = Untouched
      BY <2>3 DEF Untouched
    <3>2. \A s \in Sessions : Talking!Live(s)' <=> Talking!Live(s)
      BY <1>1 DEF Talking!Live
    <3>3. \A s \in Untouched' : Talking!Live(s)'
      BY <1>4, <3>1, <3>2 DEF Untouched
    <3>4. \A s \in page.gone : ~Talking!Live(s)' /\ s \notin Talking!Range(listed)
      BY <1>3, <1>4, <3>2
    <3>5. \A s \in Untouched' :
             Talking!Occurrences(s, listed) =
                IF session'[s].updated >= page'.cursor THEN 1 ELSE 0
      BY <1>1, <1>3, <1>5, <2>3, <3>1
    <3> QED
      BY <2>3, <3>3, <3>4, <3>5 DEF Listing
  <2>5. Reading'
    BY <1>1, <1>4, <2>3 DEF Reading
  <2>6. Talking!SessionsListed' /\ Talking!MessagesShown'
    BY <2>3 DEF Talking!SessionsListed, Talking!MessagesShown
  <2> QED
    BY <1>1, <2>3, <2>4, <2>5, <2>6, TalkKept
<1>6. CASE ~more
  <2>1. page' = [page EXCEPT !.listed = listed, !.cursor = 0,
                             !.at = IF listed = <<>> THEN "done" ELSE "messages",
                             !.selected = chosen]
    BY <1>1, <1>6
  <2>2. chosen \in Sessions \cup {NoSession} /\ (listed # <<>> => chosen \in Sessions)
    <3>1. listed # <<>> => Head(listed) \in Sessions
      BY <1>3
    <3> QED
      BY <1>4, <3>1
  <2>3. page.requested \in Untouched => chosen = page.requested
    <3> SUFFICES ASSUME page.requested \in Untouched PROVE chosen = page.requested
      OBVIOUS
    <3>1. Talking!Occurrences(page.requested, listed) = 1
      BY <1>3, <1>6
    <3>2. PICK i \in 1 .. Len(listed) : listed[i] = page.requested
      BY <1>3, <3>1, OccursOnce
    <3>3. page.requested \in Talking!Range(listed) /\ listed # <<>>
      BY <1>3, <3>2 DEF Talking!Range
    <3> QED
      BY <3>3
  <2>4. listed = <<>> => chosen = NoSession
    OBVIOUS
  <2> HIDE DEF chosen
  <2>5. /\ page' \in Loading /\ page'.at = IF listed = <<>> THEN "done" ELSE "messages"
        /\ page'.listed = listed /\ page'.selected = chosen
        /\ page'.cursor = 0 /\ page'.shown = <<>>
        /\ page'.gone = page.gone /\ page'.touched = page.touched
        /\ page'.requested = page.requested /\ page'.known = page.known
    BY <1>3, <1>4, <2>1, <2>2 DEF Loading
  <2>6. page'.at # "sessions"
    BY <2>5
  <2>7. Listing'
    BY <2>6 DEF Listing
  <2>8. DOMAIN <<>> = {}
    OBVIOUS
  <2>9. Reading'
    <3>1. page'.requested \in Sessions /\ page'.known \subseteq messages'
      BY <1>1, <1>4, <2>5
    <3>2. \A m \in page'.known : ~(m.at <= page'.cursor)
      <4> SUFFICES ASSUME NEW m \in page.known PROVE ~(m.at <= 0)
        BY <2>5
      <4> QED
        BY <1>2, <1>4 DEF TalkTypes
    <3> QED
      BY <2>5, <2>8, <3>1, <3>2 DEF Reading
  <2>10. Talking!SessionsListed'
    <3>1. Untouched = Sessions \ (page.touched \cup page.gone)
      BY DEF Untouched
    <3>2. \A s \in Untouched : Talking!Occurrences(s, listed) = 1
      BY <1>3, <1>6
    <3>3. page.requested \notin page.touched \cup page.gone => chosen = page.requested
      BY <1>4, <2>3, <3>1
    <3>4. page.gone \cap Talking!Range(listed) = {}
      BY <1>3
    <3> QED
      BY <2>5, <3>1, <3>2, <3>3, <3>4 DEF Talking!SessionsListed
  <2>11. Talking!MessagesShown'
    <3> SUFFICES ASSUME page'.at = "done"
                 PROVE  {m \in page'.known : SessionOf[m.ask] = page'.selected} = {}
      BY <2>5, <2>8 DEF Talking!MessagesShown
    <3>1. page'.selected = NoSession
      BY <2>4, <2>5
    <3>2. \A m \in messages : SessionOf[m.ask] \in Sessions
      BY <1>2 DEF TalkTypes, Talking!Message, TalkParameters
    <3> QED
      BY <1>4, <2>5, <3>1, <3>2 DEF TalkParameters
  <2> QED
    BY <1>1, <2>5, <2>7, <2>9, <2>10, <2>11, TalkKept
<1> QED
  BY <1>5, <1>6

\* list_messages
LEMMA ReadTalk ==
    ASSUME TalkParameters, TalkInv, Talking!ListMessages
    PROVE  TalkInv'
<1> DEFINE rows == Talking!MessageRows
           items == Talking!Items(rows)
           showing == page.shown \o items
           more == Talking!HasMore(rows)
           row == Talking!CursorRow(rows)
           n == Len(page.shown)
<1>1. /\ page.at = "messages"
      /\ page' = IF ~Talking!Live(page.selected) THEN [page EXCEPT !.at = "failed"]
                 ELSE IF more THEN [page EXCEPT !.shown = showing, !.cursor = row.at]
                 ELSE [page EXCEPT !.shown = showing, !.at = "done"]
      /\ UNCHANGED <<clock, session, messages, asked>>
  BY DEF Talking!ListMessages
<1>2. TalkTypes /\ TimesApart /\ Reading /\ Talking!SessionsListed
  BY DEF TalkInv
<1>3. /\ page \in Loading /\ page.shown \in Seq(Talking!Message) /\ page.cursor \in Nat
      /\ messages \subseteq Talking!Message /\ \A m \in messages : m.at \in Nat
      /\ page.requested \in Sessions /\ page.known \subseteq messages
      /\ \A i, j \in DOMAIN page.shown :
            i < j => Talking!Earlier(page.shown[i], page.shown[j])
      /\ \A i \in DOMAIN page.shown : page.shown[i].at <= page.cursor
      /\ \A m \in page.known :
            SessionOf[m.ask] = page.selected /\ m.at <= page.cursor =>
               m \in Talking!Range(page.shown)
  BY <1>1, <1>2 DEF TalkTypes, Loading, Reading, Talking!Message
<1>4. /\ rows \in Seq(messages)
      /\ \A m \in messages :
            SessionOf[m.ask] = page.selected /\ m.at > page.cursor <=>
               \E k \in 1 .. Len(rows) : rows[k] = m
      /\ \A i, j \in 1 .. Len(rows) : i < j <=> rows[i].at < rows[j].at
  BY <1>2, MessageRowsSound
<1>5. /\ items \in Seq(messages) /\ Len(rows) \in Nat
      /\ Len(items) = IF more THEN Limit ELSE Len(rows)
      /\ Limit \in Nat \ {0} /\ (more <=> Len(rows) > Limit)
      /\ Len(items) <= Len(rows)
      /\ \A k \in 1 .. Len(items) : items[k] = rows[k]
  BY <1>4, ItemsSound
<1>6. row = rows[Limit]
  BY DEF Talking!CursorRow
<1> HIDE DEF rows, items, more, row
<1>7. items \in Seq(Talking!Message)
  <2>1. \A k \in 1 .. Len(items) : items[k] \in Talking!Message
    BY <1>3, <1>5
  <2> QED
    BY <1>5, <2>1
<1>8. /\ showing \in Seq(Talking!Message) /\ n \in Nat /\ Len(showing) = n + Len(items)
      /\ \A i \in 1 .. n : showing[i] = page.shown[i]
      /\ \A k \in 1 .. Len(items) : showing[n + k] = items[k]
      /\ DOMAIN showing = 1 .. Len(showing) /\ DOMAIN page.shown = 1 .. n
  BY <1>3, <1>7
<1> HIDE DEF showing, n
<1>9. \A i \in 1 .. Len(showing) :
         i \in 1 .. n \/ (i - n \in 1 .. Len(items) /\ showing[i] = items[i - n])
  <2> SUFFICES ASSUME NEW i \in 1 .. Len(showing), i \notin 1 .. n
               PROVE  i - n \in 1 .. Len(items) /\ showing[i] = items[i - n]
    OBVIOUS
  <2>1. i - n \in 1 .. Len(items) /\ n + (i - n) = i
    BY <1>5, <1>8
  <2> QED
    BY <1>8, <2>1
<1>10. \A k \in 1 .. Len(rows) : rows[k] \in messages /\ rows[k].at \in Nat
  BY <1>3, <1>4
<1>11. \A k \in 1 .. Len(items) :
          /\ k \in 1 .. Len(rows) /\ items[k] = rows[k]
          /\ items[k].at \in Nat /\ items[k].at > page.cursor
  BY <1>4, <1>5, <1>10
<1>12. ASSUME NEW i \in 1 .. n
       PROVE  page.shown[i].at \in Nat /\ page.shown[i].at <= page.cursor
  <2>1. i \in DOMAIN page.shown /\ page.shown[i] \in Talking!Message
    BY <1>3, <1>8
  <2> QED
    BY <1>3, <2>1 DEF Talking!Message
<1>13. ASSUME NEW i \in DOMAIN showing, NEW j \in DOMAIN showing, i < j
       PROVE  Talking!Earlier(showing[i], showing[j])
  <2>1. i \in 1 .. Len(showing) /\ j \in 1 .. Len(showing) /\ i \in Nat /\ j \in Nat
    BY <1>8
  <2>2. CASE j \in 1 .. n
    <3>1. i \in 1 .. n
      BY <1>8, <1>13, <2>1, <2>2
    <3> QED
      BY <1>3, <1>8, <1>13, <2>2, <3>1
  <2>3. CASE j \notin 1 .. n
    <3>1. j - n \in 1 .. Len(items) /\ showing[j] = items[j - n]
      BY <1>9, <2>1, <2>3
    <3>2. CASE i \in 1 .. n
      <4>1. /\ showing[i] = page.shown[i]
            /\ page.shown[i].at \in Nat /\ page.shown[i].at <= page.cursor
        BY <1>8, <1>12, <3>2
      <4>2. items[j - n].at \in Nat /\ items[j - n].at > page.cursor
        BY <1>11, <3>1
      <4> QED
        BY <1>3, <3>1, <4>1, <4>2 DEF Talking!Earlier
    <3>3. CASE i \notin 1 .. n
      <4>1. i - n \in 1 .. Len(items) /\ showing[i] = items[i - n]
        BY <1>9, <2>1, <3>3
      <4>2. i - n < j - n
        BY <1>8, <1>13, <2>1
      <4>3. rows[i - n].at < rows[j - n].at
        BY <1>4, <1>11, <3>1, <4>1, <4>2
      <4> QED
        BY <1>11, <3>1, <4>1, <4>3 DEF Talking!Earlier
    <3> QED
      BY <3>2, <3>3
  <2> QED
    BY <2>2, <2>3
<1>14. \A m \in Talking!Range(page.shown) : m \in Talking!Range(showing)
  <2> SUFFICES ASSUME NEW i \in 1 .. n PROVE page.shown[i] \in Talking!Range(showing)
    BY <1>8 DEF Talking!Range
  <2>1. i \in DOMAIN showing /\ showing[i] = page.shown[i]
    BY <1>5, <1>8
  <2> QED
    BY <2>1 DEF Talking!Range
<1>15. \A k \in 1 .. Len(items) : items[k] \in Talking!Range(showing)
  <2> SUFFICES ASSUME NEW k \in 1 .. Len(items) PROVE items[k] \in Talking!Range(showing)
    OBVIOUS
  <2>1. n + k \in DOMAIN showing /\ showing[n + k] = items[k]
    BY <1>5, <1>8
  <2> QED
    BY <2>1 DEF Talking!Range
<1>16. ASSUME NEW m \in page.known, SessionOf[m.ask] = page.selected,
              more => m.at <= row.at
       PROVE  m \in Talking!Range(showing)
  <2>1. m \in messages /\ m.at \in Nat
    BY <1>3
  <2>2. CASE m.at <= page.cursor
    BY <1>3, <1>14, <1>16, <2>2
  <2>3. CASE m.at > page.cursor
    <3>1. PICK k \in 1 .. Len(rows) : rows[k] = m
      BY <1>4, <1>16, <2>1, <2>3
    <3>2. k <= Len(items)
      <4> SUFFICES ASSUME more, k > Limit PROVE FALSE
        BY <1>5, <3>1
      <4>1. Limit \in 1 .. Len(rows) /\ Limit < k
        BY <1>5
      <4>2. row.at < m.at /\ row.at \in Nat
        BY <1>4, <1>6, <1>10, <3>1, <4>1
      <4> QED
        BY <1>16, <2>1, <4>2
    <3>3. k \in 1 .. Len(items) /\ items[k] = m
      BY <1>5, <3>1, <3>2
    <3> QED
      BY <1>15, <3>3
  <2> QED
    BY <1>3, <2>1, <2>2, <2>3
<1>17. CASE ~Talking!Live(page.selected)
  <2>1. page' = [page EXCEPT !.at = "failed"]
    BY <1>1, <1>17
  <2>2. /\ page' \in Loading /\ page'.at = "failed"
        /\ page'.requested = page.requested /\ page'.known = page.known
    BY <1>3, <2>1 DEF Loading
  <2>3. /\ page'.at # "sessions" /\ page'.at # "messages" /\ page'.at # "done"
        /\ page'.at \notin {"messages", "done"}
    BY <2>2
  <2>4. Listing' /\ Talking!SessionsListed' /\ Talking!MessagesShown'
    BY <2>3 DEF Listing, Talking!SessionsListed, Talking!MessagesShown
  <2>5. Reading'
    BY <1>1, <1>3, <2>2, <2>3 DEF Reading
  <2> QED
    BY <1>1, <2>2, <2>4, <2>5, TalkKept
<1>18. CASE Talking!Live(page.selected) /\ more
  <2>1. page' = [page EXCEPT !.shown = showing, !.cursor = row.at]
    BY <1>1, <1>18
  <2>2. Limit \in 1 .. Len(rows) /\ row.at \in Nat /\ row.at > page.cursor
    <3>1. Limit \in 1 .. Len(rows)
      BY <1>5, <1>18
    <3> QED
      BY <1>4, <1>6, <1>10, <3>1
  <2>3. /\ page' \in Loading /\ page'.at = "messages" /\ page'.shown = showing
        /\ page'.cursor = row.at /\ page'.selected = page.selected
        /\ page'.listed = page.listed /\ page'.touched = page.touched
        /\ page'.gone = page.gone
        /\ page'.requested = page.requested /\ page'.known = page.known
    BY <1>1, <1>3, <1>8, <2>1, <2>2 DEF Loading
  <2>4. Listing' /\ Talking!MessagesShown'
    BY <2>3 DEF Listing, Talking!MessagesShown
  <2>5. Talking!SessionsListed'
    BY <1>1, <1>2, <2>3 DEF Talking!SessionsListed
  <2>6. \A i \in DOMAIN showing : showing[i].at <= row.at
    <3> SUFFICES ASSUME NEW i \in 1 .. Len(showing) PROVE showing[i].at <= row.at
      BY <1>8
    <3>1. CASE i \in 1 .. n
      BY <1>3, <1>8, <1>12, <2>2, <3>1, SMTT(30)
    <3>2. CASE i \notin 1 .. n
      <4>1. i - n \in 1 .. Len(items) /\ showing[i] = items[i - n]
        BY <1>9, <3>2
      <4>2. i - n \in 1 .. Len(rows) /\ i - n <= Limit
        BY <1>5, <1>11, <1>18, <4>1
      <4>3. i - n = Limit \/ rows[i - n].at < rows[Limit].at
        BY <1>4, <2>2, <4>2
      <4> QED
        BY <1>6, <1>10, <1>11, <2>2, <4>1, <4>2, <4>3
    <3> QED
      BY <3>1, <3>2
  <2>7. \A m \in page.known :
           SessionOf[m.ask] = page.selected /\ m.at <= row.at => m \in Talking!Range(showing)
    BY <1>16
  <2>8. Reading'
    BY <1>1, <1>3, <1>13, <2>3, <2>6, <2>7 DEF Reading
  <2> QED
    BY <1>1, <2>3, <2>4, <2>5, <2>8, TalkKept
<1>19. CASE Talking!Live(page.selected) /\ ~more
  <2>1. page' = [page EXCEPT !.shown = showing, !.at = "done"]
    BY <1>1, <1>19
  <2>2. /\ page' \in Loading /\ page'.at = "done" /\ page'.shown = showing
        /\ page'.selected = page.selected
        /\ page'.listed = page.listed /\ page'.touched = page.touched
        /\ page'.gone = page.gone
        /\ page'.requested = page.requested /\ page'.known = page.known
    BY <1>3, <1>8, <2>1 DEF Loading
  <2>3. Listing'
    BY <2>2 DEF Listing
  <2>4. Reading'
    BY <1>1, <1>3, <2>2 DEF Reading
  <2>5. Talking!SessionsListed'
    BY <1>1, <1>2, <2>2 DEF Talking!SessionsListed
  <2>6. {m \in page.known : SessionOf[m.ask] = page.selected} \subseteq Talking!Range(showing)
    BY <1>16, <1>19
  <2>7. Talking!MessagesShown'
    BY <1>13, <2>2, <2>6 DEF Talking!MessagesShown
  <2> QED
    BY <1>1, <2>2, <2>3, <2>4, <2>5, <2>7, TalkKept
<1> QED
  BY <1>17, <1>18, <1>19

\* Every step of this part keeps the invariant.
LEMMA TalkSteps ==
    ASSUME TalkParameters, part = "conversations", TalkInv, [PartsNext]_partsVars
    PROVE  TalkInv'
<1>1. CASE UNCHANGED partsVars
  <2>1. UNCHANGED <<clock, session, messages, asked>> /\ page' = page
    BY <1>1 DEF partsVars, conversationVars
  <2>2. Listing' /\ Reading' /\ Talking!SessionsListed' /\ Talking!MessagesShown'
    BY <2>1, PageKept
  <2>3. page' \in Loading
    BY <2>1 DEF TalkInv, TalkTypes
  <2> QED
    BY <2>1, <2>2, <2>3, TalkKept
<1>2. CASE PartsNext
  <2>1. \/ \E m \in Questions :
              \/ Talking!Ask(m) \/ Talking!CommitQuestion(m) \/ Talking!Prompt(m)
              \/ Talking!Answer(m) \/ Talking!CommitAnswer(m) \/ Talking!Fail(m)
        \/ \E s \in Sessions : Talking!Delete(s) \/ Talking!Load(s)
        \/ Talking!ListSessions \/ Talking!ListMessages
    BY <1>2 DEF PartsNext, Retrieving, OnTheWeb, InTalk, Linking
  <2> QED
    BY <2>1, TimeTalk, CommitTalk, PromptTalk, FailTalk, DeleteTalk, LoadTalk, ListTalk, ReadTalk
<1> QED
  BY <1>1, <1>2

\* The invariant is stronger than what is promised of the conversations.
LEMMA InvConversationsShown == TalkInv => Talking!ConversationsShown
<1> SUFFICES ASSUME TalkInv PROVE Talking!ConversationsShown
  OBVIOUS
<1>1. Talking!TypeOK
  <2>1. /\ page.at \in {"idle", "sessions", "messages", "done", "failed"}
        /\ page.listed \in Seq(Sessions) /\ page.shown \in Seq(Talking!Message)
    BY DEF TalkInv, TalkTypes, Loading
  <2> QED
    BY <2>1 DEF TalkInv, TalkTypes, Talking!TypeOK
<1> QED
  BY <1>1 DEF TalkInv, Talking!ConversationsShown

\* docs/p3-api.md:14: for any sessions, questions, lengths, page size and budgets, the lists
\* are complete and in order although they are read page by page while others write, and a
\* prompt has messages of its own conversation only, in order and within its budgets.
THEOREM ConversationsHold ==
    ASSUME TalkParameters
    PROVE  PartsSpec => []ConversationsShown
<1> DEFINE Now == part = "conversations"
           Sound == Now => TalkInv
<1>1. PartsInit => Sound
  BY TalkBegin
<1>2. Sound /\ [PartsNext]_partsVars => Sound'
  BY TalkSteps, PartStays
<1>3. Sound => ConversationsShown
  BY InvConversationsShown DEF ConversationsShown
<1> QED
  BY <1>1, <1>2, <1>3, PTL DEF PartsSpec, partsVars
================================================================================
