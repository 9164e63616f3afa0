---------------------------- MODULE AdmissionProofs ----------------------------
(***************************************************************************)
(* What is accepted is numbered, paid for, accepted once for a key whose   *)
(* claim is kept, and on the disk, for any number of calls, keys and       *)
(* faults.                                                                 *)
(***************************************************************************)
EXTENDS Admission, FiniteSetTheorems, TLAPS

Parameters ==
    /\ Bodies \subseteq [kind : {"new", "version", "reindex"}, size : Nat]
    /\ KeyOf \in [Calls -> Keys]
    /\ Document \notin Calls /\ NoCall \notin Calls
    /\ Quota \in Nat \ {0} /\ MaxFaults \in Nat

Documents == Calls \cup {Document}
Rows(d) == {v \in versions : v.document = d}

-------------------------------------------------------------------------------
(* The inductive invariant *)

Typed ==
    /\ TypeOK
    /\ draft \in [Calls -> Version]
    /\ IsFiniteSet(versions) /\ IsFiniteSet(Units(versions))

\* The versions of a document are numbered from 1, and the active one is among them.
Numbered ==
    /\ \A d \in Documents : {v.number : v \in Rows(d)} = 1..Cardinality(Rows(d))
    /\ active # 0 => \E v \in Rows(Document) : v.number = active

\* The call that holds the tenant's row, if any, is alone; what it is about to commit was
\* computed from the rows that are still there.
OneAtWork ==
    /\ Used <= Quota
    /\ \A c, d \in Calls : call[c] = "placed" /\ call[d] = "placed" => c = d
    /\ \A c \in Calls : call[c] = "placed" =>
          /\ draft[c].by = c /\ draft[c].document = DocumentOf(c)
          /\ draft[c].number = 1 + Cardinality(Rows(DocumentOf(c)))
          /\ Used + draft[c].size <= Quota
          /\ claims[Claim(c)].status = "absent"
          /\ c \in files

\* A claim is completed by a version of that claim, every version of a call has completed
\* its claim, which may have been pruned, and the call is over.
ClaimsPaired ==
    /\ \A k \in Operations \X Keys :
          \/ claims[k].status = "absent"
          \/ /\ claims[k].status = "completed"
             /\ claims[k].response \in Authors \ pruned /\ Claim(claims[k].response) = k
    /\ \A c \in Authors \ pruned :
          claims[Claim(c)].status = "completed" /\ claims[Claim(c)].response = c
    /\ \A c \in Calls : call[c] = "answered" =>
          answer[c] \in Authors /\ Claim(answer[c]) = Claim(c)
    /\ \A c \in Authors : call[c] \in {"answered", "refused"}
    /\ pruned \subseteq Authors

AdmissionSound == Typed /\ Numbered /\ OneAtWork /\ ClaimsPaired /\ FilesAccounted

-------------------------------------------------------------------------------

\* The next number of a document whose numbers have no gap.
LEMMA NumberOfNext ==
    ASSUME Numbered, Typed, NEW c \in Calls
    PROVE  NextNumber(c) = 1 + Cardinality(Rows(DocumentOf(c)))
<1> DEFINE n == Cardinality(Rows(DocumentOf(c)))
<1>1. n \in Nat
  <2>1. IsFiniteSet(Rows(DocumentOf(c)))
    BY FS_Subset DEF Typed, Rows
  <2> QED
    BY <2>1, FS_CardinalityType
<1>2. {v.number : v \in Rows(DocumentOf(c))} = 1..n
  BY DEF Numbered, DocumentOf, Documents
<1> HIDE DEF n
<1>3. {0} \cup (1..n) = 0..n
  BY <1>1
<1>4. Max(0..n) = n
  BY <1>1 DEF Max
<1> QED
  BY <1>2, <1>3, <1>4 DEF NextNumber, Rows, n

\* The units of one version more.
LEMMA UnitsOfOneMore ==
    ASSUME NEW S, NEW x, x \notin S, IsFiniteSet(Units(S)), x.size \in Nat
    PROVE  /\ IsFiniteSet(Units(S \cup {x}))
           /\ Cardinality(Units(S \cup {x})) = Cardinality(Units(S)) + x.size
<1> DEFINE U == {x} \X (1..x.size)
<1>1. Units(S \cup {x}) = Units(S) \cup U
  BY DEF Units
<1>2. IsFiniteSet({x}) /\ Cardinality({x}) = 1
  BY FS_Singleton
<1>3. IsFiniteSet(1..x.size) /\ Cardinality(1..x.size) = x.size
  BY FS_Interval, SMTT(30)
<1>4. IsFiniteSet(U) /\ Cardinality(U) = x.size
  <2>1. IsFiniteSet(U) /\ Cardinality(U) = Cardinality({x}) * Cardinality(1..x.size)
    BY <1>2, <1>3, FS_Product
  <2>2. 1 * x.size = x.size
    OBVIOUS
  <2> QED
    BY <1>2, <1>3, <2>1, <2>2
<1>5. Units(S) \cap U = {}
  BY DEF Units
<1> HIDE DEF U
<1>6. Cardinality(Units(S) \cap U) = 0
  BY <1>5, FS_EmptySet
<1>7. Cardinality(Units(S)) \in Nat
  BY FS_CardinalityType
<1>8. /\ IsFiniteSet(Units(S) \cup U)
      /\ Cardinality(Units(S) \cup U) = Cardinality(Units(S)) + x.size - 0
  BY <1>4, <1>6, FS_Union
<1>9. Cardinality(Units(S) \cup U) = Cardinality(Units(S)) + x.size
  BY <1>7, <1>8
<1> QED
  BY <1>1, <1>8, <1>9

\* The claim of a call is a row, and an owned outcome is that of a row nobody has claimed.
LEMMA ClaimRow ==
    ASSUME Parameters, NEW c \in Calls
    PROVE  Claim(c) \in Operations \X Keys
  BY DEF Parameters, Claim, Operations

LEMMA OwnedIsAbsent ==
    ASSUME Parameters, ClaimsPaired, NEW c \in Calls, Outcome(c) \in Claims!Owned
    PROVE  claims[Claim(c)].status = "absent"
<1> DEFINE row == claims[Claim(c)]
<1>1. row.status = "absent" \/ row.status = "completed"
  BY ClaimRow DEF ClaimsPaired
<1> HIDE DEF row
<1>2. ASSUME row.status = "completed" PROVE FALSE
  <2>1. Claims!Outcome(row, body[c], FALSE) \in {"conflict", "replay"}
    BY <1>2 DEF Claims!Outcome
  <2> QED
    BY <2>1 DEF Outcome, Claims!Owned, row
<1> QED
  BY <1>1, <1>2 DEF row

LEMMA SoundInit == Parameters /\ Init => AdmissionSound
<1> SUFFICES ASSUME Parameters, Init PROVE AdmissionSound
  OBVIOUS
<1>1. First \in Version /\ First.size = 1 /\ First.document = Document /\ First.number = 1
  BY DEF First, Version
<1>2. TypeOK /\ draft \in [Calls -> Version]
  <2>1. Claims!NoRow \in Claims!Row
    BY DEF Claims!NoRow, Claims!Row, Claims!RowStatus
  <2> QED
    BY <1>1, <2>1 DEF Init, TypeOK, Parameters
<1>3. Units({}) = {} /\ {} \cup {First} = {First}
  BY DEF Units
<1>4. IsFiniteSet(Units({First})) /\ Cardinality(Units({First})) = 1
  <2>1. IsFiniteSet(Units({})) /\ Cardinality(Units({})) = 0
    BY <1>3, FS_EmptySet
  <2>2. /\ IsFiniteSet(Units({} \cup {First}))
        /\ Cardinality(Units({} \cup {First})) = 0 + 1
    BY <1>1, <2>1, UnitsOfOneMore
  <2> QED
    BY <1>3, <2>2
<1>5. IsFiniteSet({First}) /\ Cardinality({First}) = 1 /\ Cardinality({}) = 0
  BY FS_Singleton, FS_EmptySet
<1>6. Rows(Document) = {First} /\ \A c \in Calls : Rows(c) = {}
  BY <1>1 DEF Init, Rows, Parameters
<1>7. Numbered
  <2>1. {v.number : v \in Rows(Document)} = 1..1 /\ \A c \in Calls : {v.number : v \in Rows(c)} = {}
    BY <1>1, <1>6
  <2>2. \A d \in Documents : {v.number : v \in Rows(d)} = 1..Cardinality(Rows(d))
    BY <1>5, <1>6, <2>1 DEF Documents
  <2>3. First \in Rows(Document) /\ First.number = active
    BY <1>1, <1>6 DEF Init
  <2> QED
    BY <2>2, <2>3 DEF Numbered
<1>8. Authors = {}
  BY DEF Init, Authors, First
<1>9. OneAtWork
  BY <1>4 DEF Init, OneAtWork, Used, Parameters
<1>10. ClaimsPaired
  BY <1>8 DEF Init, ClaimsPaired, Claims!NoRow
<1>11. FilesAccounted
  BY <1>8 DEF Init, FilesAccounted, Authors
<1> QED
  BY <1>2, <1>4, <1>5, <1>7, <1>9, <1>10, <1>11 DEF Init, AdmissionSound, Typed

\* A step that leaves the rows alone and does not take the lock.
LEMMA QuietSound ==
    ASSUME Parameters, AdmissionSound, NEW c \in Calls,
           Stage(c) \/ PlaceFails(c) \/ Replay(c) \/ Refuse(c) \/ RollBack(c) \/ Crash(c)
    PROVE  AdmissionSound'
<1>1. UNCHANGED <<body, draft, versions, active, claims, pruned, doubtful>>
  BY DEF Stage, PlaceFails, Replay, Refuse, RollBack, Crash
<1>2. PICK step \in {"staged", "answered", "refused", "crashed"} :
        call' = [call EXCEPT ![c] = step]
  BY DEF Stage, PlaceFails, Replay, Refuse, RollBack, Crash
<1>3. /\ call \in [Calls -> {"new", "staged", "placed", "answered", "refused", "crashed"}]
      /\ answer \in [Calls -> Calls \cup {NoCall}] /\ faults \in 0..MaxFaults
      /\ temporary \subseteq Calls /\ files \subseteq Calls
  BY DEF AdmissionSound, Typed, TypeOK
<1>4. call'[c] = step /\ \A d \in Calls \ {c} : call'[d] = call[d]
  BY <1>2, <1>3
<1>5. /\ Used' = Used /\ Authors' = Authors /\ \A d : Claim(d)' = Claim(d)
      /\ \A d : Rows(d)' = Rows(d) /\ DocumentOf(d)' = DocumentOf(d)
      /\ \A d : Reindex(d)' = Reindex(d)
  BY <1>1 DEF Used, Units, Authors, Claim, Reindex, Rows, DocumentOf
<1>6. Numbered'
  BY <1>1, <1>5 DEF AdmissionSound, Numbered, Documents
<1>7. \/ files' = files
      \/ files' = files \ {c} /\ call[c] = "placed"
      \/ files' = files \cup {c} /\ Reindex(c) /\ step = "refused" /\ call[c] = "new"
  BY <1>2, <1>3 DEF Stage, PlaceFails, Accepts, AtLock, Replay, Refuse, RollBack, Crash
<1>8. OneAtWork'
  <2>1. \A d \in Calls : call'[d] = "placed" => call[d] = "placed" /\ d # c
    BY <1>4
  <2>2. \A d \in Calls : call'[d] = "placed" => (d \in files <=> d \in files')
    BY <1>7, <2>1
  <2>3. \A d \in Calls : DocumentOf(d) \in Documents
    BY DEF DocumentOf, Documents
  <2> QED
    BY <1>1, <1>5, <2>1, <2>2, <2>3 DEF AdmissionSound, OneAtWork
<1>9. call[c] \in {"new", "staged", "placed"} /\ c \notin Authors
  BY <1>2, <1>3 DEF Stage, PlaceFails, Accepts, AtLock, Replay, Refuse, RollBack, Crash,
                    AdmissionSound, ClaimsPaired
<1>10. ClaimsPaired'
  <2>1. /\ \A d \in Calls \ {c} : answer'[d] = answer[d]
        /\ step = "answered" =>
              Outcome(c) = "replay" /\ answer'[c] = claims[Claim(c)].response
    BY <1>3, <1>4 DEF Stage, PlaceFails, Replay, Refuse, RollBack, Crash
  <2>2. step = "answered" => claims[Claim(c)].status = "completed"
    <3>1. claims[Claim(c)].status \in {"absent", "completed"}
      BY ClaimRow DEF AdmissionSound, ClaimsPaired
    <3>2. claims[Claim(c)].status = "absent" => Outcome(c) = "claimed"
      BY DEF Outcome, Claims!Outcome
    <3> QED
      BY <2>1, <3>1, <3>2
  <2>3. \A d \in Calls : call'[d] = "answered" =>
          answer'[d] \in Authors /\ Claim(answer'[d]) = Claim(d)
    BY <1>4, <2>1, <2>2, ClaimRow DEF AdmissionSound, ClaimsPaired
  <2>4. \A d \in Authors : call'[d] \in {"answered", "refused"}
    <3>1. Authors \subseteq Calls
      BY DEF AdmissionSound, Typed, TypeOK, Authors, Version
    <3> QED
      BY <1>4, <1>9, <3>1 DEF AdmissionSound, ClaimsPaired
  <2> QED
    BY <1>1, <1>5, <2>3, <2>4 DEF AdmissionSound, ClaimsPaired
<1>11. FilesAccounted'
  <2>1. temporary' \ {c} = temporary \ {c} /\ (c \in temporary' => step \in {"staged", "crashed"})
    BY <1>2, <1>3, <1>4
       DEF Stage, PlaceFails, Replay, Refuse, RollBack, Crash, AdmissionSound, FilesAccounted
  <2>2. c \notin files' \/ step = "crashed" \/ (step = "refused" /\ Reindex(c))
    <3>1. CASE RollBack(c)
      BY <3>1 DEF RollBack
    <3>2. CASE Crash(c)
      BY <1>3, <1>4, <3>2 DEF Crash
    <3>3. CASE Stage(c) \/ PlaceFails(c) \/ Replay(c) \/ Refuse(c)
      <4>1. call[c] \in {"new", "staged"}
        BY <3>3 DEF Stage, PlaceFails, Accepts, Replay, Refuse, AtLock
      <4>2. c \notin files
        BY <1>9, <4>1 DEF AdmissionSound, FilesAccounted
      <4> QED
        BY <1>7, <4>2
    <3> QED
      BY <3>1, <3>2, <3>3
  <2>3. Authors \ doubtful \subseteq files'
    BY <1>7, <1>9 DEF AdmissionSound, FilesAccounted
  <2>4. \A d \in files' \ Authors :
          call'[d] \in {"placed", "crashed"} \/ (call'[d] = "refused" /\ Reindex(d))
    BY <1>3, <1>4, <1>7, <2>2 DEF AdmissionSound, FilesAccounted
  <2>5. \A d \in temporary' : call'[d] \in {"staged", "crashed"}
    BY <1>3, <1>4, <2>1 DEF AdmissionSound, FilesAccounted
  <2> QED
    BY <1>1, <1>5, <2>3, <2>4, <2>5 DEF FilesAccounted
<1>12. Typed'
  <2>1. /\ temporary' \subseteq Calls /\ answer' \in [Calls -> Calls \cup {NoCall}]
        /\ faults' \in 0..MaxFaults
    <3>1. claims[Claim(c)].response \in Calls \cup {NoCall}
      BY ClaimRow DEF AdmissionSound, Typed, TypeOK, Claims!Row
    <3> QED
      BY <1>3, <3>1 DEF Stage, PlaceFails, Replay, Refuse, RollBack, Crash, Fault, Parameters
  <2>2. call' \in [Calls -> {"new", "staged", "placed", "answered", "refused", "crashed"}]
    BY <1>2, <1>3
  <2> QED
    BY <1>1, <1>3, <1>7, <2>1, <2>2 DEF AdmissionSound, Typed, TypeOK, Units
<1> QED
  BY <1>6, <1>8, <1>10, <1>11, <1>12 DEF AdmissionSound

\* The lock is taken by one call at a time, with what it computed from the rows.
LEMMA PlaceSound ==
    ASSUME Parameters, AdmissionSound, NEW c \in Calls, Place(c)
    PROVE  AdmissionSound'
<1>1. /\ UNCHANGED <<body, answer, versions, active, claims, pruned, doubtful, faults>>
      /\ temporary' = temporary \ {c} /\ files' = files \cup {c}
      /\ call' = [call EXCEPT ![c] = "placed"]
      /\ AtLock(c) /\ Outcome(c) \in Claims!Owned /\ Acceptable(c)
      /\ draft' = [draft EXCEPT
          ![c] = [document |-> DocumentOf(c), number |-> NextNumber(c), size |-> Size(c), by |-> c]]
  BY DEF Place, Accepts
<1>2. /\ call \in [Calls -> {"new", "staged", "placed", "answered", "refused", "crashed"}]
      /\ draft \in [Calls -> Version] /\ versions \subseteq Version /\ active \in Nat
      /\ body \in [Calls -> Bodies] /\ IsFiniteSet(versions)
  BY DEF AdmissionSound, Typed, TypeOK
<1>3. call'[c] = "placed" /\ \A d \in Calls \ {c} : call'[d] = call[d] /\ call[d] # "placed"
  BY <1>1, <1>2 DEF AtLock, Unlocked
<1>4. /\ \A d : Claim(d)' = Claim(d) /\ Rows(d)' = Rows(d) /\ DocumentOf(d)' = DocumentOf(d)
      /\ Used' = Used /\ Authors' = Authors /\ \A d : Reindex(d)' = Reindex(d)
  BY <1>1 DEF Claim, Reindex, Rows, DocumentOf, Used, Units, Authors
<1>5. Size(c) \in Nat
  <2>1. CASE Reindex(c)
    <3>1. active # 0
      BY <1>1, <2>1 DEF Acceptable, Found, Reindex
    <3>2. \E v \in versions : v.document = Document /\ v.number = active
      BY <3>1 DEF AdmissionSound, Numbered, Rows
    <3>3. (CHOOSE v \in versions : v.document = Document /\ v.number = active) \in versions
      BY <3>2
    <3> QED
      BY <1>2, <2>1, <3>3 DEF Size, Version
  <2>2. CASE ~Reindex(c)
    BY <1>2, <2>2 DEF Size, Parameters
  <2> QED
    BY <2>1, <2>2
<1>6. NextNumber(c) = 1 + Cardinality(Rows(DocumentOf(c)))
  BY NumberOfNext DEF AdmissionSound
<1>7. Cardinality(Rows(DocumentOf(c))) \in Nat
  <2>1. Rows(DocumentOf(c)) \in SUBSET versions
    BY DEF Rows
  <2> QED
    BY <1>2, <2>1, FS_Subset, FS_CardinalityType
<1>8. DocumentOf(c) \in Documents
  BY DEF DocumentOf, Documents
<1>9. /\ draft'[c] = [document |-> DocumentOf(c), number |-> NextNumber(c), size |-> Size(c),
                      by |-> c]
      /\ draft' \in [Calls -> Version]
  BY <1>1, <1>2, <1>5, <1>6, <1>7, <1>8 DEF Version, Documents
<1>10. Typed'
  <2>1. TypeOK'
    BY <1>1 DEF AdmissionSound, Typed, TypeOK
  <2> QED
    BY <1>1, <1>9, <2>1 DEF AdmissionSound, Typed, Units
<1>11. Numbered'
  BY <1>1, <1>4 DEF AdmissionSound, Numbered
<1>12. OneAtWork'
  <2>1. claims[Claim(c)].status = "absent"
    BY <1>1, OwnedIsAbsent DEF AdmissionSound
  <2>2. Used + Size(c) <= Quota
    BY <1>1 DEF Acceptable
  <2>3. \A d \in Calls : call'[d] = "placed" => d = c
    BY <1>3
  <2>4. draft'[c].by = c /\ draft'[c].document = DocumentOf(c)
        /\ draft'[c].number = 1 + Cardinality(Rows(DocumentOf(c)))
        /\ Used + draft'[c].size <= Quota
    BY <1>6, <1>9, <2>2
  <2> QED
    BY <1>1, <1>4, <2>1, <2>3, <2>4 DEF AdmissionSound, OneAtWork
<1>13. ClaimsPaired'
  <2>1. \A d \in Calls : call'[d] = "answered" => call[d] = "answered"
    BY <1>3
  <2>2. c \notin Authors /\ Authors \subseteq Calls
    BY <1>1, <1>2 DEF AtLock, AdmissionSound, ClaimsPaired, Authors, Version
  <2>3. \A d \in Authors : call'[d] \in {"answered", "refused"}
    BY <1>3, <2>2 DEF AdmissionSound, ClaimsPaired
  <2> QED
    BY <1>1, <1>4, <2>1, <2>3 DEF AdmissionSound, ClaimsPaired
<1>14. FilesAccounted'
  BY <1>1, <1>3, <1>4 DEF AdmissionSound, FilesAccounted
<1> QED
  BY <1>10, <1>11, <1>12, <1>13, <1>14 DEF AdmissionSound

\* The commit, acknowledged or not, adds the one version its claim was waiting for.
LEMMA StoredSound ==
    ASSUME Parameters, AdmissionSound, NEW c \in Calls, Commit(c) \/ DoubtfulCommit(c)
    PROVE  AdmissionSound'
<1>0. PICK x, D : x = draft[c] /\ D = DocumentOf(c)
  OBVIOUS
<1>1. /\ call[c] = "placed" /\ versions' = versions \cup {x}
      /\ claims' = [claims EXCEPT
            ![Claim(c)] = Claims!CompletedRow(Claims!ClaimedRow(body[c], c), c)]
      /\ UNCHANGED <<body, temporary, draft, active, pruned>>
  BY <1>0 DEF Commit, DoubtfulCommit, Stored
<1>2. /\ call \in [Calls -> {"new", "staged", "placed", "answered", "refused", "crashed"}]
      /\ answer \in [Calls -> Calls \cup {NoCall}] /\ faults \in 0..MaxFaults
      /\ claims \in [Operations \X Keys -> Claims!Row] /\ body \in [Calls -> Bodies]
      /\ files \subseteq Calls /\ doubtful \subseteq Calls /\ temporary \subseteq Calls
      /\ pruned \subseteq Calls
      /\ x \in Version /\ versions \subseteq Version /\ active \in Nat
      /\ IsFiniteSet(versions) /\ IsFiniteSet(Units(versions))
  BY <1>0 DEF AdmissionSound, Typed, TypeOK
<1>3. PICK step \in {"answered", "refused"} :
        /\ call' = [call EXCEPT ![c] = step]
        /\ step = "answered" => answer' = [answer EXCEPT ![c] = c] /\ UNCHANGED <<files, doubtful>>
        /\ step = "refused" =>
              answer' = answer /\ files' = files \ {c} /\ doubtful' = doubtful \cup {c}
  BY DEF Commit, DoubtfulCommit
<1>4. call'[c] = step /\ \A d \in Calls \ {c} : call'[d] = call[d] /\ call'[d] # "placed"
  BY <1>1, <1>2, <1>3 DEF AdmissionSound, OneAtWork
<1>5. /\ x.by = c /\ x.document = D /\ x.number = 1 + Cardinality(Rows(D))
      /\ Used + x.size <= Quota /\ claims[Claim(c)].status = "absent" /\ c \in files
      /\ x.size \in Nat /\ D \in Documents
  BY <1>0, <1>1, <1>2 DEF AdmissionSound, OneAtWork, Version, DocumentOf, Documents
<1>6. IsFiniteSet(Rows(D)) /\ Cardinality(Rows(D)) \in Nat
  <2>1. Rows(D) \in SUBSET versions
    BY DEF Rows
  <2> QED
    BY <1>2, <2>1, FS_Subset, FS_CardinalityType
<1>7. {v.number : v \in Rows(D)} = 1..Cardinality(Rows(D))
  BY <1>5 DEF AdmissionSound, Numbered
<1>8. x \notin Rows(D) /\ x \notin versions
  <2>1. ASSUME x \in Rows(D) PROVE FALSE
    <3>1. x.number \in 1..Cardinality(Rows(D))
      BY <1>7, <2>1
    <3> QED
      BY <1>5, <1>6, <3>1
  <2> QED
    BY <1>5, <2>1 DEF Rows
<1>9. Rows(D)' = Rows(D) \cup {x} /\ \A d : d # D => Rows(d)' = Rows(d)
  <2>1. \A d : Rows(d)' = {v \in versions \cup {x} : v.document = d}
    BY <1>1 DEF Rows
  <2> QED
    BY <1>5, <2>1 DEF Rows
<1>10. Cardinality(Rows(D) \cup {x}) = Cardinality(Rows(D)) + 1
  BY <1>6, <1>8, FS_AddElement
<1>11. IsFiniteSet(versions') /\ IsFiniteSet(Units(versions')) /\ Used' = Used + x.size
  BY <1>1, <1>2, <1>5, <1>8, UnitsOfOneMore, FS_AddElement DEF Used
<1>12. Numbered'
  <2>1. {v.number : v \in Rows(D) \cup {x}} = 1..Cardinality(Rows(D) \cup {x})
    <3>1. {v.number : v \in Rows(D) \cup {x}} = {v.number : v \in Rows(D)} \cup {x.number}
      OBVIOUS
    <3>2. {v.number : v \in Rows(D) \cup {x}}
            = (1..Cardinality(Rows(D))) \cup {1 + Cardinality(Rows(D))}
      BY <1>5, <1>7, <3>1
    <3> QED
      BY <1>6, <1>10, <3>2
  <2>2. \A d \in Documents : {v.number : v \in Rows(d)'} = 1..Cardinality(Rows(d)')
    BY <1>9, <2>1 DEF AdmissionSound, Numbered
  <2>3. Rows(Document) \subseteq Rows(Document)'
    BY <1>9
  <2> QED
    BY <1>1, <2>2, <2>3 DEF AdmissionSound, Numbered
<1>13. OneAtWork'
  <2>1. \A d \in Calls : call'[d] # "placed"
    BY <1>4
  <2> QED
    BY <1>5, <1>11, <2>1 DEF OneAtWork
<1>14. Authors' = Authors \cup {c}
  BY <1>1, <1>5 DEF Authors, Parameters
<1>15. /\ claims' \in [Operations \X Keys -> Claims!Row]
       /\ claims'[Claim(c)].status = "completed" /\ claims'[Claim(c)].response = c
       /\ \A k \in (Operations \X Keys) \ {Claim(c)} : claims'[k] = claims[k]
       /\ Claim(c) \in Operations \X Keys
  <2>1. body[c] \in Bodies
    BY <1>2
  <2> DEFINE row == Claims!CompletedRow(Claims!ClaimedRow(body[c], c), c)
  <2>2. row \in Claims!Row /\ row.status = "completed" /\ row.response = c
    BY <2>1 DEF Claims!CompletedRow, Claims!ClaimedRow, Claims!Row, Claims!RowStatus
  <2> HIDE DEF row
  <2>3. claims' = [claims EXCEPT ![Claim(c)] = row]
    BY <1>1 DEF row
  <2> QED
    BY <1>2, <2>2, <2>3, ClaimRow
<1>16. \A d : Claim(d)' = Claim(d) /\ Reindex(d)' = Reindex(d)
  BY <1>1 DEF Claim, Reindex
<1>17. ClaimsPaired'
  <2>1. Authors \subseteq Calls /\ c \notin Authors
    BY <1>1, <1>2 DEF AdmissionSound, ClaimsPaired, Authors, Version
  <2>2. \A d \in Authors \ pruned : Claim(d) # Claim(c) /\ Claim(d) \in Operations \X Keys
    BY <1>5, <2>1, ClaimRow DEF AdmissionSound, ClaimsPaired
  <2>3. \A k \in Operations \X Keys :
          \/ claims'[k].status = "absent"
          \/ /\ claims'[k].status = "completed"
             /\ claims'[k].response \in (Authors \cup {c}) \ pruned
             /\ Claim(claims'[k].response) = k
    BY <1>15, <2>1 DEF AdmissionSound, ClaimsPaired
  <2>4. \A d \in (Authors \cup {c}) \ pruned :
          claims'[Claim(d)].status = "completed" /\ claims'[Claim(d)].response = d
    BY <1>15, <2>2 DEF AdmissionSound, ClaimsPaired
  <2>5. \A d \in Calls : call'[d] = "answered" =>
          answer'[d] \in Authors \cup {c} /\ Claim(answer'[d]) = Claim(d)
    <3>1. call'[c] = "answered" => answer'[c] = c
      BY <1>2, <1>3, <1>4
    <3>2. \A d \in Calls \ {c} : call'[d] = "answered" =>
            answer'[d] = answer[d] /\ answer[d] \in Authors /\ Claim(answer[d]) = Claim(d)
      BY <1>2, <1>3, <1>4 DEF AdmissionSound, ClaimsPaired
    <3> QED
      BY <3>1, <3>2
  <2>6. \A d \in Authors \cup {c} : call'[d] \in {"answered", "refused"}
    BY <1>3, <1>4, <2>1 DEF AdmissionSound, ClaimsPaired
  <2>7. pruned \subseteq Authors
    BY DEF AdmissionSound, ClaimsPaired
  <2> QED
    BY <1>1, <1>14, <1>16, <2>3, <2>4, <2>5, <2>6, <2>7 DEF ClaimsPaired
<1>18. FilesAccounted'
  <2>1. /\ Authors \ doubtful \subseteq files
        /\ \A d \in files \ Authors :
              call[d] \in {"placed", "crashed"} \/ (call[d] = "refused" /\ Reindex(d))
        /\ \A d \in temporary : call[d] \in {"staged", "crashed"}
    BY DEF AdmissionSound, FilesAccounted, Authors
  <2>2. /\ Authors' \ doubtful' \subseteq files'
        /\ \A d \in files' \ Authors' :
              call'[d] \in {"placed", "crashed"} \/ (call'[d] = "refused" /\ Reindex(d))
        /\ \A d \in temporary' : call'[d] \in {"staged", "crashed"}
    BY <1>1, <1>2, <1>3, <1>4, <1>5, <1>14, <2>1
  <2> QED
    BY <1>16, <2>2 DEF FilesAccounted
<1>19. Typed'
  <2>1. /\ call' \in [Calls -> {"new", "staged", "placed", "answered", "refused", "crashed"}]
        /\ answer' \in [Calls -> Calls \cup {NoCall}]
        /\ files' \subseteq Calls /\ doubtful' \subseteq Calls
    BY <1>2, <1>3
  <2>2. faults' \in 0..MaxFaults
    BY <1>2 DEF Commit, DoubtfulCommit, Fault, Parameters
  <2>3. draft' \in [Calls -> Version]
    BY <1>1 DEF AdmissionSound, Typed
  <2> QED
    BY <1>1, <1>2, <1>11, <1>15, <2>1, <2>2, <2>3 DEF Typed, TypeOK
<1> QED
  BY <1>12, <1>13, <1>17, <1>18, <1>19 DEF AdmissionSound

\* The pipeline moves the active version under the same lock.
LEMMA PipelineSound ==
    ASSUME AdmissionSound, Delete \/ \E v \in versions : Activate(v)
    PROVE  AdmissionSound'
<1>1. /\ UNCHANGED <<body, call, answer, temporary, files, draft, versions, claims, pruned,
                     doubtful, faults>>
      /\ active' = 0 \/ \E v \in versions : v.document = Document /\ active' = v.number
  BY DEF Delete, Activate
<1>2. /\ \A d : Claim(d)' = Claim(d) /\ Rows(d)' = Rows(d) /\ DocumentOf(d)' = DocumentOf(d)
      /\ Used' = Used /\ Authors' = Authors /\ \A d : Reindex(d)' = Reindex(d)
  BY <1>1 DEF Claim, Reindex, Rows, DocumentOf, Used, Units, Authors
<1>3. active' \in Nat
  BY <1>1 DEF AdmissionSound, Typed, TypeOK, Version
<1>4. Typed'
  BY <1>1, <1>3 DEF AdmissionSound, Typed, TypeOK, Units
<1>5. Numbered'
  BY <1>1, <1>2 DEF AdmissionSound, Numbered, Rows
<1>6. OneAtWork' /\ ClaimsPaired' /\ FilesAccounted'
  BY <1>1, <1>2 DEF AdmissionSound, OneAtWork, ClaimsPaired, FilesAccounted
<1> QED
  BY <1>4, <1>5, <1>6 DEF AdmissionSound

\* A pruned claim may be claimed again, so its version is no longer the only one of its key.
LEMMA PruneSound ==
    ASSUME Parameters, AdmissionSound, NEW k \in Operations \X Keys, Prune(k)
    PROVE  AdmissionSound'
<1>1. /\ claims[k].status = "completed" /\ claims' = [claims EXCEPT ![k] = Claims!NoRow]
      /\ pruned' = pruned \cup {claims[k].response}
      /\ UNCHANGED <<body, call, answer, temporary, files, draft, versions, active, doubtful,
                     faults>>
  BY DEF Prune
<1>2. /\ \A d : Claim(d)' = Claim(d) /\ Rows(d)' = Rows(d) /\ DocumentOf(d)' = DocumentOf(d)
      /\ Used' = Used /\ Authors' = Authors /\ \A d : Reindex(d)' = Reindex(d)
  BY <1>1 DEF Claim, Reindex, Rows, DocumentOf, Used, Units, Authors
<1>3. claims \in [Operations \X Keys -> Claims!Row] /\ Authors \subseteq Calls
  BY DEF AdmissionSound, Typed, TypeOK, Authors, Version
<1>4. claims[k].response \in Authors /\ Claim(claims[k].response) = k
  BY <1>1 DEF AdmissionSound, ClaimsPaired
<1>5. /\ claims' \in [Operations \X Keys -> Claims!Row] /\ claims'[k].status = "absent"
      /\ \A x \in (Operations \X Keys) \ {k} : claims'[x] = claims[x]
  BY <1>1, <1>3 DEF Claims!NoRow, Claims!Row, Claims!RowStatus
<1>6. Typed'
  BY <1>1, <1>3, <1>4, <1>5 DEF AdmissionSound, Typed, TypeOK, Units
<1>7. Numbered' /\ FilesAccounted'
  BY <1>1, <1>2 DEF AdmissionSound, Numbered, FilesAccounted
<1>8. OneAtWork'
  BY <1>1, <1>2, <1>5, ClaimRow DEF AdmissionSound, OneAtWork
<1>9. ClaimsPaired'
  <2>1. \A x \in Operations \X Keys :
          \/ claims'[x].status = "absent"
          \/ /\ claims'[x].status = "completed"
             /\ claims'[x].response \in Authors \ pruned' /\ Claim(claims'[x].response) = x
    BY <1>1, <1>4, <1>5 DEF AdmissionSound, ClaimsPaired
  <2>2. \A c \in Authors \ pruned' : Claim(c) \in (Operations \X Keys) \ {k}
    BY <1>1, <1>3, ClaimRow DEF AdmissionSound, ClaimsPaired
  <2>3. \A c \in Authors \ pruned' :
          claims'[Claim(c)].status = "completed" /\ claims'[Claim(c)].response = c
    BY <1>1, <1>5, <2>2 DEF AdmissionSound, ClaimsPaired
  <2> QED
    BY <1>1, <1>2, <1>4, <2>1, <2>3 DEF AdmissionSound, ClaimsPaired
<1> QED
  BY <1>6, <1>7, <1>8, <1>9 DEF AdmissionSound

LEMMA AdmissionStep == Parameters /\ AdmissionSound /\ [Next]_vars => AdmissionSound'
<1> SUFFICES ASSUME Parameters, AdmissionSound, [Next]_vars PROVE AdmissionSound'
  OBVIOUS
<1>1. CASE UNCHANGED vars
  <2>1. /\ \A d : Claim(d)' = Claim(d) /\ Rows(d)' = Rows(d) /\ DocumentOf(d)' = DocumentOf(d)
        /\ Used' = Used /\ Authors' = Authors /\ \A d : Reindex(d)' = Reindex(d)
    BY <1>1 DEF vars, Claim, Reindex, Rows, DocumentOf, Used, Units, Authors
  <2> QED
    BY <1>1, <2>1 DEF vars, AdmissionSound, Typed, TypeOK, Numbered, OneAtWork, ClaimsPaired,
                      FilesAccounted, Units
<1> QED
  BY <1>1, QuietSound, PlaceSound, StoredSound, PipelineSound, PruneSound DEF Next, Step

-------------------------------------------------------------------------------

LEMMA SoundIsAdmissionInv == Parameters /\ AdmissionSound => AdmissionInv
<1> SUFFICES ASSUME Parameters, AdmissionSound PROVE AdmissionInv
  OBVIOUS
<1>1. Authors \subseteq Calls
  BY DEF AdmissionSound, Typed, TypeOK, Authors, Version
<1>2. NumberedWithinQuota
  <2>1. {v.document : v \in versions} \subseteq Documents
    BY DEF AdmissionSound, Typed, TypeOK, Version, Documents
  <2> QED
    BY <2>1 DEF NumberedWithinQuota, AdmissionSound, OneAtWork, Numbered, Rows
<1>3. OncePerKey
  <2> SUFFICES ASSUME NEW c \in Calls, NEW d \in Calls, Claim(c) = Claim(d)
               PROVE  /\ {c, d} \subseteq Authors \ pruned => c = d
                      /\ call[c] = "answered" =>
                            /\ answer[c] \in Authors /\ Claim(answer[c]) = Claim(c)
                            /\ call[d] = "answered" /\ {answer[c], answer[d]} \cap pruned = {} =>
                                  answer[c] = answer[d]
    BY DEF OncePerKey
  <2>1. \A e \in Authors \ pruned : claims[Claim(e)].response = e
    BY DEF AdmissionSound, ClaimsPaired
  <2>2. \A e \in Calls : call[e] = "answered" =>
          answer[e] \in Authors /\ Claim(answer[e]) = Claim(e)
    BY DEF AdmissionSound, ClaimsPaired
  <2>3. {c, d} \subseteq Authors \ pruned => c = d
    BY <2>1
  <2>4. call[c] = "answered" /\ call[d] = "answered" /\ {answer[c], answer[d]} \cap pruned = {} =>
          answer[c] = answer[d]
    BY <2>1, <2>2
  <2> QED
    BY <2>2, <2>3, <2>4
<1> QED
  BY <1>2, <1>3 DEF AdmissionSound, Typed, AdmissionInv

\* Whatever uploads and reindexings run side by side, fail, are repeated under their key or
\* are killed, and whichever claims are pruned: versions are numbered without a gap and
\* within the quota, a key admits one while its claim is kept and everybody who is answered
\* meanwhile is told of that one, and files and rows belong together but for a commit whose
\* outcome was unknown and a copy that failed.
THEOREM AdmissionHolds ==
    ASSUME Parameters
    PROVE  Spec => []AdmissionInv
<1>1. Init => AdmissionSound
  BY SoundInit
<1>2. AdmissionSound /\ [Next]_vars => AdmissionSound'
  BY AdmissionStep
<1>3. AdmissionSound => AdmissionInv
  BY SoundIsAdmissionInv
<1> QED
  BY <1>1, <1>2, <1>3, PTL DEF Spec

================================================================================
