------------------------------- MODULE ChatProofs -------------------------------
(***************************************************************************)
(* The inductive invariant of Chat, and what follows from it: one stream   *)
(* at a time under a key whose streams are quick, completed claims that    *)
(* stay, and the implementation of Exchange.  And the inductive invariants *)
(* of ScopeHints, AnswerStream, CitationSanitizer, Ranking and Reranker,   *)
(* the parts "hints", "stream", "citations", "ranking" and "rerank" of     *)
(* MCQuestion.                                                             *)
(***************************************************************************)
EXTENDS MCQuestion, DataLemmas

\* A claim is owned only if there was no row, or one of the same request that is
\* failed or has expired: claim_idempotency, core/idempotency.py:92-115.
LEMMA OwnedOutcome ==
    ASSUME NEW row \in Row, NEW request \in Requests, NEW expired \in BOOLEAN,
           Outcome(row, request, expired) \in Owned
    PROVE  \/ /\ row.status = "absent"
              /\ Outcome(row, request, expired) = "claimed"
           \/ /\ row.status \in {"in_progress", "failed"}
              /\ row.hash = request
              /\ row.status = "in_progress" => expired
              /\ Outcome(row, request, expired) = "recovered"
  BY DEF Outcome, Owned, Row, RowStatus

\* Only a completed claim is replayed, and only to its own request.
LEMMA ReplayedOutcome ==
    ASSUME NEW row \in Row, NEW request \in Requests, NEW expired \in BOOLEAN,
           Outcome(row, request, expired) = "replay"
    PROVE  row.status = "completed" /\ row.hash = request
  BY DEF Outcome, Row, RowStatus

\* The row an accepted attempt finds, in terms of the two tables accept looks at.
LEMMA AcceptedRow ==
    ASSUME ChatInv, NEW a \in Attempts, Accept(a)
    PROVE  \/ /\ claim[KeyOf[a]].status = "absent"
              /\ \A p \in asked : ClientId[p] # ClientId[RequestOf[a]]
              /\ RequestOf[a] \notin asked
              /\ asked' = asked \cup {RequestOf[a]}
           \/ /\ claim[KeyOf[a]].status \in {"in_progress", "failed"}
              /\ claim[KeyOf[a]].hash = RequestOf[a]
              /\ claim[KeyOf[a]].status = "in_progress" =>
                    claim[KeyOf[a]].claimer \in overdue
              /\ RequestOf[a] \in asked
              /\ asked' = asked
<1> DEFINE k == KeyOf[a]
           expired == claim[k].claimer \in overdue
<1>1. /\ k \in Keys /\ RequestOf[a] \in Requests /\ claim[k] \in Row
      /\ expired \in BOOLEAN
  BY ChatAssumption DEF ChatInv, TypeOK
<1>2. OutcomeOf(a) = Outcome(claim[k], RequestOf[a], expired)
  BY DEF OutcomeOf
<1>3. OutcomeOf(a) \in Owned /\ ~Misused(a)
  BY DEF Accept
<1>4. asked' = IF \E p \in asked : ClientId[p] = ClientId[RequestOf[a]]
               THEN asked ELSE asked \cup {RequestOf[a]}
  BY DEF Accept
<1> HIDE DEF k, expired
<1>5. CASE claim[k].status = "absent" /\ OutcomeOf(a) = "claimed"
  <2>1. \A p \in asked : ClientId[p] # ClientId[RequestOf[a]]
    BY <1>3, <1>5 DEF Misused
  <2> QED
    BY <1>4, <1>5, <2>1 DEF k
<1>6. CASE /\ claim[k].status \in {"in_progress", "failed"}
           /\ claim[k].hash = RequestOf[a]
           /\ claim[k].status = "in_progress" => expired
  <2>1. RequestOf[a] \in asked
    BY <1>1, <1>6 DEF ChatInv, RowsAreQuestions
  <2> QED
    BY <1>4, <1>6, <2>1 DEF k, expired
<1> QED
  BY <1>1, <1>2, <1>3, <1>5, <1>6, OwnedOutcome

\* No request has been made.
LEMMA ChatInvInit == Init => ChatInv
<1> SUFFICES ASSUME Init PROVE ChatInv
  OBVIOUS
<1>1. NoRow \in Row
  BY DEF NoRow, Row, RowStatus
<1>2. TypeOK
  BY <1>1 DEF Init, TypeOK, Attempt
<1>3. RowsAreQuestions /\ RowsMatchAnswers /\ OneAnswerEach
  BY DEF Init, RowsAreQuestions, RowsMatchAnswers, OneAnswerEach, NoRow
<1>4. AttemptsKeepToTheirQuestion
  BY DEF Init, AttemptsKeepToTheirQuestion, Owns
<1>5. QuickStreamsOwnTheirClaim
  BY ClaimsAssumption DEF Init, QuickStreamsOwnTheirClaim, Owns, NoRow
<1> QED
  BY <1>2, <1>3, <1>4, <1>5 DEF ChatInv

-------------------------------------------------------------------------------
(* The transactions on a claim *)

\* The claim and the question are stored together.
LEMMA AcceptInv ==
    ASSUME ChatInv, NEW a \in Attempts, Accept(a)
    PROVE  ChatInv'
<1> DEFINE k == KeyOf[a]
<1>1. k \in Keys /\ RequestOf[a] \in Requests
  BY ChatAssumption
<1>2. /\ claim' = [claim EXCEPT ![k] = ClaimedRow(RequestOf[a], a)]
      /\ attempt[a].pc = "new"
      /\ attempt' = [attempt EXCEPT ![a].pc = "streaming"]
      /\ UNCHANGED <<stored, told, overdue>>
  BY DEF Accept, Goto
<1>3. TypeOK'
  <2>1. ClaimedRow(RequestOf[a], a) \in Row
    BY <1>1 DEF ClaimedRow, Row, RowStatus
  <2>2. asked' \subseteq Requests
    BY <1>1, AcceptedRow DEF ChatInv, TypeOK
  <2> QED
    BY <1>1, <1>2, <2>1, <2>2 DEF ChatInv, TypeOK, Attempt
<1>4. /\ claim'[k] = ClaimedRow(RequestOf[a], a)
      /\ \A l \in Keys \ {k} : claim'[l] = claim[l]
      /\ \A b \in Attempts \ {a} : attempt'[b] = attempt[b]
      /\ attempt'[a].pc = "streaming"
  BY <1>1, <1>2 DEF ChatInv, TypeOK
<1>5. /\ claim'[k].status = "in_progress"
      /\ claim'[k].hash = RequestOf[a]
      /\ claim'[k].claimer = a
  BY <1>4 DEF ClaimedRow
<1>6. asked \subseteq asked' /\ RequestOf[a] \in asked'
  BY AcceptedRow
<1> HIDE DEF k
<1>7. RowsAreQuestions'
  <2>1. ASSUME NEW l \in Keys \ {k}, claim[l].status # "absent"
        PROVE  claim[l].hash # RequestOf[a]
    BY <1>1, <2>1, AcceptedRow DEF k, ChatInv, RowsAreQuestions
  <2> QED
    BY <1>1, <1>4, <1>5, <1>6, <2>1 DEF ChatInv, RowsAreQuestions
<1>8. RowsMatchAnswers'
  <2>1. \A b \in stored : RequestOf[b] # RequestOf[a]
    BY <1>1, AcceptedRow DEF k, ChatInv, RowsMatchAnswers, OneAnswerEach
  <2> QED
    BY <1>1, <1>2, <1>4, <1>5, <2>1 DEF ChatInv, RowsMatchAnswers
<1>9. OneAnswerEach'
  BY <1>2, <1>6 DEF ChatInv, OneAnswerEach
<1>10. AttemptsKeepToTheirQuestion'
  <2>1. ASSUME NEW b \in Attempts, Owns(b)'
        PROVE  claim'[KeyOf[b]].status # "absent" /\ claim'[KeyOf[b]].hash = RequestOf[b]
    <3>1. CASE b = a
      BY <1>5, <3>1 DEF k
    <3>2. CASE b # a
      <4>1. /\ Owns(b) /\ KeyOf[b] \in Keys
            /\ claim[KeyOf[b]].status # "absent" /\ claim[KeyOf[b]].hash = RequestOf[b]
        BY <1>4, <2>1, <3>2, ChatAssumption DEF Owns, ChatInv, AttemptsKeepToTheirQuestion
      <4> QED
        BY <1>4, <1>5, <4>1, AcceptedRow DEF k
    <3> QED
      BY <3>1, <3>2
  <2>2. ASSUME NEW b \in Attempts, attempt'[b].pc \in {"sending", "replaying"}
        PROVE  attempt'[b].answer \in stored' /\ RequestOf[attempt'[b].answer] = RequestOf[b]
    BY <1>2, <1>4, <2>2 DEF ChatInv, AttemptsKeepToTheirQuestion
  <2>3. \A pair \in told' : pair[2] \in stored' /\ RequestOf[pair[2]] = pair[1]
    BY <1>2 DEF ChatInv, AttemptsKeepToTheirQuestion
  <2> QED
    BY <2>1, <2>2, <2>3 DEF AttemptsKeepToTheirQuestion
<1>11. QuickStreamsOwnTheirClaim'
  <2>1. ASSUME NEW b \in Attempts, attempt'[b].pc = "new"
        PROVE  b \notin overdue' /\ \A l \in Keys : claim'[l].claimer # b
    BY <1>2, <1>4, <1>5, <2>1 DEF ChatInv, QuickStreamsOwnTheirClaim
  <2>2. ASSUME NEW b \in Attempts, Owns(b)', KeyOf[b] \notin SlowKeys
        PROVE  /\ claim'[KeyOf[b]].claimer = b
               /\ claim'[KeyOf[b]].status \in {"in_progress", "completed"}
               /\ b \notin overdue'
    <3>1. CASE b = a
      BY <1>2, <1>5, <3>1 DEF k, ChatInv, QuickStreamsOwnTheirClaim
    <3>2. CASE b # a
      <4>1. /\ KeyOf[b] \in Keys
            /\ claim[KeyOf[b]].claimer = b
            /\ claim[KeyOf[b]].status \in {"in_progress", "completed"}
            /\ b \notin overdue
        BY <1>4, <2>2, <3>2, ChatAssumption DEF Owns, ChatInv, QuickStreamsOwnTheirClaim
      <4>2. KeyOf[b] # k
        BY <4>1, AcceptedRow DEF k
      <4> QED
        BY <1>2, <1>4, <4>1, <4>2
    <3> QED
      BY <3>1, <3>2
  <2> QED
    BY <2>1, <2>2 DEF QuickStreamsOwnTheirClaim
<1> QED
  BY <1>3, <1>7, <1>8, <1>9, <1>10, <1>11 DEF ChatInv

\* Two attempts with the same quick key are not at work at the same time.
LEMMA QuickOwnersAlone ==
    ASSUME ChatInv, NEW a \in Attempts, NEW b \in Attempts,
           Owns(a), Owns(b), KeyOf[a] = KeyOf[b], KeyOf[a] \notin SlowKeys
    PROVE  a = b
  BY DEF ChatInv, QuickStreamsOwnTheirClaim

\* The answer and the completed claim are committed together.
LEMMA PersistInv ==
    ASSUME ChatInv, NEW a \in Attempts, Persist(a)
    PROVE  ChatInv'
<1> DEFINE k == KeyOf[a]
<1>1. k \in Keys /\ RequestOf[a] \in Requests
  BY ChatAssumption
<1>2. /\ claim' = [claim EXCEPT ![k] = CompletedRow(claim[k], a)]
      /\ stored' = stored \cup {a}
      /\ attempt' = [attempt EXCEPT ![a] = [pc |-> "sending", answer |-> a]]
      /\ claim[k].status = "in_progress"
      /\ Owns(a)
      /\ UNCHANGED <<asked, told, overdue>>
  BY DEF Persist, Completable, Owns
<1>3. claim[k].hash = RequestOf[a]
  BY <1>2 DEF ChatInv, AttemptsKeepToTheirQuestion
<1>4. TypeOK'
  <2>1. CompletedRow(claim[k], a) \in Row
    BY <1>1, ZenonT(60) DEF CompletedRow, ChatInv, TypeOK, Row, RowStatus
  <2> QED
    BY <1>1, <1>2, <2>1 DEF ChatInv, TypeOK, Attempt
<1>5. /\ claim'[k].status = "completed"
      /\ claim'[k].response = a
      /\ claim'[k].hash = claim[k].hash
      /\ claim'[k].claimer = claim[k].claimer
      /\ \A l \in Keys \ {k} : claim'[l] = claim[l]
  BY <1>1, <1>2 DEF CompletedRow, ChatInv, TypeOK, Row
<1>6. /\ attempt'[a] = [pc |-> "sending", answer |-> a]
      /\ \A b \in Attempts \ {a} : attempt'[b] = attempt[b]
  BY <1>2 DEF ChatInv, TypeOK
<1> HIDE DEF k
<1>7. RowsAreQuestions'
  BY <1>1, <1>2, <1>5 DEF ChatInv, RowsAreQuestions
<1>8. RowsMatchAnswers'
  <2>1. \A l \in Keys \ {k} : claim[l].status # "absent" => claim[l].hash # RequestOf[a]
    BY <1>1, <1>2, <1>3 DEF ChatInv, RowsAreQuestions
  <2> QED
    BY <1>1, <1>2, <1>3, <1>5, <2>1 DEF ChatInv, RowsMatchAnswers
<1>9. OneAnswerEach'
  <2>1. \A b \in stored : RequestOf[b] # RequestOf[a]
    BY <1>1, <1>2, <1>3 DEF ChatInv, RowsMatchAnswers
  <2>2. RequestOf[a] \in asked
    BY <1>1, <1>2, <1>3 DEF ChatInv, RowsAreQuestions
  <2> QED
    BY <1>2, <2>1, <2>2 DEF ChatInv, OneAnswerEach
<1>10. AttemptsKeepToTheirQuestion'
  <2>1. ASSUME NEW b \in Attempts, Owns(b)'
        PROVE  claim'[KeyOf[b]].status # "absent" /\ claim'[KeyOf[b]].hash = RequestOf[b]
    BY <1>2, <1>5, <1>6, <2>1, ChatAssumption
       DEF Owns, ChatInv, AttemptsKeepToTheirQuestion
  <2>2. ASSUME NEW b \in Attempts, attempt'[b].pc \in {"sending", "replaying"}
        PROVE  attempt'[b].answer \in stored' /\ RequestOf[attempt'[b].answer] = RequestOf[b]
    BY <1>2, <1>6, <2>2 DEF ChatInv, AttemptsKeepToTheirQuestion
  <2>3. \A pair \in told' : pair[2] \in stored' /\ RequestOf[pair[2]] = pair[1]
    BY <1>2 DEF ChatInv, AttemptsKeepToTheirQuestion
  <2> QED
    BY <2>1, <2>2, <2>3 DEF AttemptsKeepToTheirQuestion
<1>11. QuickStreamsOwnTheirClaim'
  <2>1. ASSUME NEW b \in Attempts, attempt'[b].pc = "new"
        PROVE  b \notin overdue' /\ \A l \in Keys : claim'[l].claimer # b
    BY <1>1, <1>2, <1>5, <1>6, <2>1 DEF ChatInv, QuickStreamsOwnTheirClaim
  <2>2. ASSUME NEW b \in Attempts, Owns(b)', KeyOf[b] \notin SlowKeys
        PROVE  /\ claim'[KeyOf[b]].claimer = b
               /\ claim'[KeyOf[b]].status \in {"in_progress", "completed"}
               /\ b \notin overdue'
    <3>1. CASE b = a
      BY <1>1, <1>2, <1>5, <2>2, <3>1 DEF k, ChatInv, QuickStreamsOwnTheirClaim
    <3>2. CASE b # a
      <4>1. Owns(b)
        BY <1>6, <2>2, <3>2 DEF Owns
      <4>2. KeyOf[b] # k
        BY <1>2, <2>2, <3>2, <4>1, QuickOwnersAlone DEF k
      <4> QED
        BY <1>2, <1>5, <2>2, <4>1, <4>2, ChatAssumption
           DEF ChatInv, QuickStreamsOwnTheirClaim
    <3> QED
      BY <3>1, <3>2
  <2> QED
    BY <2>1, <2>2 DEF QuickStreamsOwnTheirClaim
<1> QED
  BY <1>4, <1>7, <1>8, <1>9, <1>10, <1>11 DEF ChatInv

\* A failing attempt leaves a claim that a later request may take over.
LEMMA FailInv ==
    ASSUME ChatInv, NEW a \in Attempts, Fail(a)
    PROVE  ChatInv'
<1> DEFINE k == KeyOf[a]
<1>1. k \in Keys
  BY ChatAssumption
<1>2. /\ claim' = [claim EXCEPT ![k] = FailedRow(claim[k])]
      /\ attempt' = [attempt EXCEPT ![a].pc = "done"]
      /\ Owns(a)
      /\ UNCHANGED <<asked, stored, told, overdue>>
  BY DEF Fail, Goto, Owns
<1>3. TypeOK'
  <2>1. FailedRow(claim[k]) \in Row
    BY <1>1 DEF FailedRow, ChatInv, TypeOK, Row, RowStatus
  <2> QED
    BY <1>1, <1>2, <2>1 DEF ChatInv, TypeOK, Attempt
<1>4. /\ \/ claim'[k] = claim[k]
         \/ claim[k].status \in {"in_progress", "failed"} /\ claim'[k].status = "failed"
      /\ claim'[k].hash = claim[k].hash
      /\ claim'[k].claimer = claim[k].claimer
      /\ \A l \in Keys \ {k} : claim'[l] = claim[l]
  BY <1>1, <1>2 DEF FailedRow, ChatInv, TypeOK, Row, RowStatus
<1>5. /\ attempt'[a].pc = "done"
      /\ \A b \in Attempts \ {a} : attempt'[b] = attempt[b]
  BY <1>2 DEF ChatInv, TypeOK
<1> HIDE DEF k
<1>6. RowsAreQuestions'
  BY <1>1, <1>2, <1>4 DEF ChatInv, RowsAreQuestions
<1>7. RowsMatchAnswers'
  BY <1>1, <1>2, <1>4 DEF ChatInv, RowsMatchAnswers
<1>8. OneAnswerEach'
  BY <1>2 DEF ChatInv, OneAnswerEach
<1>9. AttemptsKeepToTheirQuestion'
  <2>1. ASSUME NEW b \in Attempts, Owns(b)'
        PROVE  claim'[KeyOf[b]].status # "absent" /\ claim'[KeyOf[b]].hash = RequestOf[b]
    BY <1>4, <1>5, <2>1, ChatAssumption DEF Owns, ChatInv, AttemptsKeepToTheirQuestion
  <2> QED
    BY <1>2, <1>5, <2>1 DEF ChatInv, AttemptsKeepToTheirQuestion
<1>10. QuickStreamsOwnTheirClaim'
  <2>1. ASSUME NEW b \in Attempts, attempt'[b].pc = "new"
        PROVE  b \notin overdue' /\ \A l \in Keys : claim'[l].claimer # b
    BY <1>1, <1>2, <1>4, <1>5, <2>1 DEF ChatInv, QuickStreamsOwnTheirClaim
  <2>2. ASSUME NEW b \in Attempts, Owns(b)', KeyOf[b] \notin SlowKeys
        PROVE  /\ claim'[KeyOf[b]].claimer = b
               /\ claim'[KeyOf[b]].status \in {"in_progress", "completed"}
               /\ b \notin overdue'
    <3>1. b # a /\ Owns(b)
      BY <1>5, <2>2 DEF Owns
    <3>2. KeyOf[b] # k
      BY <1>2, <2>2, <3>1, QuickOwnersAlone DEF k
    <3> QED
      BY <1>2, <1>4, <2>2, <3>1, <3>2, ChatAssumption
         DEF ChatInv, QuickStreamsOwnTheirClaim
  <2> QED
    BY <2>1, <2>2 DEF QuickStreamsOwnTheirClaim
<1> QED
  BY <1>3, <1>6, <1>7, <1>8, <1>9, <1>10 DEF ChatInv

\* By the time a claim is pruned nobody can answer under it.
LEMMA PruneInv ==
    ASSUME ChatInv, NEW k \in Keys, Prune(k)
    PROVE  ChatInv'
<1>1. /\ claim' = [claim EXCEPT ![k] = NoRow]
      /\ \A a \in Attempts : KeyOf[a] = k => ~Owns(a)
      /\ UNCHANGED <<asked, stored, told, attempt, overdue>>
  BY DEF Prune
<1>2. TypeOK'
  BY <1>1 DEF ChatInv, TypeOK, NoRow, Row, RowStatus
<1>3. /\ claim'[k].status = "absent"
      /\ claim'[k].claimer \notin Attempts
      /\ \A l \in Keys \ {k} : claim'[l] = claim[l]
  BY <1>1, ClaimsAssumption DEF NoRow, ChatInv, TypeOK
<1>4. RowsAreQuestions' /\ RowsMatchAnswers' /\ OneAnswerEach'
  BY <1>1, <1>3 DEF ChatInv, RowsAreQuestions, RowsMatchAnswers, OneAnswerEach
<1>5. AttemptsKeepToTheirQuestion'
  BY <1>1, <1>3, ChatAssumption DEF ChatInv, AttemptsKeepToTheirQuestion, Owns
<1>6. QuickStreamsOwnTheirClaim'
  BY <1>1, <1>3, ChatAssumption DEF ChatInv, QuickStreamsOwnTheirClaim, Owns
<1> QED
  BY <1>2, <1>4, <1>5, <1>6 DEF ChatInv

-------------------------------------------------------------------------------
(* Steps that leave the claims and the messages alone *)

\* An attempt moves on, and nothing is stored: it starts no work, and what it is to
\* send or has sent is the stored answer to its question.
LEMMA QuietChatStep ==
    ASSUME ChatInv, UNCHANGED <<claim, asked, stored, overdue>>, TypeOK', NEW a \in Attempts,
           attempt[a].pc # "done",
           \A b \in Attempts \ {a} : attempt'[b] = attempt[b],
           attempt'[a].pc # "new",
           Owns(a)' => Owns(a),
           attempt'[a].pc \in {"sending", "replaying"} =>
               attempt'[a].answer \in stored /\ RequestOf[attempt'[a].answer] = RequestOf[a],
           \A pair \in told' : pair[2] \in stored /\ RequestOf[pair[2]] = pair[1]
    PROVE  ChatInv'
<1>1. RowsAreQuestions' /\ RowsMatchAnswers' /\ OneAnswerEach'
  BY DEF ChatInv, RowsAreQuestions, RowsMatchAnswers, OneAnswerEach
<1>2. \A b \in Attempts : Owns(b)' => Owns(b)
  BY DEF Owns
<1>3. AttemptsKeepToTheirQuestion'
  <2>1. \A b \in Attempts : attempt'[b].pc \in {"sending", "replaying"} =>
           attempt'[b].answer \in stored /\ RequestOf[attempt'[b].answer] = RequestOf[b]
    BY DEF ChatInv, AttemptsKeepToTheirQuestion
  <2> QED
    BY <1>2, <2>1 DEF ChatInv, AttemptsKeepToTheirQuestion
<1>4. QuickStreamsOwnTheirClaim'
  BY <1>2 DEF ChatInv, QuickStreamsOwnTheirClaim
<1> QED
  BY <1>1, <1>3, <1>4 DEF ChatInv

\* Steps that leave the claims alone.
LEMMA MoveOnInv ==
    ASSUME ChatInv, NEW a \in Attempts, TurnAway(a) \/ StreamFails(a) \/ Cut(a)
    PROVE  ChatInv'
<1>1. /\ attempt[a].pc # "done"
      /\ \/ attempt' = [attempt EXCEPT ![a].pc = "done"]
         \/ /\ attempt[a].pc \in {"streaming", "sending"}
            /\ attempt' = [attempt EXCEPT ![a].pc = "failing"]
      /\ UNCHANGED <<claim, asked, stored, told, overdue>>
  BY DEF TurnAway, StreamFails, Cut, Goto
<1>2. TypeOK'
  BY <1>1 DEF ChatInv, TypeOK, Attempt
<1>3. /\ \A b \in Attempts \ {a} : attempt'[b] = attempt[b]
      /\ \/ attempt'[a].pc = "done"
         \/ attempt'[a].pc = "failing" /\ attempt[a].pc \in {"streaming", "sending"}
  <2>1. attempt \in [Attempts -> Attempt] /\ attempt[a] \in Attempt
    BY DEF ChatInv, TypeOK
  <2>2. CASE attempt' = [attempt EXCEPT ![a].pc = "done"]
    BY <2>1, <2>2 DEF Attempt
  <2>3. CASE /\ attempt[a].pc \in {"streaming", "sending"}
             /\ attempt' = [attempt EXCEPT ![a].pc = "failing"]
    BY <2>1, <2>3 DEF Attempt
  <2> QED
    BY <1>1, <2>2, <2>3
<1>4. Owns(a)' => Owns(a)
  BY <1>3 DEF Owns
<1> QED
  BY <1>1, <1>2, <1>3, <1>4, QuietChatStep DEF ChatInv, AttemptsKeepToTheirQuestion

\* A completed claim answers for the attempt that completed it.
LEMMA ReplayInv ==
    ASSUME ChatInv, NEW a \in Attempts, Replay(a)
    PROVE  ChatInv'
<1> DEFINE k == KeyOf[a]
<1>1. /\ k \in Keys /\ RequestOf[a] \in Requests /\ claim[k] \in Row
      /\ (claim[k].claimer \in overdue) \in BOOLEAN
  BY ChatAssumption DEF ChatInv, TypeOK
<1>2. /\ attempt' = [attempt EXCEPT ![a] = [pc |-> "replaying", answer |-> claim[k].response]]
      /\ attempt[a].pc = "new"
      /\ UNCHANGED <<claim, asked, stored, told, overdue>>
  BY DEF Replay
<1>3. claim[k].status = "completed" /\ claim[k].hash = RequestOf[a]
  BY <1>1, ReplayedOutcome DEF Replay, OutcomeOf
<1>4. claim[k].response \in stored /\ RequestOf[claim[k].response] = RequestOf[a]
  BY <1>1, <1>3 DEF ChatInv, RowsMatchAnswers
<1>5. TypeOK'
  BY <1>2, <1>4 DEF ChatInv, TypeOK, Attempt
<1>6. /\ \A b \in Attempts \ {a} : attempt'[b] = attempt[b]
      /\ attempt'[a] = [pc |-> "replaying", answer |-> claim[k].response]
  BY <1>2 DEF ChatInv, TypeOK
<1>7. ~Owns(a)'
  BY <1>6 DEF Owns
<1> QED
  BY <1>2, <1>4, <1>5, <1>6, <1>7, QuietChatStep DEF ChatInv, AttemptsKeepToTheirQuestion

\* What reaches the client was stored.
LEMMA SendInv ==
    ASSUME ChatInv, NEW a \in Attempts, Send(a)
    PROVE  ChatInv'
<1>1. /\ attempt[a].pc \in {"sending", "replaying"}
      /\ told' = told \cup {<<RequestOf[a], attempt[a].answer>>}
      /\ attempt' = [attempt EXCEPT ![a].pc = "done"]
      /\ UNCHANGED <<claim, asked, stored, overdue>>
  BY DEF Send, Goto
<1>2. attempt[a].answer \in stored /\ RequestOf[attempt[a].answer] = RequestOf[a]
  BY <1>1 DEF ChatInv, AttemptsKeepToTheirQuestion
<1>3. TypeOK'
  <2>1. told' \subseteq Requests \X Attempts
    <3>1. RequestOf[a] \in Requests /\ attempt[a].answer \in Attempts
      BY <1>2, ChatAssumption DEF ChatInv, TypeOK
    <3> QED
      BY <1>1, <3>1 DEF ChatInv, TypeOK
  <2>2. attempt' \in [Attempts -> Attempt]
    BY <1>1 DEF ChatInv, TypeOK, Attempt
  <2> QED
    BY <1>1, <2>1, <2>2 DEF ChatInv, TypeOK
<1>4. /\ \A b \in Attempts \ {a} : attempt'[b] = attempt[b]
      /\ attempt'[a].pc = "done"
  BY <1>1 DEF ChatInv, TypeOK
<1>5. ~Owns(a)'
  BY <1>4 DEF Owns
<1>6. \A pair \in told' : pair[2] \in stored /\ RequestOf[pair[2]] = pair[1]
  BY <1>1, <1>2 DEF ChatInv, AttemptsKeepToTheirQuestion
<1> QED
  BY <1>1, <1>3, <1>4, <1>5, <1>6, QuietChatStep

\* The time to live of a claim runs out.
LEMMA TimeOutInv ==
    ASSUME ChatInv, NEW a \in Attempts, TimeOut(a)
    PROVE  ChatInv'
<1>1. /\ overdue' = overdue \cup {a}
      /\ KeyOf[a] \in SlowKeys \/ ~Owns(a)
      /\ attempt[a].pc # "new"
      /\ UNCHANGED <<claim, asked, stored, told, attempt>>
  BY DEF TimeOut, ChatInv, QuickStreamsOwnTheirClaim
<1>2. TypeOK' /\ RowsAreQuestions' /\ RowsMatchAnswers' /\ OneAnswerEach'
  BY <1>1 DEF ChatInv, TypeOK, RowsAreQuestions, RowsMatchAnswers, OneAnswerEach
<1>3. AttemptsKeepToTheirQuestion'
  BY <1>1 DEF ChatInv, AttemptsKeepToTheirQuestion, Owns
<1>4. QuickStreamsOwnTheirClaim'
  BY <1>1 DEF ChatInv, QuickStreamsOwnTheirClaim, Owns
<1> QED
  BY <1>2, <1>3, <1>4 DEF ChatInv

-------------------------------------------------------------------------------
(* Theorems *)

\* Every step keeps the invariant.
LEMMA StepInv == ChatInv /\ [Next]_vars => ChatInv'
<1> SUFFICES ASSUME ChatInv, [Next]_vars PROVE ChatInv'
  OBVIOUS
<1>1. ASSUME NEW a \in Attempts, Accept(a) PROVE ChatInv'
  BY <1>1, AcceptInv
<1>2. ASSUME NEW a \in Attempts, TurnAway(a) \/ StreamFails(a) \/ Cut(a) PROVE ChatInv'
  BY <1>2, MoveOnInv
<1>3. ASSUME NEW a \in Attempts, Replay(a) PROVE ChatInv'
  BY <1>3, ReplayInv
<1>4. ASSUME NEW a \in Attempts, Persist(a) PROVE ChatInv'
  BY <1>4, PersistInv
<1>5. ASSUME NEW a \in Attempts, Fail(a) PROVE ChatInv'
  BY <1>5, FailInv
<1>6. ASSUME NEW a \in Attempts, Send(a) PROVE ChatInv'
  BY <1>6, SendInv
<1>7. ASSUME NEW a \in Attempts, TimeOut(a) PROVE ChatInv'
  BY <1>7, TimeOutInv
<1>8. ASSUME NEW k \in Keys, Prune(k) PROVE ChatInv'
  BY <1>8, PruneInv
<1>9. CASE UNCHANGED vars
  BY <1>9 DEF vars, ChatInv, TypeOK, RowsAreQuestions, RowsMatchAnswers, OneAnswerEach,
       AttemptsKeepToTheirQuestion, QuickStreamsOwnTheirClaim, Owns
<1> QED
  BY <1>1, <1>2, <1>3, <1>4, <1>5, <1>6, <1>7, <1>8, <1>9 DEF Next

\* In every reachable state the claims of core/idempotency.py, the messages and the
\* attempts of chat/orchestrator.py agree.
THEOREM ChatInvariant == Spec => []ChatInv
<1>1. Init => ChatInv
  BY ChatInvInit
<1>2. ChatInv /\ [Next]_vars => ChatInv'
  BY StepInv
<1> QED
  BY <1>1, <1>2, PTL DEF Spec

\* Under a key whose streams end within their time to live at most one attempt is at
\* work: claim_idempotency turns every other one away.
THEOREM OneAttemptAtWork == Spec => []OneOwner
<1>1. ChatInv => OneOwner
  BY QuickOwnersAlone DEF OneOwner
<1> QED
  BY <1>1, ChatInvariant, PTL

\* A completed claim keeps its answer until it is pruned: fail_idempotency and a
\* takeover never undo what _persist committed.
THEOREM CompletedClaimsStay == Spec => CompletedIsFinal
<1>1. ASSUME ChatInv, [Next]_vars, NEW k \in Keys, claim[k].status = "completed"
      PROVE  claim'[k] \in {claim[k], NoRow}
  <2>1. ASSUME NEW a \in Attempts, Accept(a) PROVE claim'[k] = claim[k]
    <3>1. k # KeyOf[a]
      BY <1>1, <2>1, AcceptedRow
    <3>2. claim' = [claim EXCEPT ![KeyOf[a]] = ClaimedRow(RequestOf[a], a)]
      BY <2>1 DEF Accept
    <3> QED
      BY <1>1, <3>1, <3>2 DEF ChatInv, TypeOK
  <2>2. ASSUME NEW a \in Attempts, Persist(a) PROVE claim'[k] = claim[k]
    <3>1. k # KeyOf[a]
      BY <1>1, <2>2 DEF Persist, Completable
    <3>2. claim' = [claim EXCEPT ![KeyOf[a]] = CompletedRow(claim[KeyOf[a]], a)]
      BY <2>2 DEF Persist
    <3> QED
      BY <1>1, <3>1, <3>2 DEF ChatInv, TypeOK
  <2>3. ASSUME NEW a \in Attempts, Fail(a) PROVE claim'[k] = claim[k]
    <3>1. claim' = [claim EXCEPT ![KeyOf[a]] = FailedRow(claim[KeyOf[a]])]
      BY <2>3 DEF Fail
    <3> QED
      BY <1>1, <3>1 DEF FailedRow, ChatInv, TypeOK
  <2>4. ASSUME NEW l \in Keys, Prune(l) PROVE claim'[k] \in {claim[k], NoRow}
    BY <1>1, <2>4 DEF Prune, ChatInv, TypeOK
  <2>5. ASSUME NEW a \in Attempts,
               \/ TurnAway(a) \/ StreamFails(a) \/ Cut(a)
               \/ Replay(a) \/ Send(a) \/ TimeOut(a)
        PROVE  claim'[k] = claim[k]
    BY <2>5 DEF TurnAway, StreamFails, Cut, Replay, Send, TimeOut
  <2> QED
    BY <1>1, <2>1, <2>2, <2>3, <2>4, <2>5 DEF Next, vars
<1>2. ChatInv /\ [Next]_vars =>
        [\A k \in Keys : claim[k].status = "completed" => claim'[k] \in {claim[k], NoRow}]_vars
  BY <1>1
<1> QED
  BY <1>2, ChatInvariant, PTL DEF Spec, CompletedIsFinal

\* An accepted chat request stores its question once, gets one answer, and every
\* client that is answered gets that one: accept, _persist and the replay implement
\* Ask, Answer and Tell of Exchange, and every other step changes nothing there.
THEOREM ChatImplementsExchange == Spec => ImplementsExchange
<1>1. Init => Abstract!Init
  BY DEF Init, Abstract!Init
<1>2. ASSUME ChatInv, [Next]_vars
      PROVE  [Abstract!Next]_(Abstract!vars)
  <2>1. ASSUME NEW a \in Attempts, Accept(a)
        PROVE  Abstract!Ask(RequestOf[a]) \/ UNCHANGED <<asked, stored, told>>
    <3>1. UNCHANGED <<stored, told>>
      BY <2>1 DEF Accept
    <3> QED
      BY <1>2, <2>1, <3>1, AcceptedRow DEF Abstract!Ask
  <2>2. ASSUME NEW a \in Attempts, Persist(a)
        PROVE  Abstract!Answer(RequestOf[a], a)
    <3>1. /\ claim[KeyOf[a]].status = "in_progress"
          /\ stored' = stored \cup {a}
          /\ UNCHANGED <<asked, told>>
          /\ KeyOf[a] \in Keys
          /\ Owns(a)
      BY <2>2, ChatAssumption DEF Persist, Completable, Owns
    <3>2. claim[KeyOf[a]].hash = RequestOf[a]
      BY <1>2, <3>1 DEF ChatInv, AttemptsKeepToTheirQuestion
    <3>3. RequestOf[a] \in asked
      BY <1>2, <3>1, <3>2 DEF ChatInv, RowsAreQuestions
    <3>4. \A b \in stored : RequestOf[b] # RequestOf[a]
      BY <1>2, <3>1, <3>2 DEF ChatInv, RowsMatchAnswers
    <3>5. {<<RequestOf[b], b>> : b \in stored'}
            = {<<RequestOf[b], b>> : b \in stored} \cup {<<RequestOf[a], a>>}
      BY <3>1
    <3> QED
      BY <3>1, <3>3, <3>4, <3>5 DEF Abstract!Answer
  <2>3. ASSUME NEW a \in Attempts, Send(a)
        PROVE  Abstract!Tell(<<RequestOf[a], attempt[a].answer>>)
    <3>1. attempt[a].answer \in stored /\ RequestOf[attempt[a].answer] = RequestOf[a]
      BY <1>2, <2>3 DEF Send, ChatInv, AttemptsKeepToTheirQuestion
    <3>2. <<RequestOf[a], attempt[a].answer>> \in {<<RequestOf[b], b>> : b \in stored}
      BY <3>1
    <3> QED
      BY <2>3, <3>2 DEF Send, Abstract!Tell
  <2>4. ASSUME \/ UNCHANGED vars
               \/ \E k \in Keys : Prune(k)
               \/ \E a \in Attempts :
                     \/ TurnAway(a) \/ StreamFails(a) \/ Cut(a)
                     \/ Replay(a) \/ Fail(a) \/ TimeOut(a)
        PROVE  UNCHANGED <<asked, stored, told>>
    BY <2>4 DEF vars, Prune, TurnAway, StreamFails, Cut, Replay, Fail, TimeOut
  <2>5. UNCHANGED <<asked, stored, told>> => UNCHANGED Abstract!vars
    BY DEF Abstract!vars
  <2>6. ASSUME NEW a \in Attempts, Persist(a) \/ Send(a) \/ Abstract!Ask(RequestOf[a])
        PROVE  Abstract!Next
    <3>1. RequestOf[a] \in Requests /\ a \in Attempts
      BY ChatAssumption
    <3>2. CASE Persist(a)
      BY <2>2, <3>1, <3>2 DEF Abstract!Next
    <3>3. CASE Send(a)
      <4>1. attempt[a].answer \in Attempts
        BY <1>2, <3>3 DEF Send, ChatInv, TypeOK, AttemptsKeepToTheirQuestion
      <4> QED
        BY <2>3, <3>1, <3>3, <4>1 DEF Abstract!Next
    <3>4. CASE Abstract!Ask(RequestOf[a])
      BY <3>1, <3>4 DEF Abstract!Next
    <3> QED
      BY <2>6, <3>2, <3>3, <3>4
  <2> QED
    BY <1>2, <2>1, <2>4, <2>5, <2>6 DEF Next
<1> QED
  BY <1>1, <1>2, ChatInvariant, PTL DEF Spec, ImplementsExchange, Abstract!Spec

-------------------------------------------------------------------------------
(* The hints of a question *)

questionVars ==
    <<part, vars, citationsVars, streamVars, hintsVars, rankingVars, evidenceVars, rerankVars,
      calibrationVars>>

\* Hints match every document or section to some degree, and paths are lists of headings.
HintParameters ==
    /\ IsFiniteSet(Docs)
    /\ DocOf \in [Sections -> Docs]
    /\ \E headings : Path \in [Sections -> Seq(headings)]
    /\ \A posed \in Questions : posed.documentHints \in Seq([Docs -> 0 .. 5])

\* What the documents that hints name leave of the explicit scope.
Narrowed ==
    /\ Scope!Start # {} => allowed # {}
    /\ \A d \in Scope!Start :
          (\E e \in Scope!Start : Scope!Named(e)) => (d \in allowed <=> Scope!Named(d))

HintsSound ==
    /\ question \in Questions
    /\ resolving \in {"explicit", "documents", "collections", "headings", "done"}
    /\ allowed \subseteq Docs
    /\ resolving # "explicit" => allowed \subseteq Scope!Start
    /\ resolving = "documents" => allowed = Scope!Start
    /\ resolving = "collections" => Narrowed
    /\ resolving \in {"headings", "done"} /\ question.collectionHints = <<>> => Narrowed
    /\ resolving = "done" =>
          /\ \A s \in sections : s \in Sections /\ DocOf[s] \in allowed
          /\ \A s \in sections, t \in Sections :
                DocOf[s] = DocOf[t] /\ IsPrefix(Path[s], Path[t]) => t \in sections

-------------------------------------------------------------------------------

\* exact_scope: a hint resolves to the one target that it matches best, by id or name.
LEMMA ResolvedOne ==
    ASSUME NEW among \in SUBSET Docs, IsFiniteSet(Docs), NEW hint \in [Docs -> 0 .. 5],
           NEW d
    PROVE  d \in Scope!Resolved(hint, among) <=>
              /\ d \in among /\ hint[d] >= 3
              /\ \A e \in among \ {d} : hint[e] < hint[d]
<1> DEFINE best == Scope!Best(hint, among)
<1>1. best = {x \in among : hint[x] > 0 /\ \A y \in among : hint[y] <= hint[x]}
  BY DEF Scope!Best
<1>2. IsFiniteSet(best)
  <2>1. best \in SUBSET Docs
    BY <1>1
  <2> HIDE DEF best
  <2> QED
    BY <2>1, FS_Subset
<1>3. Scope!Resolved(hint, among) =
          IF Cardinality(best) = 1 /\ \A x \in best : hint[x] >= 3 THEN best ELSE {}
  BY Zenon DEF Scope!Resolved, Scope!Cardinality, Cardinality
<1> HIDE DEF best
<1>4. ASSUME d \in Scope!Resolved(hint, among)
      PROVE  /\ d \in among /\ hint[d] >= 3
             /\ \A e \in among \ {d} : hint[e] < hint[d]
  <2>1. PICK x : best = {x}
    BY <1>2, <1>3, <1>4, FS_Singleton
  <2>2. best = {d} /\ hint[d] >= 3
    BY <1>3, <1>4, <2>1
  <2>3. d \in among /\ \A y \in among : hint[y] <= hint[d]
    BY <1>1, <2>2
  <2>4. ASSUME NEW e \in among \ {d} PROVE hint[e] < hint[d]
    <3>1. hint[e] \in 0 .. 5 /\ hint[d] \in 0 .. 5
      BY <2>3
    <3>2. hint[e] # hint[d]
      BY <1>1, <2>2, <2>3
    <3> QED
      BY <2>3, <3>1, <3>2
  <2> QED
    BY <2>2, <2>3, <2>4
<1>5. ASSUME d \in among, hint[d] >= 3, \A e \in among \ {d} : hint[e] < hint[d]
      PROVE  d \in Scope!Resolved(hint, among)
  <2>1. \A e \in among : hint[e] \in 0 .. 5
    OBVIOUS
  <2>2. best = {d}
    <3>1. d \in best
      BY <1>1, <1>5, <2>1
    <3>2. \A e \in best : e = d
      BY <1>1, <1>5, <2>1
    <3> QED
      BY <3>1, <3>2
  <2>3. Cardinality(best) = 1
    BY <2>2, FS_Singleton
  <2> QED
    BY <1>3, <1>5, <2>2, <2>3
<1> QED
  BY <1>4, <1>5

\* The two instances mean the same prefixes.
LEMMA SamePrefix == \A a, b : Scope!IsPrefix(a, b) <=> IsPrefix(a, b)
  BY Zenon DEF Scope!IsPrefix, IsPrefix

\* A prefix of a prefix is a prefix.
LEMMA PrefixOfPrefix ==
    ASSUME NEW headings, NEW a \in Seq(headings), NEW b \in Seq(headings),
           NEW c \in Seq(headings), IsPrefix(a, b), IsPrefix(b, c)
    PROVE  IsPrefix(a, c)
<1>1. /\ Len(a) <= Len(b) /\ SubSeq(a, 1, Len(a)) = SubSeq(b, 1, Len(a))
      /\ Len(b) <= Len(c) /\ SubSeq(b, 1, Len(b)) = SubSeq(c, 1, Len(b))
  BY DEF IsPrefix
<1>2. \A i \in 1 .. Len(a) : a[i] = b[i]
  BY <1>1
<1>3. \A i \in 1 .. Len(b) : b[i] = c[i]
  BY <1>1
<1>4. SubSeq(a, 1, Len(a)) = SubSeq(c, 1, Len(a))
  BY <1>1, <1>2, <1>3
<1> QED
  BY <1>1, <1>4 DEF IsPrefix

\* Every document hint of a question.
LEMMA HintOf ==
    ASSUME HintParameters, question \in Questions
    PROVE  \A i \in DOMAIN question.documentHints :
               question.documentHints[i] \in [Docs -> 0 .. 5]
<1>1. question.documentHints \in Seq([Docs -> 0 .. 5])
  BY DEF HintParameters
<1> QED
  BY <1>1

\* The rows are given.
LEMMA HintsBegin == QuestionInit /\ part = "hints" => HintsSound
<1> SUFFICES ASSUME QuestionInit, part = "hints" PROVE HintsSound
  OBVIOUS
<1>1. Scope!Init
  BY DEF QuestionInit
<1> QED
  BY <1>1 DEF Scope!Init, HintsSound

\* What the documents that are named leave of the explicit scope.
LEMMA DocumentsNarrow ==
    ASSUME HintParameters, HintsSound, Scope!NarrowByDocuments
    PROVE  HintsSound'
<1>1. /\ resolving = "documents" /\ resolving' = "collections"
      /\ UNCHANGED <<question, member, sections>>
      /\ question \in Questions /\ allowed = Scope!Start
  BY DEF Scope!NarrowByDocuments, Scope!Goto, HintsSound
<1> DEFINE hints == question.documentHints
           scope == Scope!ScopeOf(hints, Scope!Start)
<1>2. allowed' = IF scope = {} THEN Scope!Start ELSE Scope!Start \cap scope
  BY <1>1 DEF Scope!NarrowByDocuments
<1>3. Scope!Start \in SUBSET Docs /\ IsFiniteSet(Docs)
  BY DEF Scope!Start, HintParameters
<1>4. \A d \in Scope!Start : d \in scope <=> Scope!Named(d)
  <2> SUFFICES ASSUME NEW d \in Scope!Start PROVE d \in scope <=> Scope!Named(d)
    OBVIOUS
  <2>1. \A i \in DOMAIN hints : hints[i] \in [Docs -> 0 .. 5]
    BY <1>1, HintOf
  <2>2. \A i \in DOMAIN hints :
           d \in Scope!Resolved(hints[i], Scope!Start) <=>
              /\ hints[i][d] >= 3
              /\ \A e \in Scope!Start \ {d} : hints[i][e] < hints[i][d]
    BY <1>3, <2>1, ResolvedOne
  <2>3. d \in scope <=> \E i \in DOMAIN hints : d \in Scope!Resolved(hints[i], Scope!Start)
    BY DEF Scope!ScopeOf
  <2> QED
    BY <2>2, <2>3 DEF Scope!Named
<1>5. scope \subseteq Scope!Start
  BY DEF Scope!ScopeOf, Scope!Resolved, Scope!Best
<1> HIDE DEF hints, scope
<1>6. Scope!Start' = Scope!Start /\ \A d : Scope!Named(d)' = Scope!Named(d)
  BY <1>1 DEF Scope!Start, Scope!DocumentsIn, Scope!Named
<1>7. Narrowed'
  BY <1>2, <1>4, <1>5, <1>6 DEF Narrowed
<1> QED
  BY <1>1, <1>2, <1>3, <1>6, <1>7 DEF HintsSound

\* Every step of the resolver keeps the invariant.
LEMMA HintsSteps ==
    ASSUME HintParameters, part = "hints", HintsSound, [QuestionNext]_questionVars
    PROVE  HintsSound'
<1>1. \/ UNCHANGED hintsVars
      \/ Scope!Explicit \/ Scope!NarrowByDocuments \/ Scope!NarrowByCollections
      \/ Scope!PickSections
  BY DEF questionVars, QuestionNext, Chatting, Citing, Streaming, Hinting, RankingHits,
         Selecting, Reranking, Calibrating
<1>2. UNCHANGED <<question, member>>
  BY <1>1 DEF hintsVars, Scope!Explicit, Scope!NarrowByDocuments, Scope!NarrowByCollections,
              Scope!PickSections
<1>3. Scope!Start' = Scope!Start /\ \A d : Scope!Named(d)' = Scope!Named(d)
  BY <1>2 DEF Scope!Start, Scope!DocumentsIn, Scope!Named
<1>4. CASE UNCHANGED hintsVars
  BY <1>3, <1>4 DEF hintsVars, HintsSound, Narrowed
<1>5. CASE Scope!Explicit
  <2>1. /\ resolving' = "documents" /\ allowed' = Scope!Start
        /\ question \in Questions
    BY <1>5 DEF Scope!Explicit, Scope!Goto, HintsSound
  <2>2. Scope!Start \subseteq Docs
    BY DEF Scope!Start
  <2> QED
    BY <1>2, <1>3, <2>1, <2>2 DEF HintsSound
<1>6. CASE Scope!NarrowByDocuments
  BY <1>6, DocumentsNarrow
<1>7. CASE Scope!NarrowByCollections
  <2> DEFINE scope == Scope!ScopeOf(question.collectionHints, Collections)
  <2>1. /\ resolving = "collections" /\ resolving' = "headings"
        /\ allowed' = IF scope = {} THEN allowed ELSE allowed \cap Scope!DocumentsIn(scope)
        /\ question \in Questions /\ allowed \subseteq Docs /\ allowed \subseteq Scope!Start
        /\ Narrowed
    BY <1>7 DEF Scope!NarrowByCollections, Scope!Goto, HintsSound
  <2>2. question.collectionHints = <<>> => scope = {}
    BY DEF Scope!ScopeOf
  <2>3. question.collectionHints = <<>> => Narrowed'
    BY <1>3, <2>1, <2>2 DEF Narrowed
  <2> HIDE DEF scope
  <2> QED
    BY <1>2, <1>3, <2>1, <2>3 DEF HintsSound
<1>8. CASE Scope!PickSections
  <2> DEFINE among == {s \in Sections : DocOf[s] \in allowed}
             hints == question.headingHints
  <2>1. /\ resolving = "headings" /\ resolving' = "done"
        /\ allowed' = allowed
        /\ sections' = UNION {Scope!Expanded(Scope!Resolved(hints[i], among), among) :
                                i \in DOMAIN hints}
        /\ question \in Questions /\ allowed \subseteq Docs /\ allowed \subseteq Scope!Start
        /\ question.collectionHints = <<>> => Narrowed
    BY <1>8 DEF Scope!PickSections, Scope!Goto, HintsSound
  <2>2. \A s : s \in sections' <=>
            /\ s \in among
            /\ \E i \in DOMAIN hints : \E r \in Scope!Resolved(hints[i], among) :
                  DocOf[s] = DocOf[r] /\ IsPrefix(Path[r], Path[s])
    BY <2>1, SamePrefix DEF Scope!Expanded
  <2>3. \A i \in DOMAIN hints : Scope!Resolved(hints[i], among) \subseteq Sections
    BY DEF Scope!Resolved, Scope!Best
  <2>4. ASSUME NEW s \in sections', NEW t \in Sections, DocOf[s] = DocOf[t],
               IsPrefix(Path[s], Path[t])
        PROVE  t \in sections'
    <3>1. PICK i \in DOMAIN hints : \E r \in Scope!Resolved(hints[i], among) :
              DocOf[s] = DocOf[r] /\ IsPrefix(Path[r], Path[s])
      BY <2>2
    <3>2. PICK r \in Scope!Resolved(hints[i], among) :
              DocOf[s] = DocOf[r] /\ IsPrefix(Path[r], Path[s])
      BY <3>1
    <3>3. s \in among /\ t \in among /\ r \in Sections
      BY <2>2, <2>3, <2>4, <3>2
    <3>4. PICK headings : Path \in [Sections -> Seq(headings)]
      BY DEF HintParameters
    <3>5. Path[r] \in Seq(headings) /\ Path[s] \in Seq(headings) /\ Path[t] \in Seq(headings)
      BY <3>3, <3>4
    <3>6. IsPrefix(Path[r], Path[t])
      BY <2>4, <3>2, <3>5, PrefixOfPrefix
    <3> QED
      BY <2>2, <2>4, <3>2, <3>3, <3>6
  <2>5. \A s \in sections' : s \in Sections /\ DocOf[s] \in allowed
    BY <2>2
  <2>6. question.collectionHints = <<>> => Narrowed'
    BY <1>3, <2>1 DEF Narrowed
  <2> HIDE DEF among, hints
  <2> QED
    BY <1>2, <1>3, <2>1, <2>4, <2>5, <2>6 DEF HintsSound
<1> QED
  BY <1>1, <1>4, <1>5, <1>6, <1>7, <1>8

\* No step changes which part runs.
LEMMA PartStays ==
    ASSUME [QuestionNext]_questionVars
    PROVE  part' = part
  BY DEF QuestionNext, questionVars, Chatting, Citing, Streaming, Hinting, RankingHits,
         Selecting, Reranking, Calibrating

\* MetadataResolver.resolve: hints narrow the scope that was asked for, keep what they name,
\* and pick sections with all below, for any documents, collections, sections and hints.
THEOREM HintsOnlyNarrow ==
    ASSUME HintParameters
    PROVE  QuestionSpec => []HintsNarrow
<1> DEFINE Now == part = "hints"
           Sound == Now => HintsSound
<1>1. QuestionInit => Sound
  BY HintsBegin
<1>2. Sound /\ [QuestionNext]_questionVars => Sound'
  BY HintsSteps, PartStays
<1>3. Sound => HintsNarrow
  BY SamePrefix DEF HintsNarrow, Scope!HintsNarrow, HintsSound, Narrowed
<1> QED
  BY <1>1, <1>2, <1>3, PTL DEF QuestionSpec, questionVars

-------------------------------------------------------------------------------
(* The answer's way to the page *)

Replaced == answerOf.text = "repaired"

\* The events of a run, one by one.
EventAt(n) ==
    CASE n = 1 -> Stream!Event("start", <<>>)
      [] n = 2 -> Stream!Event("delta", <<answerOf.run, 1>>)
      [] n = 3 -> Stream!Event("delta", <<answerOf.run, 2>>)
      [] n = 4 /\ Replaced -> Stream!Event("replace", <<answerOf.run, 3>>)
      [] n = (IF Replaced THEN 5 ELSE 4) -> Stream!Event("citations", answerOf.run)
      [] OTHER -> Stream!Event("done", answerOf.run)
Events == IF Replaced THEN 6 ELSE 5

Accumulators ==
    [answer : Seq((1 .. 2) \X (1 .. 3)), citations : 0 .. 2, message : 0 .. 2,
     done : BOOLEAN, error : BOOLEAN]

\* What an accumulator holds after the first n of them, none of which was the last.
AnswerAfter(n) ==
    IF n = 1 THEN <<>>
    ELSE IF n = 2 THEN << <<answerOf.run, 1>> >>
    ELSE IF n = 3 \/ ~Replaced THEN << <<answerOf.run, 1>>, <<answerOf.run, 2>> >>
    ELSE << <<answerOf.run, 3>> >>
HasCollected(acc, n) ==
    /\ acc.answer = AnswerAfter(n)
    /\ n = Events - 1 => acc.citations = answerOf.run
    /\ ~acc.done /\ ~acc.error

StreamTypes ==
    /\ claimed \in {"none", "running", "failed", "completed"}
    /\ answerOf \in [run : 0 .. 2, text : Stream!Answers]
    /\ yielded \in 0 .. 6
    /\ raised \in BOOLEAN
    /\ link \in [open : BOOLEAN, replay : BOOLEAN, got : 0 .. 6]
    /\ accumulator \in Accumulators
    /\ page \in [at : {"request", "reading", "shown", "error"}, attempt : 1 .. 2]

\* A claim is completed by the commit before the last two events, and a page asks twice.
RunSound ==
    /\ claimed # "none" => answerOf.run >= 1
    /\ answerOf.run <= page.attempt /\ (page.at = "request" => answerOf.run < page.attempt)
    /\ claimed \in {"none", "running", "failed"} => yielded <= Events - 2
    /\ claimed = "completed" => yielded = IF raised THEN Events - 2 ELSE Events
    /\ claimed \in {"none", "running"} => ~raised

\* What has come is from the beginning of the run's events.
ReadSound ==
    /\ link.open <=> page.at = "reading"
    /\ link.replay => claimed = "completed"
    /\ page.at = "reading" =>
          claimed # "none" /\ (link.got = 0 \/ HasCollected(accumulator, link.got))
    /\ link.got <= Events - 1 /\ (link.replay \/ link.got <= yielded)

StreamInv ==
    /\ StreamTypes /\ RunSound /\ ReadSound /\ Stream!ShownIsStored

\* Transcript lists these events.
LEMMA TranscriptIs ==
    LET script == Stream!Transcript(answerOf) IN
    /\ script \in Seq({EventAt(n) : n \in 1 .. 6}) /\ Len(script) = Events
    /\ \A n \in 1 .. Events : script[n] = EventAt(n)
    /\ Stream!Persisted(answerOf) = Events - 2
<1> DEFINE S == {EventAt(n) : n \in 1 .. 6}
           x == <<EventAt(1), EventAt(2), EventAt(3)>>
           y == IF Replaced THEN <<EventAt(4)>> ELSE <<>>
           z == <<EventAt(Events - 1), EventAt(Events)>>
<1>1. /\ EventAt(1) = Stream!Event("start", <<>>)
      /\ EventAt(2) = Stream!Event("delta", <<answerOf.run, 1>>)
      /\ EventAt(3) = Stream!Event("delta", <<answerOf.run, 2>>)
      /\ Replaced => EventAt(4) = Stream!Event("replace", <<answerOf.run, 3>>)
      /\ EventAt(Events - 1) = Stream!Event("citations", answerOf.run)
      /\ EventAt(Events) = Stream!Event("done", answerOf.run)
  BY DEF EventAt, Events
<1>2. Stream!Transcript(answerOf) = (x \o y) \o z
  BY <1>1 DEF Stream!Transcript, Stream!Piece, Replaced
<1>3. \A n \in 1 .. 6 : EventAt(n) \in S
  OBVIOUS
<1>4. /\ x \in Seq(S) /\ Len(x) = 3
      /\ x[1] = EventAt(1) /\ x[2] = EventAt(2) /\ x[3] = EventAt(3)
  <2> HIDE DEF S
  <2> QED
    BY <1>3
<1>5. y \in Seq(S) /\ Len(y) = Events - 5 /\ \A i \in 1 .. Len(y) : y[i] = EventAt(4)
  <2> HIDE DEF S
  <2> QED
    BY <1>3 DEF Events
<1>6. /\ z \in Seq(S) /\ Len(z) = 2
      /\ z[1] = EventAt(Events - 1) /\ z[2] = EventAt(Events)
  <2>1. EventAt(Events - 1) \in S /\ EventAt(Events) \in S
    BY <1>3 DEF Events
  <2> HIDE DEF S
  <2> QED
    BY <2>1
<1> HIDE DEF S, x, y, z
<1> DEFINE m == x \o y
           w == m \o z
<1>7. /\ m \in Seq(S) /\ Len(m) = Len(x) + Len(y)
      /\ \A i \in 1 .. Len(x) : m[i] = x[i]
      /\ \A i \in 1 .. Len(y) : m[Len(x) + i] = y[i]
  <2>1. x \in Seq(S) /\ y \in Seq(S)
    BY <1>4, <1>5
  <2> QED
    BY <2>1, Joined
<1> HIDE DEF m
<1>8. /\ w \in Seq(S) /\ Len(w) = Len(m) + Len(z)
      /\ \A i \in 1 .. Len(m) : w[i] = m[i]
      /\ \A i \in 1 .. Len(z) : w[Len(m) + i] = z[i]
  <2>1. m \in Seq(S) /\ z \in Seq(S)
    BY <1>6, <1>7
  <2> QED
    BY <2>1, Joined
<1> HIDE DEF w
<1>9. Events \in {5, 6} /\ Len(m) = Events - 2 /\ Len(w) = Events
  BY <1>4, <1>5, <1>6, <1>7, <1>8 DEF Events
<1>10. w[Events - 1] = EventAt(Events - 1) /\ w[Events] = EventAt(Events)
  <2>1. w[Len(m) + 1] = z[1] /\ w[Len(m) + 2] = z[2]
    BY <1>6, <1>8
  <2> QED
    BY <1>6, <1>9, <2>1
<1>11. \A n \in 1 .. 3 : w[n] = EventAt(n)
  BY <1>4, <1>7, <1>8, <1>9
<1>12. Events = 6 => w[4] = EventAt(4)
  <2> SUFFICES ASSUME Events = 6 PROVE w[4] = EventAt(4)
    OBVIOUS
  <2>1. Len(y) = 1 /\ m[3 + 1] = y[1]
    BY <1>4, <1>5, <1>7
  <2> QED
    BY <1>5, <1>8, <1>9, <2>1
<1>13. \A n \in 1 .. Events : n \in 1 .. 3 \/ (n = 4 /\ Events = 6) \/ n = Events - 1 \/ n = Events
  BY <1>9
<1>14. \A n \in 1 .. Events : w[n] = EventAt(n)
  BY <1>10, <1>11, <1>12, <1>13
<1>15. Stream!Transcript(answerOf) = w
  BY <1>2 DEF w, m
<1>16. Stream!Persisted(answerOf) = Events - 2
  BY <1>9, <1>15 DEF Stream!Persisted
<1> QED
  BY <1>8, <1>9, <1>14, <1>15, <1>16 DEF S

\* What the response carries next: the next event of the run, or an error in its place.
LEMMA NextIs ==
    ASSUME StreamInv, page.at = "reading", Stream!HasNext
    PROVE  \/ Stream!NextEvent = Stream!Event("error", <<>>)
           \/ /\ Stream!NextEvent = EventAt(link.got + 1)
              /\ link.got + 1 <= Events - 1 \/ claimed = "completed"
              /\ link.replay \/ link.got + 1 <= yielded
<1> DEFINE script == Stream!Transcript(answerOf)
           coming == Stream!Coming
           S == {EventAt(n) : n \in 1 .. 6}
<1>1. StreamTypes /\ RunSound /\ ReadSound
  BY DEF StreamInv
<1>2. Events \in {5, 6} /\ yielded \in Nat /\ link.got \in Nat
  BY <1>1 DEF Events, StreamTypes
<1>3. /\ script \in Seq(S) /\ Len(script) = Events
      /\ \A n \in 1 .. Events : script[n] = EventAt(n)
  BY TranscriptIs
<1>4. yielded <= Events /\ (yielded > Events - 2 => claimed = "completed")
  BY <1>1, <1>2 DEF RunSound, StreamTypes
<1>5. Stream!NextEvent = coming[link.got + 1] /\ link.got < Len(coming)
  BY DEF Stream!NextEvent, Stream!HasNext
<1>6. link.got <= Events - 1
  BY <1>1 DEF ReadSound
<1> HIDE DEF script, coming, S
<1>7. CASE link.replay
  <2>1. coming = script /\ claimed = "completed"
    BY <1>1, <1>7 DEF ReadSound, coming, script, Stream!Coming
  <2> QED
    BY <1>2, <1>3, <1>5, <1>6, <1>7, <2>1
<1>8. CASE ~link.replay
  <2> DEFINE begun == SubSeq(script, 1, yielded)
             failure == Stream!Event("error", <<>>)
             rest == IF raised THEN <<failure>> ELSE <<>>
             T == S \cup {failure}
  <2>1. coming = begun \o rest /\ link.got <= yielded
    BY <1>1, <1>8 DEF ReadSound, coming, script, Stream!Coming
  <2>2. /\ begun \in Seq(S) /\ Len(begun) = yielded
        /\ \A n \in 1 .. yielded : begun[n] = EventAt(n)
    BY <1>2, <1>3, <1>4
  <2>3. begun \in Seq(T)
    BY <2>2
  <2>4. /\ rest \in Seq(T) /\ Len(rest) = IF raised THEN 1 ELSE 0
        /\ raised => rest[1] = failure
    <3>1. failure \in T
      OBVIOUS
    <3> HIDE DEF failure, T
    <3> QED
      BY <3>1
  <2> HIDE DEF begun, rest, T
  <2>5. /\ Len(begun \o rest) = Len(begun) + Len(rest)
        /\ \A n \in 1 .. Len(begun) : (begun \o rest)[n] = begun[n]
        /\ \A n \in 1 .. Len(rest) : (begun \o rest)[Len(begun) + n] = rest[n]
    <3>1. begun \in Seq(T) /\ rest \in Seq(T)
      BY <2>3, <2>4
    <3> QED
      BY <3>1, Joined
  <2>6. CASE link.got < yielded
    <3>1. link.got + 1 \in 1 .. yielded /\ link.got + 1 \in 1 .. Len(begun)
      BY <1>2, <2>2, <2>6
    <3>2. Stream!NextEvent = EventAt(link.got + 1)
      BY <1>5, <2>1, <2>2, <2>5, <3>1
    <3> QED
      BY <1>2, <1>4, <2>6, <3>2
  <2>7. CASE link.got >= yielded
    <3>1. link.got = yielded /\ raised /\ Len(rest) = 1 /\ link.got + 1 = Len(begun) + 1
      BY <1>2, <1>5, <2>1, <2>2, <2>4, <2>5, <2>7
    <3> QED
      BY <1>5, <2>1, <2>4, <2>5, <3>1
  <2> QED
    BY <1>2, <2>6, <2>7
<1> QED
  BY <1>7, <1>8

\* What the accumulator becomes: an error, the stored answer with its citations, or the
\* beginning of an answer that goes on.
LEMMA AppliedIs ==
    ASSUME StreamInv, page.at = "reading", Stream!HasNext, NEW next,
           next = Stream!Applied(accumulator, Stream!NextEvent)
    PROVE  /\ next \in Accumulators
           /\ \/ next.error /\ next.answer = accumulator.answer
              \/ /\ claimed = "completed" /\ next.done /\ ~next.error
                 /\ next.answer = Stream!Stored(answerOf)
                 /\ next.citations = answerOf.run /\ next.message = answerOf.run
              \/ /\ link.got + 1 <= Events - 1 /\ (link.replay \/ link.got + 1 <= yielded)
                 /\ HasCollected(next, link.got + 1)
<1> DEFINE run == answerOf.run
           A == (1 .. 2) \X (1 .. 3)
<1>1. StreamTypes /\ ReadSound /\ Events \in {5, 6} /\ (Replaced <=> Events = 6)
  BY DEF StreamInv, Events
<1>2. /\ link.got \in 0 .. 5 /\ link.got <= Events - 1
      /\ link.got = 0 \/ HasCollected(accumulator, link.got)
      /\ accumulator \in Accumulators
  BY <1>1 DEF StreamTypes, ReadSound
<1>3. run \in 1 .. 2 /\ <<run, 1>> \in A /\ <<run, 2>> \in A /\ <<run, 3>> \in A
  <2>1. run \in 1 .. 2
    BY <1>1 DEF StreamInv, StreamTypes, RunSound, ReadSound
  <2> QED
    BY <2>1
<1>4. ASSUME NEW e, next = [accumulator EXCEPT !.answer = e], e \in Seq(A)
      PROVE  /\ next \in Accumulators /\ next.answer = e
             /\ next.citations = accumulator.citations
             /\ (next.done <=> accumulator.done) /\ (next.error <=> accumulator.error)
  BY <1>2, <1>4 DEF Accumulators
<1>5. CASE Stream!NextEvent = Stream!Event("error", <<>>)
  <2>1. next = [accumulator EXCEPT !.error = TRUE]
    BY <1>5 DEF Stream!Applied, Stream!AppliedAfterStart, Stream!Event
  <2> QED
    BY <1>2, <2>1 DEF Accumulators
<1>6. ASSUME Stream!NextEvent = EventAt(link.got + 1),
             link.got + 1 <= Events - 1 \/ claimed = "completed"
      PROVE  /\ next \in Accumulators
             /\ \/ /\ claimed = "completed" /\ next.done /\ ~next.error
                   /\ next.answer = Stream!Stored(answerOf)
                   /\ next.citations = answerOf.run /\ next.message = answerOf.run
                \/ /\ link.got + 1 <= Events - 1
                   /\ HasCollected(next, link.got + 1)
  <2>1. CASE link.got = 0
    <3>1. Stream!NextEvent.event = "start"
      BY <1>6, <2>1 DEF EventAt, Stream!Event
    <3>2. next = Stream!Empty
      BY <3>1 DEF Stream!Applied
    <3>3. /\ next \in Accumulators /\ next.answer = <<>> /\ ~next.done /\ ~next.error
      BY <3>2 DEF Stream!Empty, Accumulators
    <3> QED
      BY <1>1, <2>1, <3>3 DEF HasCollected, AnswerAfter
  <2>2. CASE link.got = 1
    <3>1. Stream!NextEvent = Stream!Event("delta", <<run, 1>>)
      BY <1>6, <2>2 DEF EventAt
    <3>2. next = [accumulator EXCEPT !.answer = Append(accumulator.answer, <<run, 1>>)]
      BY <3>1 DEF Stream!Applied, Stream!AppliedAfterStart, Stream!Event
    <3>3. accumulator.answer = <<>> /\ ~accumulator.done /\ ~accumulator.error
      BY <1>2, <2>2 DEF HasCollected, AnswerAfter
    <3>4. Append(<<>>, <<run, 1>>) = << <<run, 1>> >> /\ << <<run, 1>> >> \in Seq(A)
      <4>1. << <<run, 1>> >> \in Seq(A)
        <5> HIDE DEF A, run
        <5> QED
          BY <1>3
      <4> QED
        BY <4>1
    <3>5. /\ next \in Accumulators /\ next.answer = << <<run, 1>> >>
          /\ ~next.done /\ ~next.error
      BY <1>4, <3>2, <3>3, <3>4
    <3> QED
      BY <1>1, <2>2, <3>5 DEF HasCollected, AnswerAfter
  <2>3. CASE link.got = 2
    <3>1. Stream!NextEvent = Stream!Event("delta", <<run, 2>>)
      BY <1>6, <2>3 DEF EventAt
    <3>2. next = [accumulator EXCEPT !.answer = Append(accumulator.answer, <<run, 2>>)]
      BY <3>1 DEF Stream!Applied, Stream!AppliedAfterStart, Stream!Event
    <3>3. accumulator.answer = << <<run, 1>> >> /\ ~accumulator.done /\ ~accumulator.error
      BY <1>2, <2>3 DEF HasCollected, AnswerAfter
    <3>4. /\ Append(<< <<run, 1>> >>, <<run, 2>>) = << <<run, 1>>, <<run, 2>> >>
          /\ << <<run, 1>>, <<run, 2>> >> \in Seq(A)
      <4>1. << <<run, 1>>, <<run, 2>> >> \in Seq(A)
        <5> HIDE DEF A, run
        <5> QED
          BY <1>3
      <4>2. Append(<< <<run, 1>> >>, <<run, 2>>) = << <<run, 1>>, <<run, 2>> >>
        <5> HIDE DEF A, run
        <5> QED
          BY <1>3, PairAppended
      <4> QED
        BY <4>1, <4>2
    <3>5. /\ next \in Accumulators /\ next.answer = << <<run, 1>>, <<run, 2>> >>
          /\ ~next.done /\ ~next.error
      BY <1>4, <3>2, <3>3, <3>4
    <3> QED
      BY <1>1, <2>3, <3>5 DEF HasCollected, AnswerAfter
  <2>4. CASE link.got = 3 /\ Replaced
    <3>1. Stream!NextEvent = Stream!Event("replace", <<run, 3>>)
      BY <1>6, <2>4 DEF EventAt
    <3>2. next = [accumulator EXCEPT !.answer = << <<run, 3>> >>]
      BY <3>1 DEF Stream!Applied, Stream!AppliedAfterStart, Stream!Event
    <3>3. ~accumulator.done /\ ~accumulator.error
      BY <1>2, <2>4 DEF HasCollected
    <3>4. << <<run, 3>> >> \in Seq(A)
      <4> HIDE DEF A, run
      <4> QED
        BY <1>3
    <3>5. /\ next \in Accumulators /\ next.answer = << <<run, 3>> >>
          /\ ~next.done /\ ~next.error
      BY <1>4, <3>2, <3>3, <3>4
    <3> QED
      BY <1>1, <2>4, <3>5 DEF HasCollected, AnswerAfter
  <2>5. CASE link.got = Events - 2
    <3>1. Stream!NextEvent = Stream!Event("citations", run)
      BY <1>1, <1>6, <2>5 DEF EventAt
    <3>2. next = [accumulator EXCEPT !.citations = run]
      BY <3>1 DEF Stream!Applied, Stream!AppliedAfterStart, Stream!Event
    <3>3. /\ next \in Accumulators /\ next.answer = accumulator.answer
          /\ next.citations = run
          /\ (next.done <=> accumulator.done) /\ (next.error <=> accumulator.error)
      BY <1>2, <1>3, <3>2 DEF Accumulators
    <3>4. AnswerAfter(Events - 2) = AnswerAfter(Events - 1)
      BY <1>1 DEF AnswerAfter
    <3>5. link.got # 0 /\ link.got + 1 = Events - 1
      BY <1>1, <1>2, <2>5
    <3> QED
      BY <1>2, <2>5, <3>3, <3>4, <3>5 DEF HasCollected
  <2>6. CASE link.got = Events - 1
    <3>1. Stream!NextEvent = Stream!Event("done", run) /\ claimed = "completed"
      BY <1>1, <1>6, <2>6 DEF EventAt
    <3>2. next = [accumulator EXCEPT !.message = run, !.done = TRUE]
      BY <3>1 DEF Stream!Applied, Stream!AppliedAfterStart, Stream!Event
    <3>3. /\ next \in Accumulators /\ next.answer = accumulator.answer
          /\ next.citations = accumulator.citations /\ next.message = run
          /\ next.done /\ (next.error <=> accumulator.error)
      <4>1. /\ next.answer = accumulator.answer /\ next.citations = accumulator.citations
            /\ next.message = run
        BY <1>2, <1>3, <3>2 DEF Accumulators
      <4>2. next.done = TRUE
        BY <1>2, <1>3, <3>2 DEF Accumulators
      <4>3. next.error = accumulator.error
        BY <1>2, <1>3, <3>2 DEF Accumulators
      <4>4. next \in Accumulators
        <5> DEFINE half == [accumulator EXCEPT !.message = run]
        <5>1. half \in Accumulators
          BY <1>2, <1>3 DEF Accumulators
        <5>2. next = [half EXCEPT !.done = TRUE]
          BY <3>2
        <5> HIDE DEF half
        <5> QED
          BY <5>1, <5>2 DEF Accumulators
      <4> QED
        BY <4>1, <4>2, <4>3, <4>4
    <3>4. AnswerAfter(Events - 1) = Stream!Stored(answerOf)
      BY <1>1 DEF AnswerAfter, Stream!Stored, Stream!Piece, Replaced, StreamTypes,
                  Stream!Answers
    <3> QED
      BY <1>1, <1>2, <2>6, <3>1, <3>3, <3>4 DEF HasCollected
  <2> QED
    BY <1>1, <1>2, <2>1, <2>2, <2>3, <2>4, <2>5, <2>6
<1> QED
  BY <1>5, <1>6, NextIs

-------------------------------------------------------------------------------
LEMMA StreamBegin ==
    ASSUME QuestionInit, part = "stream"
    PROVE  StreamInv
<1>1. Stream!Init
  BY DEF QuestionInit
<1>2. accumulator \in Accumulators /\ accumulator.answer = <<>>
  BY <1>1 DEF Stream!Init, Stream!Empty, Accumulators
<1>3. /\ claimed = "none" /\ answerOf = [run |-> 0, text |-> "plain"] /\ yielded = 0
      /\ raised = FALSE /\ link = Stream!NoLink /\ page = [at |-> "request", attempt |-> 1]
  BY <1>1 DEF Stream!Init
<1>4. answerOf \in [run : 0 .. 2, text : Stream!Answers]
  BY <1>3 DEF Stream!Answers
<1>5. link \in [open : BOOLEAN, replay : BOOLEAN, got : 0 .. 6] /\ ~link.open /\ ~link.replay
      /\ link.got = 0
  BY <1>3 DEF Stream!NoLink
<1>6. StreamTypes
  <2>1. page \in [at : {"request", "reading", "shown", "error"}, attempt : 1 .. 2]
    BY <1>3
  <2> QED
    BY <1>2, <1>3, <1>4, <1>5, <2>1 DEF StreamTypes
<1>7. RunSound
  BY <1>3 DEF RunSound, Events
<1>8. ReadSound
  BY <1>3, <1>5 DEF ReadSound, Events
<1>9. Stream!ShownIsStored
  BY <1>2, <1>3, <1>6 DEF Stream!ShownIsStored, Stream!TypeOK, StreamTypes, Accumulators
<1> QED
  BY <1>6, <1>7, <1>8, <1>9 DEF StreamInv

\* Whatever has come of an answer is of one run.
LEMMA OneRun ==
    \A n : \A i \in DOMAIN AnswerAfter(n) : AnswerAfter(n)[i][1] = answerOf.run
  BY DEF AnswerAfter

\* What holds of the page after an event that ends nothing, or that ends the answer.
LEMMA AppliedShows ==
    ASSUME StreamInv, page.at = "reading", Stream!HasNext, NEW next,
           next = Stream!Applied(accumulator, Stream!NextEvent)
    PROVE  \A i, j \in DOMAIN next.answer : next.answer[i][1] = next.answer[j][1]
<1>1. CASE next.answer = accumulator.answer
  BY <1>1 DEF StreamInv, Stream!ShownIsStored
<1>2. CASE next.answer = Stream!Stored(answerOf)
  BY <1>2 DEF Stream!Stored, Stream!Piece
<1>3. CASE HasCollected(next, link.got + 1)
  BY <1>3, OneRun DEF HasCollected
<1> QED
  BY <1>1, <1>2, <1>3, AppliedIs

\* A step of the run leaves the page alone.
LEMMA RunSteps ==
    ASSUME StreamInv, Stream!Yield \/ Stream!Persist \/ Stream!Raise
    PROVE  StreamInv'
<1>1. StreamTypes /\ RunSound /\ ReadSound /\ Stream!ShownIsStored
  BY DEF StreamInv
<1>2. UNCHANGED <<answerOf, link, accumulator, page>> /\ claimed = "running" /\ ~raised
  BY <1>1 DEF Stream!Yield, Stream!Persist, Stream!Raise, Stream!Page, RunSound
<1>3. Events \in {5, 6} /\ Events' = Events /\ Stream!Persisted(answerOf) = Events - 2
  BY <1>2, TranscriptIs DEF Events, Replaced
<1>4. yielded \in 0 .. 6 /\ yielded <= Events - 2 /\ raised \in BOOLEAN
  BY <1>1, <1>2 DEF RunSound, StreamTypes
<1>5. /\ yielded' \in 0 .. 6 /\ yielded <= yielded' /\ raised' \in BOOLEAN
      /\ \/ claimed' = "running" /\ ~raised' /\ yielded' <= Events - 2
         \/ claimed' = "failed" /\ raised' /\ yielded' <= Events - 2
         \/ claimed' = "completed" /\ yielded' = IF raised' THEN Events - 2 ELSE Events
  <2>1. CASE Stream!Yield
    <3>1. claimed' = "running" /\ yielded' = yielded + 1 /\ yielded < Events - 2
      BY <1>2, <1>3, <2>1 DEF Stream!Yield
    <3>2. raised' = raised
      BY <2>1 DEF Stream!Yield
    <3> QED
      BY <1>2, <1>3, <1>4, <3>1, <3>2
  <2>2. CASE Stream!Persist
    <3>1. claimed' = "completed" /\ yielded' = Events
      BY <1>2, <1>3, <1>4, <2>2 DEF Stream!Persist
    <3>2. raised' = raised
      BY <2>2 DEF Stream!Persist
    <3> QED
      BY <1>2, <1>3, <1>4, <3>1, <3>2
  <2>3. CASE Stream!Raise
    BY <1>2, <1>3, <1>4, <2>3 DEF Stream!Raise
  <2> QED
    BY <2>1, <2>2, <2>3
<1>6. StreamTypes'
  BY <1>1, <1>2, <1>5 DEF StreamTypes
<1>7. RunSound'
  BY <1>1, <1>2, <1>3, <1>5 DEF RunSound
<1>8. ReadSound'
  <2>1. ~link.replay
    BY <1>1, <1>2 DEF ReadSound
  <2>2. HasCollected(accumulator, link.got)' <=> HasCollected(accumulator, link.got)
    BY <1>2, <1>3 DEF HasCollected, AnswerAfter, Replaced
  <2>3. link.got \in Nat /\ link.got <= yielded
    BY <1>1, <2>1 DEF ReadSound, StreamTypes
  <2>4. link.got <= yielded'
    BY <1>4, <1>5, <2>3
  <2>5. claimed' # "none"
    BY <1>5
  <2> QED
    BY <1>1, <1>2, <1>3, <2>1, <2>2, <2>4, <2>5 DEF ReadSound
<1>9. Stream!ShownIsStored'
  <2>1. page.at # "shown"
    BY <1>1, <1>2 DEF Stream!ShownIsStored
  <2>2. Stream!TypeOK'
    BY <1>6 DEF StreamTypes, Stream!TypeOK, Accumulators
  <2> QED
    BY <1>1, <1>2, <2>1, <2>2 DEF Stream!ShownIsStored
<1> QED
  BY <1>6, <1>7, <1>8, <1>9 DEF StreamInv

\* The page's next state follows from what it reads and what it shows.
LEMMA PageKeeps ==
    ASSUME StreamInv, Stream!Server,
           accumulator' \in Accumulators,
           \A i, j \in DOMAIN accumulator'.answer :
              accumulator'.answer[i][1] = accumulator'.answer[j][1],
           page' \in [at : {"request", "reading", "shown", "error"}, attempt : 1 .. 2],
           answerOf.run <= page'.attempt,
           page'.at = "request" => answerOf.run < page'.attempt,
           page'.at = "shown" =>
              /\ claimed = "completed"
              /\ accumulator'.answer = Stream!Stored(answerOf)
              /\ accumulator'.citations = answerOf.run
              /\ accumulator'.message = answerOf.run,
           \/ /\ link' = Stream!NoLink /\ page'.at # "reading"
           \/ /\ link' \in [open : BOOLEAN, replay : BOOLEAN, got : 0 .. 6]
              /\ link'.open /\ link'.got <= Events - 1
              /\ page'.at = "reading" /\ claimed # "none"
              /\ link'.got = 0 \/ HasCollected(accumulator', link'.got)
              /\ IF link'.replay THEN claimed = "completed" ELSE link'.got <= yielded
    PROVE  StreamInv'
<1>1. StreamTypes /\ RunSound /\ ReadSound /\ Events \in {5, 6}
  BY DEF StreamInv, Events
<1>2. /\ UNCHANGED <<claimed, answerOf, yielded, raised>> /\ Events' = Events
      /\ (Replaced <=> Replaced')
  BY DEF Stream!Server, Events, Replaced
<1>3. yielded \in Nat
  BY <1>1 DEF StreamTypes
<1>4. /\ link' \in [open : BOOLEAN, replay : BOOLEAN, got : 0 .. 6]
      /\ link'.open <=> page'.at = "reading"
      /\ link'.replay => claimed = "completed"
      /\ page'.at = "reading" =>
            claimed # "none" /\ (link'.got = 0 \/ HasCollected(accumulator', link'.got))
      /\ link'.got <= Events - 1 /\ (link'.replay \/ link'.got <= yielded)
  <2>1. CASE link' = Stream!NoLink /\ page'.at # "reading"
    <3>1. link' \in [open : BOOLEAN, replay : BOOLEAN, got : 0 .. 6] /\ link'.got = 0
      BY <2>1 DEF Stream!NoLink
    <3>2. ~link'.open /\ ~link'.replay
      BY <2>1 DEF Stream!NoLink
    <3> QED
      BY <1>1, <1>3, <2>1, <3>1, <3>2
  <2>2. CASE /\ link' \in [open : BOOLEAN, replay : BOOLEAN, got : 0 .. 6]
             /\ link'.open /\ link'.got <= Events - 1
             /\ page'.at = "reading" /\ claimed # "none"
             /\ link'.got = 0 \/ HasCollected(accumulator', link'.got)
             /\ IF link'.replay THEN claimed = "completed" ELSE link'.got <= yielded
    BY <2>2
  <2> QED
    BY <2>1, <2>2
<1>5. StreamTypes'
  BY <1>1, <1>2, <1>4 DEF StreamTypes
<1>6. RunSound'
  BY <1>1, <1>2 DEF RunSound
<1>7. ReadSound'
  BY <1>2, <1>4 DEF ReadSound, HasCollected, AnswerAfter, Replaced
<1>8. Stream!ShownIsStored'
  <2>1. Stream!TypeOK'
    BY <1>5 DEF StreamTypes, Stream!TypeOK, Accumulators
  <2>2. Stream!Stored(answerOf)' = Stream!Stored(answerOf)
    BY <1>2 DEF Stream!Stored, Stream!Piece
  <2> QED
    BY <1>2, <2>1, <2>2 DEF Stream!ShownIsStored
<1> QED
  BY <1>5, <1>6, <1>7, <1>8 DEF StreamInv

LEMMA NewLink ==
    ASSUME NEW l, NEW again \in BOOLEAN,
           l = [Stream!NoLink EXCEPT !.open = TRUE, !.replay = again]
              \/ (~again /\ l = [Stream!NoLink EXCEPT !.open = TRUE])
    PROVE  /\ l \in [open : BOOLEAN, replay : BOOLEAN, got : 0 .. 6] /\ l.got = 0
           /\ l.open /\ (l.replay <=> again)
<1> DEFINE Links == [open : BOOLEAN, replay : BOOLEAN, got : 0 .. 6]
           opened == [Stream!NoLink EXCEPT !.open = TRUE]
<1>1. Stream!NoLink \in Links
  BY DEF Stream!NoLink
<1>2. Stream!NoLink.got = 0
  BY DEF Stream!NoLink
<1>3. ~Stream!NoLink.replay
  BY DEF Stream!NoLink
<1>4. opened \in Links
  BY <1>1
<1>5. opened.open = TRUE
  BY <1>1
<1>6. opened.got = Stream!NoLink.got
  BY <1>1
<1>7. opened.replay = Stream!NoLink.replay
  BY <1>1
<1>8. l = opened \/ l = [opened EXCEPT !.replay = again]
  OBVIOUS
<1> HIDE DEF opened
<1>9. CASE l = [opened EXCEPT !.replay = again]
  <2>1. l \in Links
    BY <1>4, <1>9
  <2>2. l.open = opened.open
    BY <1>4, <1>9
  <2>3. l.got = opened.got
    BY <1>4, <1>9
  <2>4. l.replay = again
    BY <1>4, <1>9
  <2> QED
    BY <1>2, <1>5, <1>6, <2>1, <2>2, <2>3, <2>4
<1>10. CASE l = opened
  BY <1>2, <1>3, <1>4, <1>5, <1>6, <1>7, <1>10
<1> QED
  BY <1>8, <1>9, <1>10

LEMMA AskedAgain ==
    ASSUME StreamInv, Stream!AskAgain, page.at \in {"request", "reading"}
    PROVE  /\ page' \in [at : {"request", "error"}, attempt : 1 .. 2]
           /\ answerOf.run <= page'.attempt
           /\ page'.at = "request" => answerOf.run < page'.attempt
<1>1. /\ page \in [at : {"request", "reading", "shown", "error"}, attempt : 1 .. 2]
      /\ answerOf.run \in 0 .. 2 /\ answerOf.run <= page.attempt
  BY DEF StreamInv, StreamTypes, RunSound
<1>2. CASE page.attempt = 1
  <2>1. page' = [at |-> "request", attempt |-> 2]
    BY <1>2 DEF Stream!AskAgain
  <2> QED
    BY <1>1, <1>2, <2>1
<1>3. CASE page.attempt # 1
  <2>1. page' = [page EXCEPT !.at = "error"]
    BY <1>3 DEF Stream!AskAgain
  <2> QED
    BY <1>1, <2>1
<1> QED
  BY <1>2, <1>3

\* A request that a run of its own answers.
LEMMA OwnRun ==
    ASSUME StreamInv, Stream!Accepted, claimed \in {"none", "failed"}
    PROVE  StreamInv'
<1>1. StreamTypes /\ RunSound /\ Stream!ShownIsStored
  BY DEF StreamInv
<1>2. /\ claimed' = "running" /\ yielded' = 0 /\ UNCHANGED accumulator
      /\ page.at = "request" /\ page' = [page EXCEPT !.at = "reading"]
      /\ link' = [Stream!NoLink EXCEPT !.open = TRUE]
  BY DEF Stream!Accepted
<1>3. raised' = FALSE
  BY DEF Stream!Accepted
<1>4. PICK words \in Stream!Answers : answerOf' = [run |-> answerOf.run + 1, text |-> words]
  BY DEF Stream!Accepted
<1>5. /\ page' \in [at : {"reading"}, attempt : 1 .. 2] /\ page'.attempt = page.attempt
      /\ page.attempt \in 1 .. 2
  BY <1>1, <1>2 DEF StreamTypes
<1>6. /\ answerOf.run \in 0 .. 1 /\ answerOf'.run = answerOf.run + 1
      /\ answerOf'.run <= page'.attempt
  BY <1>1, <1>2, <1>4, <1>5 DEF RunSound, StreamTypes
<1>7. answerOf' \in [run : 0 .. 2, text : Stream!Answers]
  BY <1>4, <1>6
<1>8. /\ link' \in [open : BOOLEAN, replay : BOOLEAN, got : 0 .. 6] /\ link'.got = 0
      /\ link'.open /\ ~link'.replay
  BY <1>2, NewLink
<1>9. Events' \in {5, 6}
  BY DEF Events
<1>10. StreamTypes'
  BY <1>1, <1>2, <1>3, <1>5, <1>7, <1>8 DEF StreamTypes
<1>11. RunSound'
  BY <1>2, <1>3, <1>5, <1>6, <1>9 DEF RunSound
<1>12. ReadSound'
  BY <1>2, <1>5, <1>8, <1>9 DEF ReadSound
<1>13. Stream!ShownIsStored'
  <2>1. Stream!TypeOK'
    BY <1>10 DEF StreamTypes, Stream!TypeOK, Accumulators
  <2> QED
    BY <1>1, <1>2, <1>5, <2>1 DEF Stream!ShownIsStored
<1> QED
  BY <1>10, <1>11, <1>12, <1>13 DEF StreamInv

\* The other steps of the page.
LEMMA PageSteps ==
    ASSUME StreamInv,
           \/ Stream!Accepted /\ claimed = "completed"
           \/ Stream!TooEarly \/ Stream!Throws \/ Stream!Receive
           \/ Stream!EndsBetween \/ Stream!EndsAfterData
    PROVE  StreamInv'
<1>1. StreamTypes /\ RunSound /\ ReadSound /\ Stream!ShownIsStored /\ Events \in {5, 6}
  BY DEF StreamInv, Events
<1>2. Stream!Server
  BY DEF Stream!Accepted, Stream!TooEarly, Stream!Throws, Stream!Receive,
         Stream!EndsBetween, Stream!EndsAfterData
<1>3. /\ page \in [at : {"request", "reading", "shown", "error"}, attempt : 1 .. 2]
      /\ answerOf.run <= page.attempt /\ accumulator \in Accumulators
      /\ \A i, j \in DOMAIN accumulator.answer :
            accumulator.answer[i][1] = accumulator.answer[j][1]
  BY <1>1 DEF StreamTypes, RunSound, Stream!ShownIsStored
<1>4. CASE Stream!Accepted /\ claimed = "completed"
  <2>1. /\ page' = [page EXCEPT !.at = "reading"] /\ UNCHANGED accumulator
        /\ link' = [Stream!NoLink EXCEPT !.open = TRUE, !.replay = TRUE]
    BY <1>4 DEF Stream!Accepted
  <2>2. /\ page' \in [at : {"request", "reading", "shown", "error"}, attempt : 1 .. 2]
        /\ page'.at = "reading" /\ page'.attempt = page.attempt
    BY <1>3, <2>1
  <2>3. /\ link' \in [open : BOOLEAN, replay : BOOLEAN, got : 0 .. 6] /\ link'.got = 0
        /\ link'.open /\ link'.replay
    BY <2>1, NewLink
  <2>4. link'.got <= Events - 1
    BY <1>1, <2>3
  <2>5. /\ page'.at # "request" /\ page'.at # "shown" /\ claimed # "none"
        /\ answerOf.run <= page'.attempt
        /\ accumulator' \in Accumulators
        /\ \A i, j \in DOMAIN accumulator'.answer :
              accumulator'.answer[i][1] = accumulator'.answer[j][1]
    BY <1>3, <1>4, <2>1, <2>2
  <2> QED
    BY <1>2, <1>4, <2>2, <2>3, <2>4, <2>5, PageKeeps
<1>5. CASE Stream!TooEarly
  <2>1. Stream!AskAgain /\ page.at = "request" /\ UNCHANGED <<link, accumulator>>
    BY <1>5 DEF Stream!TooEarly
  <2>2. /\ page' \in [at : {"request", "error"}, attempt : 1 .. 2]
        /\ answerOf.run <= page'.attempt
        /\ page'.at = "request" => answerOf.run < page'.attempt
    BY <2>1, AskedAgain
  <2>3. /\ page' \in [at : {"request", "reading", "shown", "error"}, attempt : 1 .. 2]
        /\ page'.at \in {"request", "error"}
    BY <2>2
  <2> QED
    BY <1>1, <1>2, <1>3, <2>1, <2>2, <2>3
       DEF StreamInv, StreamTypes, RunSound, ReadSound, Stream!ShownIsStored, Stream!Server,
           Stream!TypeOK, Accumulators, Events, Replaced
<1>6. CASE Stream!Throws
  <2>1. /\ page' = [page EXCEPT !.at = "error"] /\ link' = Stream!NoLink
        /\ UNCHANGED accumulator
    BY <1>6 DEF Stream!Throws
  <2>2. /\ page' \in [at : {"request", "reading", "shown", "error"}, attempt : 1 .. 2]
        /\ page'.at = "error" /\ page'.attempt = page.attempt
    BY <1>3, <2>1
  <2> QED
    BY <1>2, <1>3, <2>1, <2>2, PageKeeps
<1>7. CASE Stream!EndsBetween
  <2>1. Stream!AskAgain /\ link' = Stream!NoLink /\ UNCHANGED accumulator
        /\ page.at = "reading"
    BY <1>7 DEF Stream!EndsBetween
  <2>2. /\ page' \in [at : {"request", "error"}, attempt : 1 .. 2]
        /\ answerOf.run <= page'.attempt
        /\ page'.at = "request" => answerOf.run < page'.attempt
    BY <2>1, AskedAgain
  <2>3. /\ page' \in [at : {"request", "reading", "shown", "error"}, attempt : 1 .. 2]
        /\ page'.at \in {"request", "error"}
    BY <2>2
  <2> QED
    BY <1>2, <1>3, <2>1, <2>2, <2>3, PageKeeps
<1>8. CASE Stream!Receive \/ Stream!EndsAfterData
  <2>1. /\ page.at = "reading" /\ Stream!HasNext
        /\ accumulator' = Stream!Applied(accumulator, Stream!NextEvent)
        /\ Stream!Ends(accumulator') =>
              page' = Stream!Settled(accumulator') /\ link' = Stream!NoLink
        /\ ~Stream!Ends(accumulator') =>
              \/ link' = [link EXCEPT !.got = @ + 1] /\ UNCHANGED page
              \/ Stream!AskAgain /\ link' = Stream!NoLink
    BY <1>8 DEF Stream!Receive, Stream!EndsAfterData
  <2>2. /\ accumulator' \in Accumulators
        /\ \A i, j \in DOMAIN accumulator'.answer :
              accumulator'.answer[i][1] = accumulator'.answer[j][1]
        /\ \/ accumulator'.error
           \/ /\ claimed = "completed" /\ accumulator'.done /\ ~accumulator'.error
              /\ accumulator'.answer = Stream!Stored(answerOf)
              /\ accumulator'.citations = answerOf.run /\ accumulator'.message = answerOf.run
           \/ /\ link.got + 1 <= Events - 1 /\ (link.replay \/ link.got + 1 <= yielded)
              /\ HasCollected(accumulator', link.got + 1)
    BY <2>1, AppliedIs, AppliedShows
  <2>3. CASE Stream!Ends(accumulator')
    <3>1. /\ page' \in [at : {"request", "reading", "shown", "error"}, attempt : 1 .. 2]
          /\ page'.attempt = page.attempt
          /\ page'.at = IF accumulator'.error THEN "error" ELSE "shown"
      BY <1>3, <2>1, <2>3 DEF Stream!Settled
    <3>2. HasCollected(accumulator', link.got + 1) => ~Stream!Ends(accumulator')
      BY DEF HasCollected, Stream!Ends
    <3>3. page'.at = "shown" =>
              /\ claimed = "completed"
              /\ accumulator'.answer = Stream!Stored(answerOf)
              /\ accumulator'.citations = answerOf.run
              /\ accumulator'.message = answerOf.run
      BY <2>2, <2>3, <3>1, <3>2
    <3>4. page'.at \in {"shown", "error"}
      BY <3>1
    <3> QED
      BY <1>2, <1>3, <2>1, <2>2, <2>3, <3>1, <3>3, <3>4, PageKeeps
  <2>4. ASSUME ~Stream!Ends(accumulator') PROVE StreamInv'
    <3>1. /\ link.got + 1 <= Events - 1 /\ HasCollected(accumulator', link.got + 1)
          /\ link.replay \/ link.got + 1 <= yielded
      BY <2>2, <2>4 DEF Stream!Ends
    <3>2. CASE link' = [link EXCEPT !.got = @ + 1] /\ UNCHANGED page
      <4>1. /\ link \in [open : BOOLEAN, replay : BOOLEAN, got : 0 .. 6] /\ link.open = TRUE
            /\ claimed # "none"
            /\ IF link.replay THEN claimed = "completed" ELSE link.got <= yielded
        BY <1>1, <2>1 DEF StreamTypes, ReadSound
      <4>2. /\ link' \in [open : BOOLEAN, replay : BOOLEAN, got : 0 .. 6]
            /\ link'.got = link.got + 1
        BY <1>1, <3>1, <3>2, <4>1
      <4>3. link'.replay = link.replay /\ link'.open = link.open
        BY <3>2, <4>1
      <4> QED
        BY <1>2, <1>3, <2>1, <2>2, <3>1, <3>2, <4>1, <4>2, <4>3, PageKeeps
    <3>3. CASE Stream!AskAgain /\ link' = Stream!NoLink
      <4>1. /\ page' \in [at : {"request", "error"}, attempt : 1 .. 2]
            /\ answerOf.run <= page'.attempt
            /\ page'.at = "request" => answerOf.run < page'.attempt
        BY <2>1, <3>3, AskedAgain
      <4>2. /\ page' \in [at : {"request", "reading", "shown", "error"}, attempt : 1 .. 2]
            /\ page'.at \in {"request", "error"}
        BY <4>1
      <4> QED
        BY <1>2, <1>3, <2>1, <2>2, <3>3, <4>1, <4>2, PageKeeps
    <3> QED
      BY <2>1, <2>4, <3>2, <3>3
  <2> QED
    BY <2>3, <2>4
<1> QED
  BY <1>4, <1>5, <1>6, <1>7, <1>8

LEMMA StreamSteps ==
    ASSUME part = "stream", StreamInv, [QuestionNext]_questionVars
    PROVE  StreamInv'
<1>1. CASE Stream!Yield \/ Stream!Persist \/ Stream!Raise
  BY <1>1, RunSteps
<1>2. CASE Stream!Accepted
  <2>1. claimed \in {"none", "failed"} \/ claimed = "completed"
    BY <1>2 DEF Stream!Accepted
  <2> QED
    BY <1>2, <2>1, OwnRun, PageSteps
<1>3. CASE \/ Stream!TooEarly \/ Stream!Throws \/ Stream!Receive
           \/ Stream!EndsBetween \/ Stream!EndsAfterData
  BY <1>3, PageSteps
<1>4. CASE UNCHANGED streamVars
  BY <1>4 DEF streamVars, StreamInv, StreamTypes, RunSound, ReadSound, Stream!ShownIsStored,
              Stream!TypeOK, HasCollected, AnswerAfter, Events, Replaced, Stream!Stored,
              Stream!Piece
<1> QED
  BY <1>1, <1>2, <1>3, <1>4
     DEF questionVars, QuestionNext, Chatting, Citing, Streaming, Hinting, RankingHits,
         Selecting, Reranking, Calibrating

\* ChatAccumulator.apply, SSEParser and consume: a page that shows an answer without an error
\* shows the stored one, with its citations and its id, and never pieces of two answers,
\* wherever the streams of its two attempts end.
THEOREM AnswersShown == QuestionSpec => []ShownIsStored
<1> DEFINE Now == part = "stream"
           Sound == Now => StreamInv
<1>1. QuestionInit => Sound
  BY StreamBegin
<1>2. Sound /\ [QuestionNext]_questionVars => Sound'
  BY StreamSteps, PartStays
<1>3. Sound => ShownIsStored
  BY DEF ShownIsStored, StreamInv
<1> QED
  BY <1>1, <1>2, <1>3, PTL DEF QuestionSpec, questionVars

-------------------------------------------------------------------------------
(* What is left of a text *)

\* Ordered lists the numbers of a finite set.
LEMMA EnumeratedBy ==
    ASSUME NEW S, IsFiniteSet(S), S \subseteq Nat
    PROVE  LET e == Citations!Ordered(S, LAMBDA i, j : i < j) IN
           /\ Enumerates(e, Cardinality(S), S) /\ DOMAIN e = 1 .. Cardinality(S)
<1> DEFINE e == Citations!Ordered(S, LAMBDA i, j : i < j)
           R == {p \in S \X S : p[1] < p[2]}
           N == Cardinality(S)
           Chosen(k) == CHOOSE x \in S : Cardinality({y \in S : y < x}) = k - 1
<1>1. IsFiniteSet(S) /\ N \in Nat /\ \A x \in S : x \in Nat
  BY FS_CardinalityType
<1>2. \A i, j \in S : <<i, j>> \in R <=> i < j
  OBVIOUS
<1>3. e = [k \in 1 .. N |-> Chosen(k)]
  BY DEF Citations!Ordered, Citations!Cardinality, Cardinality
<1> HIDE DEF e, R
<1>4. StrictOrder(R, S)
  <2>1. \A x \in S : <<x, x>> \notin R
    BY <1>1, <1>2
  <2>2. \A x, y, z \in S : <<x, y>> \in R /\ <<y, z>> \in R => <<x, z>> \in R
    BY <1>1, <1>2
  <2>3. \A x, y \in S : x # y => <<x, y>> \in R \/ <<y, x>> \in R
    BY <1>1, <1>2
  <2> QED
    BY <2>1, <2>2, <2>3 DEF StrictOrder
<1>5. ASSUME NEW k \in 1 .. N
      PROVE  e[k] \in S /\ Cardinality(Preceding(R, S, e[k])) = k - 1
  <2>1. \A x \in S : Preceding(R, S, x) = {y \in S : y < x}
    BY <1>2 DEF Preceding
  <2>2. \E x \in S : Cardinality(Preceding(R, S, x)) = k - 1
    BY <1>1, <1>4, PlacesFilled
  <2>3. e[k] = Chosen(k)
    BY <1>3
  <2> QED
    BY <2>1, <2>2, <2>3
<1>6. e = [k \in 1 .. N |-> e[k]]
  <2> HIDE DEF Chosen
  <2> QED
    BY <1>3
<1>7. /\ e \in Seq(S) /\ Len(e) = N
      /\ \A x \in S : \E k \in 1 .. N : e[k] = x
      /\ \A i, j \in 1 .. N : i < j <=> <<e[i], e[j]>> \in R
  BY <1>1, <1>4, <1>5, <1>6, OrderedList
<1>8. e \in [1 .. N -> S]
  BY <1>5, <1>6
<1> QED
  BY <1>1, <1>2, <1>5, <1>7, <1>8 DEF Enumerates, e

\* w is t without some of its places; e says which are left.
Leaves(t, cut, w, e) ==
    /\ Enumerates(e, Len(w), DOMAIN t \ cut)
    /\ \A k \in 1 .. Len(w) : w[k] = t[e[k]]

\* What is left of a list without some of its places.
LEMMA WithoutIs ==
    ASSUME NEW C, NEW t \in Seq(C), NEW cut
    PROVE  LET w == Citations!Without(t, cut) IN
           /\ w \in Seq(C)
           /\ \E e : Leaves(t, cut, w, e)
<1> DEFINE S == DOMAIN t \ cut
           N == Cardinality(S)
           e == Citations!Ordered(S, LAMBDA i, j : i < j)
           w == Citations!Without(t, cut)
<1>1. IsFiniteSet(S) /\ S \subseteq 1 .. Len(t) /\ S \subseteq Nat /\ Len(t) \in Nat
  <2>1. DOMAIN t = 1 .. Len(t) /\ Len(t) \in Nat
    OBVIOUS
  <2>2. IsFiniteSet(1 .. Len(t))
    BY <2>1, FS_Interval
  <2> QED
    BY <2>1, <2>2, FS_Subset
<1>2. w = [k \in DOMAIN e |-> t[e[k]]]
  BY DEF Citations!Without
<1> HIDE DEF S, w, e
<1>3. Enumerates(e, N, S) /\ DOMAIN e = 1 .. N
  BY <1>1, EnumeratedBy DEF e
<1>4. N \in Nat /\ \A k \in 1 .. N : e[k] \in 1 .. Len(t)
  BY <1>1, <1>3 DEF Enumerates
<1>5. w = [k \in 1 .. N |-> t[e[k]]]
  BY <1>2, <1>3
<1>6. \A k \in 1 .. N : t[e[k]] \in C
  BY <1>4
<1>7. w \in Seq(C) /\ Len(w) = N
  BY <1>4, <1>5, <1>6
<1> QED
  BY <1>3, <1>5, <1>7 DEF w, S, Leaves

LEMMA WithoutIsOne ==
    ASSUME NEW C, NEW t \in Seq(C), NEW cut, NEW v \in Seq(C), NEW e,
           Leaves(t, cut, v, e)
    PROVE  v = Citations!Without(t, cut)
<1> DEFINE w == Citations!Without(t, cut)
           S == DOMAIN t \ cut
<1>1. S \in SUBSET Nat
  OBVIOUS
<1>2. w \in Seq(C)
  BY WithoutIs
<1>3. PICK d : Leaves(t, cut, w, d)
  BY WithoutIs
<1>4. /\ Enumerates(d, Len(w), S) /\ Enumerates(e, Len(v), S)
      /\ \A k \in 1 .. Len(w) : w[k] = t[d[k]]
      /\ \A k \in 1 .. Len(v) : v[k] = t[e[k]]
  BY <1>3 DEF Leaves
<1> HIDE DEF w, S
<1>5. Len(w) = Len(v) /\ \A k \in 1 .. Len(v) : d[k] = e[k]
  <2>1. Enumerates(d, Len(w), S) /\ Enumerates(e, Len(v), S)
    BY <1>4
  <2> QED
    BY <1>1, <2>1, OneEnumeration
<1>6. \A k \in 1 .. Len(v) : v[k] = w[k]
  BY <1>4, <1>5
<1>7. v = w
  BY <1>2, <1>5, <1>6
<1> QED
  BY <1>7 DEF w

\* What is cut from two lists in a row.
CutsInto(cut, a, b, cutA, cutB) ==
    /\ \A k \in 1 .. Len(a) : k \in cut <=> k \in cutA
    /\ \A k \in 1 .. Len(b) : Len(a) + k \in cut <=> k \in cutB

\* What is left of them.
LEMMA WithoutJoined ==
    ASSUME NEW C, NEW a \in Seq(C), NEW b \in Seq(C), NEW cut, NEW cutA, NEW cutB,
           CutsInto(cut, a, b, cutA, cutB)
    PROVE  Citations!Without(a \o b, cut)
           = Citations!Without(a, cutA) \o Citations!Without(b, cutB)
<1> DEFINE u == a \o b
           x == Citations!Without(a, cutA)
           y == Citations!Without(b, cutB)
           v == x \o y
<1>0. /\ \A k \in 1 .. Len(a) : k \in cut <=> k \in cutA
      /\ \A k \in 1 .. Len(b) : Len(a) + k \in cut <=> k \in cutB
  BY DEF CutsInto
<1>1. /\ u \in Seq(C) /\ Len(u) = Len(a) + Len(b) /\ Len(a) \in Nat /\ Len(b) \in Nat
      /\ \A k \in 1 .. Len(a) : u[k] = a[k]
      /\ \A k \in 1 .. Len(b) : u[Len(a) + k] = b[k]
  BY Joined
<1>2. x \in Seq(C) /\ y \in Seq(C)
  BY WithoutIs
<1>3. PICK d : Leaves(a, cutA, x, d)
  BY WithoutIs
<1>4. PICK e : Leaves(b, cutB, y, e)
  BY WithoutIs
<1> HIDE DEF x, y
<1>5. /\ v \in Seq(C) /\ Len(v) = Len(x) + Len(y) /\ Len(x) \in Nat /\ Len(y) \in Nat
      /\ \A k \in 1 .. Len(x) : v[k] = x[k]
      /\ \A k \in 1 .. Len(y) : v[Len(x) + k] = y[k]
  BY <1>2, Joined
<1> HIDE DEF u, v
<1> DEFINE f == [k \in 1 .. Len(v) |-> IF k <= Len(x) THEN d[k] ELSE Len(a) + e[k - Len(x)]]
<1>6. /\ \A k \in 1 .. Len(x) : d[k] \in 1 .. Len(a) /\ d[k] \notin cutA /\ x[k] = a[d[k]]
      /\ \A n \in 1 .. Len(a) : n \notin cutA => \E k \in 1 .. Len(x) : d[k] = n
      /\ \A i, j \in 1 .. Len(x) : i < j => d[i] < d[j]
  <2>1. DOMAIN a = 1 .. Len(a)
    OBVIOUS
  <2> QED
    BY <1>3, <2>1 DEF Leaves, Enumerates
<1>7. /\ \A k \in 1 .. Len(y) : e[k] \in 1 .. Len(b) /\ e[k] \notin cutB /\ y[k] = b[e[k]]
      /\ \A n \in 1 .. Len(b) : n \notin cutB => \E k \in 1 .. Len(y) : e[k] = n
      /\ \A i, j \in 1 .. Len(y) : i < j => e[i] < e[j]
  <2>1. DOMAIN b = 1 .. Len(b)
    OBVIOUS
  <2> QED
    BY <1>4, <2>1 DEF Leaves, Enumerates
<1>8. /\ \A k \in 1 .. Len(x) : k \in 1 .. Len(v) /\ f[k] = d[k]
      /\ \A k \in 1 .. Len(y) : Len(x) + k \in 1 .. Len(v) /\ f[Len(x) + k] = Len(a) + e[k]
  BY <1>5
<1>9. \A k \in 1 .. Len(v) : k \in 1 .. Len(x) \/ \E l \in 1 .. Len(y) : k = Len(x) + l
  <2> TAKE k \in 1 .. Len(v)
  <2>1. k \in 1 .. Len(x) \/ (k - Len(x) \in 1 .. Len(y) /\ k = Len(x) + (k - Len(x)))
    BY <1>5
  <2> QED
    BY <2>1
<1> DEFINE S == DOMAIN u \ cut
<1>10. \A n : n \in S <=> n \in 1 .. Len(a) + Len(b) /\ n \notin cut
  BY <1>1
<1>11. f = [k \in 1 .. Len(v) |-> f[k]]
  OBVIOUS
<1> HIDE DEF S, f
<1>12. ASSUME NEW k \in 1 .. Len(v) PROVE f[k] \in S /\ v[k] = u[f[k]]
  <2>1. CASE k \in 1 .. Len(x)
    <3>1. f[k] = d[k] /\ d[k] \in 1 .. Len(a) /\ d[k] \notin cut
      BY <1>0, <1>6, <1>8, <2>1
    <3>2. v[k] = u[f[k]]
      BY <1>1, <1>5, <1>6, <2>1, <3>1
    <3>3. d[k] \in 1 .. Len(a) + Len(b)
      BY <1>1, <3>1
    <3> QED
      BY <1>10, <3>1, <3>2, <3>3
  <2>2. ASSUME NEW l \in 1 .. Len(y), k = Len(x) + l PROVE f[k] \in S /\ v[k] = u[f[k]]
    <3>1. f[k] = Len(a) + e[l] /\ e[l] \in 1 .. Len(b) /\ Len(a) + e[l] \notin cut
      BY <1>0, <1>7, <1>8, <2>2
    <3>2. v[k] = u[f[k]]
      <4>1. v[k] = y[l]
        BY <1>5, <2>2
      <4>2. y[l] = b[e[l]]
        BY <1>7
      <4>3. u[f[k]] = b[e[l]]
        BY <1>1, <3>1
      <4> QED
        BY <4>1, <4>2, <4>3
    <3>3. Len(a) + e[l] \in 1 .. Len(a) + Len(b)
      BY <1>1, <3>1
    <3> QED
      BY <1>10, <3>1, <3>2, <3>3
  <2> QED
    BY <1>9, <2>1, <2>2
<1>13. ASSUME NEW n \in S PROVE \E k \in 1 .. Len(v) : f[k] = n
  <2>1. n \in 1 .. Len(a) + Len(b) /\ n \notin cut
    BY <1>10
  <2>2. CASE n <= Len(a)
    <3>1. n \in 1 .. Len(a) /\ n \notin cutA
      BY <1>0, <1>1, <2>1, <2>2
    <3>2. PICK k \in 1 .. Len(x) : d[k] = n
      BY <1>6, <3>1
    <3> QED
      BY <1>8, <3>2
  <2>3. CASE n > Len(a)
    <3> DEFINE l == n - Len(a)
    <3>1. l \in 1 .. Len(b) /\ n = Len(a) + l
      BY <1>1, <2>1, <2>3
    <3>2. l \notin cutB
      BY <1>0, <2>1, <3>1
    <3>3. PICK k \in 1 .. Len(y) : e[k] = l
      BY <1>7, <3>1, <3>2
    <3>4. Len(x) + k \in 1 .. Len(v) /\ f[Len(x) + k] = n
      BY <1>8, <3>1, <3>3
    <3> QED
      BY <3>4
  <2> QED
    BY <1>1, <2>1, <2>2, <2>3
<1>14. ASSUME NEW i \in 1 .. Len(v), NEW j \in 1 .. Len(v), i < j PROVE f[i] < f[j]
  <2>1. CASE i \in 1 .. Len(x) /\ j \in 1 .. Len(x)
    BY <1>6, <1>8, <1>14, <2>1
  <2>2. ASSUME i \in 1 .. Len(x), NEW l \in 1 .. Len(y), j = Len(x) + l PROVE f[i] < f[j]
    <3>1. f[i] \in 1 .. Len(a) /\ f[j] = Len(a) + e[l] /\ e[l] \in 1 .. Len(b)
      BY <1>6, <1>7, <1>8, <2>2
    <3> QED
      BY <1>1, <3>1
  <2>3. ASSUME NEW k \in 1 .. Len(y), i = Len(x) + k, NEW l \in 1 .. Len(y), j = Len(x) + l
        PROVE f[i] < f[j]
    <3>1. f[i] = Len(a) + e[k] /\ f[j] = Len(a) + e[l] /\ k < l
      BY <1>5, <1>8, <1>14, <2>3
    <3>2. e[k] < e[l] /\ e[k] \in 1 .. Len(b) /\ e[l] \in 1 .. Len(b)
      BY <1>7, <3>1
    <3> QED
      BY <1>1, <3>1, <3>2
  <2>4. ASSUME NEW k \in 1 .. Len(y), i = Len(x) + k, j \in 1 .. Len(x) PROVE FALSE
    BY <1>5, <1>14, <2>4
  <2> QED
    BY <1>9, <2>1, <2>2, <2>3, <2>4
<1>15. f \in [1 .. Len(v) -> S]
  BY <1>11, <1>12
<1>16. Leaves(u, cut, v, f)
  BY <1>5, <1>12, <1>13, <1>14, <1>15 DEF Leaves, Enumerates, S
<1>17. v = Citations!Without(u, cut)
  BY <1>1, <1>5, <1>16, WithoutIsOne
<1> QED
  BY <1>17 DEF v, u, x, y

-------------------------------------------------------------------------------
(* Markers *)

LEMMA NoDigits ==
    /\ "[" \notin Citations!Digits /\ "]" \notin Citations!Digits
    /\ "S" \notin Citations!Digits /\ " " \notin Citations!Digits
  BY DEF Citations!Digits

\* A marker stands from i to j.
Marks(t, i, j) ==
    /\ i \in 1 .. Len(t) /\ j \in 1 .. Len(t) /\ i + 2 < j
    /\ t[i] = "[" /\ t[i + 1] = "S" /\ t[j] = "]"
    /\ \A k \in i + 2 .. j - 1 : t[k] \in Citations!Digits

LEMMA MarkerIs ==
    ASSUME NEW t, NEW i, NEW j
    PROVE  <<i, j>> \in Citations!Markers(t) <=> Marks(t, i, j)
  BY DEF Citations!Markers, Marks

LEMMA MarkersArePairs ==
    ASSUME NEW t, NEW m \in Citations!Markers(t)
    PROVE  m = <<m[1], m[2]>> /\ Marks(t, m[1], m[2])
  BY DEF Citations!Markers, Marks

\* A bracket at each end and none between, and no blank.
Bracketed(t, i, j) ==
    \A k \in i .. j : t[k] # " " /\ (t[k] = "[" => k = i) /\ (t[k] = "]" => k = j)

LEMMA InMarker ==
    ASSUME NEW t, Len(t) \in Nat, NEW i, NEW j, Marks(t, i, j)
    PROVE  Bracketed(t, i, j)
<1>1. Len(t) \in Nat
  OBVIOUS
<1>2. /\ i \in 1 .. Len(t) /\ j \in 1 .. Len(t) /\ i + 2 < j
      /\ t[i] = "[" /\ t[i + 1] = "S" /\ t[j] = "]"
      /\ \A k \in i + 2 .. j - 1 : t[k] \in Citations!Digits
  BY DEF Marks
<1>3. \A k \in i + 1 .. j - 1 : k = i + 1 \/ k \in i + 2 .. j - 1
  BY <1>1, <1>2
<1>4. \A k \in i + 1 .. j - 1 : t[k] = "S" \/ t[k] \in Citations!Digits
  BY <1>2, <1>3
<1>5. \A k \in i .. j : k = i \/ k = j \/ k \in i + 1 .. j - 1
  BY <1>1, <1>2
<1>6. \A k \in i .. j : t[k] # " " /\ (t[k] = "[" => k = i) /\ (t[k] = "]" => k = j)
  BY <1>2, <1>4, <1>5, NoDigits
<1> QED
  BY <1>6 DEF Bracketed

\* Two markers have no place in common.
LEMMA MarkersApart ==
    ASSUME NEW C, NEW t \in Seq(C), NEW i, NEW j, NEW k, NEW l, NEW n,
           Marks(t, i, j), Marks(t, k, l), n \in i .. j, n \in k .. l
    PROVE  i = k /\ j = l
<1>0. Len(t) \in Nat
  OBVIOUS
<1>1. /\ i \in 1 .. Len(t) /\ j \in 1 .. Len(t) /\ i + 2 < j /\ t[i] = "[" /\ t[j] = "]"
      /\ \A x \in i .. j : t[x] # " " /\ (t[x] = "[" => x = i) /\ (t[x] = "]" => x = j)
  <2>1. Bracketed(t, i, j)
    BY <1>0, InMarker
  <2> QED
    BY <2>1 DEF Bracketed, Marks
<1>2. /\ k \in 1 .. Len(t) /\ l \in 1 .. Len(t) /\ k + 2 < l /\ t[k] = "[" /\ t[l] = "]"
      /\ \A x \in k .. l : t[x] # " " /\ (t[x] = "[" => x = k) /\ (t[x] = "]" => x = l)
  <2>1. Bracketed(t, k, l)
    BY <1>0, InMarker
  <2> QED
    BY <2>1 DEF Bracketed, Marks
<1>3. /\ i \in Int /\ j \in Int /\ k \in Int /\ l \in Int /\ n \in Int
      /\ i <= n /\ n <= j /\ k <= n /\ n <= l /\ i < j /\ k < l
  <2>1. i \in 1 .. Len(t) /\ j \in 1 .. Len(t) /\ i + 2 < j
    BY <1>1
  <2>2. k \in 1 .. Len(t) /\ l \in 1 .. Len(t) /\ k + 2 < l
    BY <1>2
  <2>3. i \in Int /\ j \in Int /\ k \in Int /\ l \in Int
    BY <1>0, <2>1, <2>2
  <2> QED
    BY <2>1, <2>2, <2>3
<1>4. i = k
  <2>1. k \in i .. j \/ i \in k .. l
    BY <1>3
  <2> QED
    BY <1>1, <1>2, <2>1
<1>5. j = l
  <2>1. l \in i .. j \/ j \in k .. l
    BY <1>3
  <2> QED
    BY <1>1, <1>2, <2>1
<1> QED
  BY <1>4, <1>5

\* A marker is one wherever its characters stand.
LEMMA MarkerMoves ==
    ASSUME NEW C, NEW t \in Seq(C), NEW D, NEW u \in Seq(D),
           NEW i, NEW j, NEW d, NEW e, NEW c \in Int,
           Marks(t, i, j), d = c + i, e = c + j,
           \A k \in i .. j : c + k \in 1 .. Len(u) /\ u[c + k] = t[k]
    PROVE  Marks(u, d, e) /\ Citations!Id(u, <<d, e>>) = Citations!Id(t, <<i, j>>)
<1>0. Len(t) \in Nat /\ Len(u) \in Nat
  OBVIOUS
<1>1. /\ i \in 1 .. Len(t) /\ j \in 1 .. Len(t) /\ i + 2 < j
      /\ t[i] = "[" /\ t[i + 1] = "S" /\ t[j] = "]"
      /\ \A k \in i + 2 .. j - 1 : t[k] \in Citations!Digits
  BY DEF Marks
<1>2. i \in Int /\ j \in Int /\ d \in Int /\ e \in Int
  BY <1>0, <1>1
<1>3. i \in i .. j /\ i + 1 \in i .. j /\ j \in i .. j /\ \A k \in i + 2 .. j - 1 : k \in i .. j
  BY <1>1, <1>2
<1>4. u[d] = "[" /\ u[d + 1] = "S" /\ u[e] = "]"
  <2>1. d + 1 = c + (i + 1)
    BY <1>2
  <2> QED
    BY <1>1, <1>3, <2>1
<1>5. ASSUME NEW k \in d + 2 .. e - 1 PROVE u[k] \in Citations!Digits
  <2>1. k - c \in i + 2 .. j - 1 /\ c + (k - c) = k
    BY <1>2
  <2> QED
    BY <1>1, <1>3, <2>1
<1>6. d \in 1 .. Len(u) /\ e \in 1 .. Len(u) /\ d + 2 < e
  BY <1>1, <1>2, <1>3
<1>7. Marks(u, d, e)
  BY <1>4, <1>5, <1>6 DEF Marks
<1> DEFINE x == SubSeq(t, i + 2, j - 1)
           y == SubSeq(u, d + 2, e - 1)
<1>9. x \in Seq(C) /\ Len(x) = j - i - 2 /\ \A k \in 1 .. j - i - 2 : x[k] = t[i + 1 + k]
  BY <1>0, <1>1, <1>2
<1>10. y \in Seq(D) /\ Len(y) = e - d - 2 /\ \A k \in 1 .. e - d - 2 : y[k] = u[d + 1 + k]
  <2>1. /\ d + 2 \in 1 .. Len(u) + 1 /\ e - 1 \in d + 1 .. Len(u)
        /\ (e - 1) - (d + 2) + 1 = e - d - 2
        /\ \A k \in 1 .. e - d - 2 : (d + 2) + k - 1 = d + 1 + k
    BY <1>0, <1>2, <1>6
  <2> QED
    BY <1>0, <1>2, <2>1
<1>11. /\ e - d - 2 = j - i - 2
       /\ \A k \in 1 .. j - i - 2 : i + 1 + k \in i .. j /\ d + 1 + k = c + (i + 1 + k)
  BY <1>1, <1>2
<1> HIDE DEF x, y
<1>12. ASSUME NEW k \in 1 .. j - i - 2 PROVE x[k] = y[k]
  <2>1. x[k] = t[i + 1 + k] /\ i + 1 + k \in i .. j
    BY <1>9, <1>11
  <2>2. y[k] = u[d + 1 + k] /\ d + 1 + k = c + (i + 1 + k)
    BY <1>10, <1>11
  <2> QED
    BY <1>1, <2>1, <2>2
<1>13. x = y
  <2>1. x = [k \in 1 .. j - i - 2 |-> x[k]]
    BY <1>9
  <2>2. y = [k \in 1 .. j - i - 2 |-> y[k]]
    BY <1>10, <1>11
  <2> HIDE DEF Citations!Id
  <2> QED
    BY <1>12, <2>1, <2>2, Zenon
<1>14. Citations!Id(t, <<i, j>>) = x
  BY DEF Citations!Id, x
<1>15. Citations!Id(u, <<d, e>>) = y
  BY DEF Citations!Id, y
<1> QED
  BY <1>7, <1>13, <1>14, <1>15

\* Where an unfinished marker may begin.
Unfinished(t, i) ==
    /\ i \in 1 .. Len(t) /\ t[i] = "["
    /\ i < Len(t) => t[i + 1] = "S"
    /\ \A k \in i + 2 .. Len(t) : t[k] \in Citations!Digits

LEMMA HeldFromIs ==
    ASSUME NEW C, NEW t \in Seq(C)
    PROVE  LET h == Citations!HeldFrom(t) IN
           /\ h \in 1 .. Len(t) + 1
           /\ h <= Len(t) => Unfinished(t, h)
           /\ \A i : Unfinished(t, i) => i = h
<1> DEFINE U == {i \in DOMAIN t :
                   /\ t[i] = "["
                   /\ i < Len(t) => t[i + 1] = "S"
                   /\ \A k \in i + 2 .. Len(t) : t[k] \in Citations!Digits}
           h == Citations!HeldFrom(t)
<1>1. Len(t) \in Nat /\ DOMAIN t = 1 .. Len(t)
  OBVIOUS
<1>2. \A i : i \in U <=> Unfinished(t, i)
  BY <1>1 DEF Unfinished
<1>3. h = IF U = {} THEN Len(t) + 1 ELSE CHOOSE i \in U : TRUE
  BY DEF Citations!HeldFrom
<1> HIDE DEF U, h
<1>4. ASSUME NEW i \in U, NEW j \in U, i < j PROVE FALSE
  <2>1. /\ i \in 1 .. Len(t) /\ j \in 1 .. Len(t) /\ t[j] = "[" /\ t[i + 1] = "S"
        /\ \A k \in i + 2 .. Len(t) : t[k] \in Citations!Digits
    BY <1>1, <1>2, <1>4 DEF Unfinished
  <2>2. j = i + 1 \/ j \in i + 2 .. Len(t)
    BY <1>1, <1>4, <2>1
  <2> QED
    BY <2>1, <2>2, NoDigits
<1>5. \A i \in U : i \in 1 .. Len(t)
  BY <1>2 DEF Unfinished
<1>6. \A i, j \in U : i = j
  BY <1>1, <1>4, <1>5
<1>7. CASE U = {}
  BY <1>1, <1>2, <1>3, <1>7 DEF h
<1>8. CASE U # {}
  <2>1. h \in U
    BY <1>3, <1>8
  <2> QED
    BY <1>1, <1>2, <1>5, <1>6, <2>1 DEF h
<1> QED
  BY <1>7, <1>8

\* An unfinished marker of two lists in a row begins in the first, where it is one too, or in
\* the second.
LEMMA UnfinishedJoined ==
    ASSUME NEW C, NEW a \in Seq(C), NEW b \in Seq(C), NEW i
    PROVE  /\ Unfinished(a \o b, i) => \/ Unfinished(a, i)
                                       \/ i \in Int /\ Unfinished(b, i - Len(a))
           /\ i \in Int /\ Unfinished(b, i - Len(a)) => Unfinished(a \o b, i)
<1> DEFINE u == a \o b
           A == Len(a)
           B == Len(b)
<1>1. /\ u \in Seq(C) /\ Len(u) = A + B /\ A \in Nat /\ B \in Nat
      /\ \A k \in 1 .. A : u[k] = a[k]
      /\ \A k \in 1 .. B : u[A + k] = b[k]
  BY Joined
<1> HIDE DEF u, A, B
<1>2. ASSUME Unfinished(u, i), i <= A PROVE Unfinished(a, i)
  <2>1. /\ i \in 1 .. A + B /\ u[i] = "["
        /\ i < A + B => u[i + 1] = "S"
        /\ \A k \in i + 2 .. A + B : u[k] \in Citations!Digits
    BY <1>1, <1>2 DEF Unfinished
  <2>2. i \in 1 .. A /\ a[i] = "["
    BY <1>1, <1>2, <2>1
  <2>3. i < A => a[i + 1] = "S"
    BY <1>1, <2>1, <2>2
  <2>4. \A k \in i + 2 .. A : k \in i + 2 .. A + B /\ k \in 1 .. A
    BY <1>1, <2>2
  <2>5. \A k \in i + 2 .. A : a[k] \in Citations!Digits
    BY <1>1, <2>1, <2>4
  <2> QED
    BY <2>2, <2>3, <2>5 DEF Unfinished, A
<1>3. ASSUME Unfinished(u, i), i > A PROVE i \in Int /\ Unfinished(b, i - A)
  <2>1. /\ i \in 1 .. A + B /\ u[i] = "["
        /\ i < A + B => u[i + 1] = "S"
        /\ \A k \in i + 2 .. A + B : u[k] \in Citations!Digits
    BY <1>1, <1>3 DEF Unfinished
  <2> DEFINE n == i - A
  <2>2. n \in 1 .. B /\ i = A + n
    BY <1>1, <1>3, <2>1
  <2> HIDE DEF n
  <2>3. b[n] = "["
    BY <1>1, <2>1, <2>2
  <2>4. ASSUME n < B PROVE b[n + 1] = "S"
    <3>1. A \in Nat /\ B \in Nat
      BY <1>1
    <3>2. n + 1 \in 1 .. B /\ A + (n + 1) = i + 1 /\ i < A + B
      BY <2>2, <2>4, <3>1
    <3> QED
      BY <1>1, <2>1, <3>2
  <2>5. ASSUME NEW k \in n + 2 .. B PROVE b[k] \in Citations!Digits
    <3>1. k \in 1 .. B /\ A + k \in i + 2 .. A + B
      BY <1>1, <2>2
    <3> QED
      BY <1>1, <2>1, <3>1
  <2>6. Unfinished(b, n)
    BY <2>2, <2>3, <2>4, <2>5 DEF Unfinished, B
  <2> QED
    BY <2>1, <2>6 DEF n
<1>4. ASSUME i \in Int, Unfinished(b, i - A) PROVE Unfinished(u, i)
  <2> DEFINE n == i - A
  <2>1. i = A + n /\ n \in Int
    BY <1>1, <1>4
  <2> HIDE DEF n
  <2>2. /\ n \in 1 .. B /\ b[n] = "["
        /\ n < B => b[n + 1] = "S"
        /\ \A k \in n + 2 .. B : b[k] \in Citations!Digits
    BY <1>4 DEF Unfinished, B, n
  <2>3. i \in 1 .. A + B /\ u[i] = "["
    BY <1>1, <2>1, <2>2
  <2>4. ASSUME i < A + B PROVE u[i + 1] = "S"
    <3>1. n + 1 \in 1 .. B /\ A + (n + 1) = i + 1 /\ n < B
      BY <1>1, <2>1, <2>2, <2>4
    <3> QED
      BY <1>1, <2>2, <3>1
  <2>5. ASSUME NEW k \in i + 2 .. A + B PROVE u[k] \in Citations!Digits
    <3>1. k - A \in 1 .. B /\ k - A \in n + 2 .. B /\ A + (k - A) = k
      BY <1>1, <2>1, <2>2
    <3> QED
      BY <1>1, <2>2, <3>1
  <2> QED
    BY <1>1, <2>3, <2>4, <2>5 DEF Unfinished
<1>5. Unfinished(u, i) => i \in Nat
  BY <1>1 DEF Unfinished
<1> QED
  BY <1>1, <1>2, <1>3, <1>4, <1>5 DEF u, A, B

\* What is held back of a text, and what of the text and more of it.
LEMMA HeldJoined ==
    ASSUME NEW C, NEW s \in Seq(C), NEW p \in Seq(C)
    PROVE  LET b == Citations!Before(s)
               v == Citations!Held(s) \o p
           IN  /\ b \in Seq(C) /\ v \in Seq(C) /\ s \o p = b \o v
               /\ Citations!Before(s \o p) = b \o Citations!Before(v)
               /\ Citations!Held(s \o p) = Citations!Held(v)
<1> DEFINE h == Citations!HeldFrom(s)
           b == Citations!Before(s)
           rest == Citations!Held(s)
           v == rest \o p
           u == s \o p
           hv == Citations!HeldFrom(v)
           hu == Citations!HeldFrom(u)
<1>1. /\ h \in 1 .. Len(s) + 1 /\ Len(s) \in Nat
      /\ \A i : Unfinished(s, i) => i = h
  BY HeldFromIs
<1>2. b = SubSeq(s, 1, h - 1) /\ rest = SubSeq(s, h, Len(s))
  BY DEF Citations!Before, Citations!Held
<1> HIDE DEF h, b, rest, hv, hu
<1>3. b \in Seq(C) /\ Len(b) = h - 1 /\ \A k \in 1 .. h - 1 : b[k] = s[k]
  BY <1>1, <1>2
<1>4. /\ rest \in Seq(C) /\ Len(rest) = Len(s) - h + 1
      /\ \A k \in 1 .. Len(s) - h + 1 : rest[k] = s[h + k - 1]
  BY <1>1, <1>2
<1>5. s = b \o rest
  <2> DEFINE j == b \o rest
  <2>1. /\ j \in Seq(C) /\ Len(j) = Len(b) + Len(rest)
        /\ \A k \in 1 .. Len(b) : j[k] = b[k]
        /\ \A k \in 1 .. Len(rest) : j[Len(b) + k] = rest[k]
    <3>1. b \in Seq(C) /\ rest \in Seq(C)
      BY <1>3, <1>4
    <3> QED
      BY <3>1, Joined
  <2> HIDE DEF j
  <2>2. Len(j) = Len(s)
    BY <1>1, <1>3, <1>4, <2>1
  <2>3. ASSUME NEW k \in 1 .. Len(s) PROVE j[k] = s[k]
    <3>1. CASE k <= h - 1
      BY <1>1, <1>3, <2>1, <3>1
    <3>2. CASE k > h - 1
      <4>1. k - (h - 1) \in 1 .. Len(s) - h + 1 /\ (h - 1) + (k - (h - 1)) = k
            /\ h + (k - (h - 1)) - 1 = k
        BY <1>1, <3>2
      <4>2. j[k] = rest[k - (h - 1)]
        BY <1>3, <1>4, <2>1, <4>1
      <4> QED
        BY <1>4, <4>1, <4>2
    <3> QED
      BY <1>1, <3>1, <3>2
  <2> QED
    BY <2>1, <2>2, <2>3, SameList DEF j
<1>6. u = b \o v
  BY <1>3, <1>4, <1>5
<1>7. v \in Seq(C) /\ u \in Seq(C) /\ Len(u) = Len(b) + Len(v)
      /\ Len(v) \in Nat /\ Len(b) \in Nat
  <2>1. v \in Seq(C)
    BY <1>4
  <2> QED
    BY <1>3, <1>6, <2>1, Joined
<1>8. /\ hv \in 1 .. Len(v) + 1 /\ (hv <= Len(v) => Unfinished(v, hv))
      /\ \A i : Unfinished(v, i) => i = hv
  BY <1>7, HeldFromIs DEF hv
<1>9. /\ hu \in 1 .. Len(u) + 1 /\ (hu <= Len(u) => Unfinished(u, hu))
      /\ \A i : Unfinished(u, i) => i = hu
  BY <1>7, HeldFromIs DEF hu
<1>10. ASSUME NEW i PROVE Unfinished(u, i) <=> i \in Int /\ Unfinished(v, i - Len(b))
  <2>1. /\ Unfinished(u, i) => Unfinished(b, i) \/ (i \in Int /\ Unfinished(v, i - Len(b)))
        /\ i \in Int /\ Unfinished(v, i - Len(b)) => Unfinished(u, i)
    BY <1>3, <1>6, <1>7, UnfinishedJoined
  <2>2. Unfinished(u, i) => Unfinished(s, i) \/ (i \in Int /\ Unfinished(p, i - Len(s)))
    BY UnfinishedJoined
  <2>3. ASSUME Unfinished(b, i), Unfinished(u, i) PROVE FALSE
    <3>1. i \in 1 .. h - 1
      BY <1>3, <2>3 DEF Unfinished
    <3>2. ~Unfinished(p, i - Len(s))
      BY <1>1, <3>1 DEF Unfinished
    <3> QED
      BY <1>1, <2>2, <2>3, <3>1, <3>2
  <2> QED
    BY <2>1, <2>3
<1> HIDE DEF u, v
<1>11. hu = Len(b) + hv
  <2>1. CASE hv <= Len(v)
    <3>1. Len(b) + hv \in Int /\ (Len(b) + hv) - Len(b) = hv
      BY <1>7, <1>8
    <3>2. Unfinished(v, (Len(b) + hv) - Len(b))
      BY <1>8, <2>1, <3>1
    <3>3. Unfinished(u, Len(b) + hv)
      BY <1>10, <3>1, <3>2
    <3> QED
      BY <1>9, <3>3
  <2>2. CASE hv = Len(v) + 1
    <3>1. ASSUME hu <= Len(u) PROVE FALSE
      <4>1. Unfinished(v, hu - Len(b))
        BY <1>9, <1>10, <3>1
      <4>2. hu - Len(b) = hv
        BY <1>8, <4>1
      <4>3. hu - Len(b) \in 1 .. Len(v)
        BY <4>1 DEF Unfinished
      <4> QED
        BY <1>7, <2>2, <4>2, <4>3
    <3> QED
      BY <1>7, <1>9, <2>2, <3>1
  <2> QED
    BY <1>7, <1>8, <2>1, <2>2
<1>12. /\ SubSeq(u, 1, Len(b) + hv - 1) = b \o SubSeq(v, 1, hv - 1)
       /\ SubSeq(u, Len(b) + hv, Len(b) + Len(v)) = SubSeq(v, hv, Len(v))
  BY <1>3, <1>6, <1>7, <1>8, JoinedCut
<1>13. Citations!Before(u) = b \o Citations!Before(v)
  <2>1. Citations!Before(u) = SubSeq(u, 1, hu - 1) /\ Citations!Before(v) = SubSeq(v, 1, hv - 1)
    BY DEF Citations!Before, hu, hv
  <2>2. Citations!Before(u) = SubSeq(u, 1, Len(b) + hv - 1)
    <3>1. hu - 1 = Len(b) + hv - 1
      <4>1. hu \in Int /\ hv \in Int /\ Len(b) \in Int
        BY <1>7, <1>8, <1>9
      <4> QED
        BY <1>11, <4>1
    <3> QED
      BY <2>1, <3>1, Zenon
  <2> QED
    BY <1>12, <2>1, <2>2, Zenon
<1>14. Citations!Held(u) = Citations!Held(v)
  BY <1>7, <1>11, <1>12 DEF Citations!Held, hu, hv
<1> QED
  BY <1>3, <1>6, <1>7, <1>13, <1>14 DEF b, u, v, rest

\* The places of the foreign markers.
ForeignPlaces(t) == UNION {m[1] .. m[2] : m \in Citations!Foreign(t)}

LEMMA ForeignPlacesIs ==
    ASSUME NEW t, NEW n
    PROVE  n \in ForeignPlaces(t) <=>
              \E i, j : /\ Marks(t, i, j) /\ n \in i .. j
                        /\ Citations!Id(t, <<i, j>>) \notin Citations!Allowlist
<1>1. ASSUME n \in ForeignPlaces(t)
      PROVE  \E i, j : /\ Marks(t, i, j) /\ n \in i .. j
                       /\ Citations!Id(t, <<i, j>>) \notin Citations!Allowlist
  <2>1. PICK m \in Citations!Foreign(t) : n \in m[1] .. m[2]
    BY <1>1 DEF ForeignPlaces
  <2>2. m \in Citations!Markers(t) /\ Citations!Id(t, m) \notin Citations!Allowlist
    BY DEF Citations!Foreign
  <2>3. m = <<m[1], m[2]>> /\ Marks(t, m[1], m[2])
    BY <2>2, MarkersArePairs
  <2>4. Citations!Id(t, <<m[1], m[2]>>) \notin Citations!Allowlist
    BY <2>2, <2>3
  <2> QED
    BY <2>1, <2>3, <2>4
<1>2. ASSUME NEW i, NEW j, Marks(t, i, j), n \in i .. j,
             Citations!Id(t, <<i, j>>) \notin Citations!Allowlist
      PROVE  n \in ForeignPlaces(t)
  <2> DEFINE m == <<i, j>>
  <2>1. m[1] = i /\ m[2] = j
    OBVIOUS
  <2>2. m \in Citations!Markers(t)
    BY <1>2, MarkerIs
  <2> HIDE DEF m
  <2>3. m \in Citations!Foreign(t)
    BY <1>2, <2>2 DEF Citations!Foreign, m
  <2> QED
    BY <1>2, <2>1, <2>3 DEF ForeignPlaces
<1> QED
  BY <1>1, <1>2

\* No marker stands in both of two lists in a row.
Apart(a, b) == \A i, j : Marks(a \o b, i, j) => j <= Len(a) \/ i > Len(a)

\* What is allowed of two such lists.
LEMMA AllowedJoined ==
    ASSUME NEW C, NEW a \in Seq(C), NEW b \in Seq(C), Apart(a, b)
    PROVE  Citations!Allowed(a \o b) = Citations!Allowed(a) \o Citations!Allowed(b)
<1> DEFINE u == a \o b
           cut == ForeignPlaces(u)
           cutA == ForeignPlaces(a)
           cutB == ForeignPlaces(b)
           A == Len(a)
           B == Len(b)
           Barred(t, i, j) == Citations!Id(t, <<i, j>>) \notin Citations!Allowlist
<1>1. /\ u \in Seq(C) /\ Len(u) = A + B
      /\ \A k \in 1 .. A : u[k] = a[k]
      /\ \A k \in 1 .. B : u[A + k] = b[k]
  BY Joined
<1>2. A \in Nat /\ B \in Nat
  OBVIOUS
<1>3. \A t, n : n \in ForeignPlaces(t) <=>
                    \E i, j : Marks(t, i, j) /\ n \in i .. j /\ Barred(t, i, j)
  BY ForeignPlacesIs
<1>4. \A i, j : Marks(u, i, j) => j <= A \/ i > A
  BY DEF Apart
<1> HIDE DEF u, cut, cutA, cutB, A, B, Barred
<1>5. ASSUME NEW t \in Seq(C), NEW i, NEW j, Marks(t, i, j)
      PROVE  i \in 1 .. Len(t) /\ j \in 1 .. Len(t) /\ i < j /\ i \in Int /\ j \in Int
  <2>1. Len(t) \in Nat
    OBVIOUS
  <2>2. i \in 1 .. Len(t) /\ j \in 1 .. Len(t) /\ i + 2 < j
    BY <1>5 DEF Marks
  <2>3. i \in Int /\ j \in Int
    BY <2>1, <2>2
  <2> QED
    BY <2>2, <2>3
<1>6. ASSUME NEW i, NEW j, Marks(u, i, j), j <= A
      PROVE  Marks(a, i, j) /\ (Barred(u, i, j) <=> Barred(a, i, j))
  <2>1. i \in 1 .. Len(u) /\ i \in Int /\ j \in Int
    BY <1>1, <1>5, <1>6
  <2>2. \A k \in i .. j : 0 + k \in 1 .. A /\ a[0 + k] = u[k]
    BY <1>1, <1>2, <1>6, <2>1
  <2>3. i = 0 + i /\ j = 0 + j
    BY <2>1
  <2>4. Marks(a, i, j) /\ Citations!Id(a, <<i, j>>) = Citations!Id(u, <<i, j>>)
    BY <1>1, <1>6, <2>2, <2>3, MarkerMoves DEF A
  <2> QED
    BY <2>4 DEF Barred
<1>7. ASSUME NEW i, NEW j, Marks(a, i, j)
      PROVE  Marks(u, i, j) /\ (Barred(u, i, j) <=> Barred(a, i, j))
  <2>1. i \in 1 .. A /\ j \in 1 .. A /\ i \in Int /\ j \in Int
    BY <1>5, <1>7 DEF A
  <2>2. \A k \in i .. j : 0 + k \in 1 .. Len(u) /\ u[0 + k] = a[k]
    BY <1>1, <1>2, <2>1
  <2>3. i = 0 + i /\ j = 0 + j
    BY <2>1
  <2>4. Marks(u, i, j) /\ Citations!Id(u, <<i, j>>) = Citations!Id(a, <<i, j>>)
    BY <1>1, <1>7, <2>2, <2>3, MarkerMoves
  <2> QED
    BY <2>4 DEF Barred
<1>8. ASSUME NEW i, NEW j, Marks(u, i, j), i > A
      PROVE  Marks(b, i - A, j - A) /\ (Barred(u, i, j) <=> Barred(b, i - A, j - A))
  <2>1. j \in 1 .. Len(u) /\ i \in Int /\ j \in Int
    BY <1>1, <1>5, <1>8
  <2>2. \A k \in i .. j : (-A) + k \in 1 .. B /\ A + ((-A) + k) = k
    BY <1>1, <1>2, <1>8, <2>1
  <2>3. \A k \in i .. j : (-A) + k \in 1 .. B /\ b[(-A) + k] = u[k]
    BY <1>1, <2>2
  <2> DEFINE c == -A
  <2>4. i - A = c + i /\ j - A = c + j /\ c \in Int
    BY <1>2, <2>1
  <2>5. \A k \in i .. j : c + k \in 1 .. Len(b) /\ b[c + k] = u[k]
    BY <2>3 DEF B
  <2> HIDE DEF c
  <2>6. Marks(b, i - A, j - A) /\ Citations!Id(b, <<i - A, j - A>>) = Citations!Id(u, <<i, j>>)
    BY <1>1, <1>8, <2>4, <2>5, MarkerMoves
  <2> QED
    BY <2>6 DEF Barred
<1>9. ASSUME NEW i, NEW j, Marks(b, i, j)
      PROVE  Marks(u, A + i, A + j) /\ (Barred(u, A + i, A + j) <=> Barred(b, i, j))
  <2>1. i \in 1 .. B /\ j \in 1 .. B /\ i \in Int /\ j \in Int
    BY <1>5, <1>9 DEF B
  <2>2. \A k \in i .. j : k \in 1 .. B /\ A + k \in 1 .. Len(u)
    BY <1>1, <1>2, <2>1
  <2>3. \A k \in i .. j : A + k \in 1 .. Len(u) /\ u[A + k] = b[k]
    BY <1>1, <2>2
  <2>4. A \in Int
    BY <1>2
  <2>5. Marks(u, A + i, A + j) /\ Citations!Id(u, <<A + i, A + j>>) = Citations!Id(b, <<i, j>>)
    BY <1>1, <1>9, <2>3, <2>4, MarkerMoves
  <2> QED
    BY <2>5 DEF Barred
<1>10. ASSUME NEW n \in 1 .. A PROVE n \in cut <=> n \in cutA
  <2>1. ASSUME n \in cut PROVE n \in cutA
    <3>1. PICK i, j : Marks(u, i, j) /\ n \in i .. j /\ Barred(u, i, j)
      BY <1>3, <2>1 DEF cut
    <3>2. i \in Int /\ j \in Int
      BY <1>1, <1>5, <3>1
    <3>3. ~(i > A)
      BY <1>2, <3>1, <3>2
    <3>4. j <= A
      BY <1>4, <3>1, <3>3
    <3>5. Marks(a, i, j) /\ Barred(a, i, j)
      BY <1>6, <3>1, <3>4
    <3> QED
      BY <1>3, <3>1, <3>5 DEF cutA
  <2>2. ASSUME n \in cutA PROVE n \in cut
    <3>1. PICK i, j : Marks(a, i, j) /\ n \in i .. j /\ Barred(a, i, j)
      BY <1>3, <2>2 DEF cutA
    <3>2. Marks(u, i, j) /\ Barred(u, i, j)
      BY <1>7, <3>1
    <3> QED
      BY <1>3, <3>1, <3>2 DEF cut
  <2> QED
    BY <2>1, <2>2
<1>11. ASSUME NEW n \in 1 .. B PROVE A + n \in cut <=> n \in cutB
  <2>1. ASSUME A + n \in cut PROVE n \in cutB
    <3>1. PICK i, j : Marks(u, i, j) /\ A + n \in i .. j /\ Barred(u, i, j)
      BY <1>3, <2>1 DEF cut
    <3>2. i \in Int /\ j \in Int
      BY <1>1, <1>5, <3>1
    <3>3. ~(j <= A)
      BY <1>2, <3>1, <3>2
    <3>4. i > A
      BY <1>4, <3>1, <3>3
    <3>5. Marks(b, i - A, j - A) /\ Barred(b, i - A, j - A)
      BY <1>8, <3>1, <3>4
    <3>6. n \in i - A .. j - A
      BY <1>2, <3>1, <3>2
    <3> QED
      BY <1>3, <3>5, <3>6 DEF cutB
  <2>2. ASSUME n \in cutB PROVE A + n \in cut
    <3>1. PICK i, j : Marks(b, i, j) /\ n \in i .. j /\ Barred(b, i, j)
      BY <1>3, <2>2 DEF cutB
    <3>2. Marks(u, A + i, A + j) /\ Barred(u, A + i, A + j)
      BY <1>9, <3>1
    <3>3. i \in Int /\ j \in Int
      BY <1>5, <3>1
    <3>4. A + n \in A + i .. A + j
      BY <1>2, <3>1, <3>3
    <3> QED
      BY <1>3, <3>2, <3>4 DEF cut
  <2> QED
    BY <2>1, <2>2
<1>12. Citations!Without(u, cut) = Citations!Without(a, cutA) \o Citations!Without(b, cutB)
  <2>1. \A k \in 1 .. Len(a) : k \in cut <=> k \in cutA
    BY <1>10 DEF A
  <2>2. \A k \in 1 .. Len(b) : Len(a) + k \in cut <=> k \in cutB
    BY <1>11 DEF A, B
  <2>3. CutsInto(cut, a, b, cutA, cutB)
    BY <2>1, <2>2 DEF CutsInto
  <2> QED
    BY <2>3, WithoutJoined DEF u
<1>13. \A t : Citations!Allowed(t) = Citations!Without(t, ForeignPlaces(t))
  BY DEF Citations!Allowed, ForeignPlaces
<1> QED
  BY <1>12, <1>13 DEF u, cut, cutA, cutB

\* No marker stands both in what has been sent and in what comes.
LEMMA NoneAcross ==
    ASSUME NEW C, NEW s \in Seq(C), NEW p \in Seq(C)
    PROVE  Apart(Citations!Before(s), Citations!Before(Citations!Held(s) \o p))
<1> DEFINE h == Citations!HeldFrom(s)
           b == Citations!Before(s)
           rest == Citations!Held(s)
           v == rest \o p
           hv == Citations!HeldFrom(v)
           w == Citations!Before(v)
           u == b \o w
<1>1. /\ h \in 1 .. Len(s) + 1 /\ Len(s) \in Nat
      /\ h <= Len(s) => Unfinished(s, h)
      /\ \A i : Unfinished(s, i) => i = h
  BY HeldFromIs
<1>2. b \in Seq(C) /\ v \in Seq(C)
  BY HeldJoined
<1>3. b = SubSeq(s, 1, h - 1) /\ rest = SubSeq(s, h, Len(s)) /\ w = SubSeq(v, 1, hv - 1)
  BY DEF Citations!Before, Citations!Held
<1> HIDE DEF h, b, rest, w, hv
<1>4. Len(b) = h - 1 /\ \A k \in 1 .. h - 1 : b[k] = s[k]
  BY <1>1, <1>3
<1>5. rest \in Seq(C) /\ Len(rest) = Len(s) - h + 1 /\ (h <= Len(s) => rest[1] = s[h])
  BY <1>1, <1>3
<1>6. h <= Len(s) => v[1] = s[h]
  BY <1>1, <1>5
<1> HIDE DEF v
<1>7. hv \in 1 .. Len(v) + 1 /\ Len(v) \in Nat
  <2>1. v \in Seq(C)
    BY <1>2
  <2> QED
    BY <2>1, HeldFromIs DEF hv
<1>8. w \in Seq(C) /\ Len(w) = hv - 1 /\ \A k \in 1 .. hv - 1 : w[k] = v[k]
  BY <1>2, <1>3, <1>7
<1>9. /\ Len(u) = Len(b) + Len(w) /\ Len(b) \in Nat /\ Len(w) \in Nat
      /\ \A k \in 1 .. Len(b) : u[k] = b[k]
      /\ \A k \in 1 .. Len(w) : u[Len(b) + k] = w[k]
  <2>1. b \in Seq(C) /\ w \in Seq(C)
    BY <1>2, <1>8
  <2>2. Len(b) \in Nat /\ Len(w) \in Nat
    BY <2>1
  <2> QED
    BY <2>1, <2>2, Joined
<1> HIDE DEF u
<1>10. ASSUME NEW i, NEW j, Marks(u, i, j), ~(j <= Len(b)), ~(i > Len(b)) PROVE FALSE
  <2>1. /\ i \in 1 .. Len(u) /\ j \in 1 .. Len(u) /\ i + 2 < j
        /\ u[i] = "[" /\ u[i + 1] = "S"
        /\ \A k \in i + 2 .. j - 1 : u[k] \in Citations!Digits
    BY <1>10 DEF Marks
  <2>2. i \in Nat /\ j \in Nat /\ Len(u) \in Nat /\ i <= Len(b) /\ Len(b) < j
    BY <1>9, <1>10, <2>1
  <2>3. CASE h <= Len(s)
    <3>1. 1 \in 1 .. Len(w) /\ Len(b) + 1 \in i .. j
      BY <1>9, <2>1, <2>2
    <3>2. u[Len(b) + 1] = "["
      <4>1. s[h] = "["
        BY <1>1, <2>3 DEF Unfinished
      <4>2. u[Len(b) + 1] = w[1]
        BY <1>9, <3>1
      <4>3. w[1] = v[1]
        BY <1>8, <3>1
      <4> QED
        BY <1>6, <2>3, <4>1, <4>2, <4>3
    <3>3. Len(b) + 1 = i
      <4>1. Len(u) \in Nat /\ Marks(u, i, j)
        BY <1>10, <2>2
      <4>2. Bracketed(u, i, j)
        BY <4>1, InMarker
      <4> QED
        BY <3>1, <3>2, <4>2 DEF Bracketed
    <3> QED
      BY <1>9, <2>2, <3>3
  <2>4. CASE h = Len(s) + 1
    <3>1. Len(b) = Len(s) /\ \A k \in 1 .. Len(s) : s[k] = u[k]
      BY <1>1, <1>4, <1>9, <2>4
    <3>2. i \in 1 .. Len(s) /\ s[i] = "["
      BY <1>1, <2>1, <2>2, <3>1
    <3>3. ASSUME i < Len(s) PROVE s[i + 1] = "S"
      <4>1. i + 1 \in 1 .. Len(s)
        BY <1>1, <3>2, <3>3
      <4> QED
        BY <2>1, <3>1, <4>1
    <3>4. ASSUME NEW k \in i + 2 .. Len(s) PROVE s[k] \in Citations!Digits
      <4>1. k \in 1 .. Len(s) /\ k \in i + 2 .. j - 1
        BY <1>1, <2>2, <3>1, <3>2
      <4> QED
        BY <2>1, <3>1, <4>1
    <3>5. Unfinished(s, i)
      BY <3>2, <3>3, <3>4 DEF Unfinished
    <3> QED
      BY <1>1, <2>2, <2>4, <3>1, <3>5
  <2> QED
    BY <1>1, <2>3, <2>4
<1> QED
  BY <1>10 DEF Apart, u, v, w, b, rest

\* The ids in a text.
Ids(t) == {Citations!Id(t, m) : m \in Citations!Markers(t)}

LEMMA IdsIs ==
    ASSUME NEW t, NEW x
    PROVE  x \in Ids(t) <=> \E i, j : Marks(t, i, j) /\ Citations!Id(t, <<i, j>>) = x
<1>1. ASSUME x \in Ids(t) PROVE \E i, j : Marks(t, i, j) /\ Citations!Id(t, <<i, j>>) = x
  <2>1. PICK m \in Citations!Markers(t) : x = Citations!Id(t, m)
    BY <1>1 DEF Ids
  <2>2. m = <<m[1], m[2]>> /\ Marks(t, m[1], m[2])
    BY MarkersArePairs
  <2>3. Citations!Id(t, <<m[1], m[2]>>) = x
    BY <2>1, <2>2
  <2> QED
    BY <2>2, <2>3
<1>2. ASSUME NEW i, NEW j, Marks(t, i, j), Citations!Id(t, <<i, j>>) = x PROVE x \in Ids(t)
  <2>1. <<i, j>> \in Citations!Markers(t)
    BY <1>2, MarkerIs
  <2> QED
    BY <1>2, <2>1 DEF Ids
<1> QED
  BY <1>1, <1>2

\* A marker of t is one of w too.
Keeps(t, i, j, w) ==
    \E p, r : Marks(w, p, r) /\ Citations!Id(w, <<p, r>>) = Citations!Id(t, <<i, j>>)

\* A marker that nothing is cut from is left.
LEMMA Survives ==
    ASSUME NEW C, NEW t \in Seq(C), NEW cut, NEW w \in Seq(C), NEW e, Leaves(t, cut, w, e),
           NEW i, NEW j, Marks(t, i, j), \A k \in i .. j : k \notin cut
    PROVE  Keeps(t, i, j, w)
<1> DEFINE S == DOMAIN t \ cut
           n == Len(w)
           m == j - i
<1>1. Enumerates(e, n, S) /\ S \in SUBSET Nat /\ \A k \in 1 .. n : w[k] = t[e[k]]
  BY DEF Leaves
<1>2. i \in 1 .. Len(t) /\ j \in 1 .. Len(t) /\ i + 2 < j /\ Len(t) \in Nat
  BY DEF Marks
<1>3. i \in Nat /\ j \in Nat /\ m \in Nat /\ m = j - i /\ j = i + m /\ i < j
  BY <1>2
<1>4. \A k \in i .. j : k \in S
  BY <1>2, <1>3
<1>5. n \in Nat
  OBVIOUS
<1> HIDE DEF S, n, m
<1>6. PICK p \in 1 .. n : e[p] = i
  <2>1. i \in S
    BY <1>3, <1>4
  <2> QED
    BY <1>1, <2>1 DEF Enumerates
<1>7. p + m <= n /\ \A k \in 0 .. m : p + k \in 1 .. n /\ e[p + k] = i + k
  <2>1. GoesOn(S, n, e, p, m)
    BY <1>3, <1>4, <1>6 DEF GoesOn
  <2>2. RunsOn(n, e, p, m)
    BY <1>1, <1>3, <2>1, RunListed
  <2>3. m \in 0 .. m
    BY <1>3
  <2> QED
    BY <1>5, <1>6, <2>2, <2>3 DEF RunsOn
<1> DEFINE c == p - i
           r == c + j
<1>8. c \in Int /\ p = c + i /\ r = c + j
  BY <1>3, <1>5
<1>9. ASSUME NEW k \in i .. j PROVE c + k \in 1 .. Len(w) /\ w[c + k] = t[k]
  <2>1. k - i \in 0 .. m /\ p + (k - i) = c + k /\ i + (k - i) = k
    BY <1>3, <1>5
  <2>2. c + k \in 1 .. n /\ e[c + k] = k
    BY <1>7, <2>1
  <2> QED
    BY <1>1, <2>2 DEF n
<1> HIDE DEF c, r
<1>10. Marks(w, p, r) /\ Citations!Id(w, <<p, r>>) = Citations!Id(t, <<i, j>>)
  BY <1>8, <1>9, MarkerMoves
<1> QED
  BY <1>10 DEF Keeps

\* Where the first cut inside a marker of what is left was.
Broken(cut, e, p, r) ==
    \E g \in p .. r - 1 : e[g] + 1 \in cut /\ \A k \in p .. g : e[k] = e[p] + (k - p)

\* A marker that is left was one, or it was broken.
LEMMA Origin ==
    ASSUME NEW C, NEW t \in Seq(C), NEW cut, NEW w \in Seq(C), NEW e, Leaves(t, cut, w, e),
           NEW p, NEW r, Marks(w, p, r)
    PROVE  \/ /\ Marks(t, e[p], e[r]) /\ Citations!Id(t, <<e[p], e[r]>>) = Citations!Id(w, <<p, r>>)
              /\ e[p] \notin cut /\ e[p] <= e[r] /\ e[p] \in Nat /\ e[r] \in Nat
           \/ Broken(cut, e, p, r)
<1> DEFINE S == DOMAIN t \ cut
           n == Len(w)
<1>1. /\ Enumerates(e, n, S) /\ S \in SUBSET Nat /\ \A k \in 1 .. n : w[k] = t[e[k]]
      /\ \A k \in S : k \in 1 .. Len(t) /\ k \notin cut
      /\ \A k \in 1 .. Len(t) : k \in S \/ k \in cut
  BY DEF Leaves
<1>2. p \in 1 .. n /\ r \in 1 .. n /\ p + 2 < r /\ n \in Nat /\ Len(t) \in Nat
  BY DEF Marks
<1>3. p \in Nat /\ r \in Nat /\ p < r
  BY <1>2
<1> HIDE DEF S, n
<1>4. /\ \A k \in 1 .. n : e[k] \in S /\ e[k] \in Nat
      /\ \A k, l \in 1 .. n : k < l => e[k] < e[l]
  BY <1>1 DEF Enumerates
<1> DEFINE Bad == {g \in p .. r - 1 : e[g] + 1 \notin S}
<1>5. ASSUME NEW g \in p .. r, \A k \in p .. g - 1 : k \notin Bad
      PROVE  \A k \in p .. g : e[k] = e[p] + (k - p)
  <2> DEFINE m == g - p
  <2>1. m \in Nat /\ g = p + m
    BY <1>3
  <2>2. ASSUME NEW k \in 0 .. m - 1, e[p + k] = e[p] + k PROVE e[p] + k + 1 \in S
    <3>1. p + k \in p .. g - 1 /\ p + k \in p .. r - 1
      BY <1>3, <2>1
    <3>2. e[p + k] + 1 \in S
      BY <1>5, <3>1
    <3> QED
      BY <2>2, <3>2
  <2> HIDE DEF m, Bad
  <2>3. GoesOn(S, n, e, p, m)
    BY <2>2 DEF GoesOn
  <2>4. RunsOn(n, e, p, m)
    BY <1>1, <1>2, <2>1, <2>3, RunListed
  <2> TAKE k \in p .. g
  <2>5. k - p \in 0 .. m /\ p + (k - p) = k
    BY <1>3, <2>1
  <2> QED
    BY <2>4, <2>5 DEF RunsOn
<1>6. CASE Bad = {}
  <2>1. \A k \in p .. r : e[k] = e[p] + (k - p)
    BY <1>3, <1>5, <1>6
  <2> DEFINE c == e[p] - p
  <2>2. e[p] \in Nat /\ e[r] \in Nat /\ c \in Int /\ e[p] = c + p /\ e[r] = c + r /\ e[p] <= e[r]
    <3>1. e[p] \in Nat /\ e[r] \in Nat
      BY <1>2, <1>4
    <3>2. e[r] = e[p] + (r - p)
      BY <1>3, <2>1
    <3> QED
      BY <1>3, <3>1, <3>2
  <2>3. ASSUME NEW k \in p .. r PROVE c + k \in 1 .. Len(t) /\ t[c + k] = w[k]
    <3>1. k \in 1 .. n
      BY <1>2, <1>3
    <3>2. e[k] = c + k
      BY <1>3, <2>1, <2>2
    <3>3. e[k] \in 1 .. Len(t) /\ w[k] = t[e[k]]
      BY <1>1, <1>4, <3>1
    <3> QED
      BY <3>2, <3>3
  <2> HIDE DEF c
  <2>4. Marks(t, e[p], e[r]) /\ Citations!Id(t, <<e[p], e[r]>>) = Citations!Id(w, <<p, r>>)
    BY <2>2, <2>3, MarkerMoves
  <2>5. e[p] \notin cut
    BY <1>1, <1>2, <1>4
  <2> QED
    BY <2>2, <2>4, <2>5
<1>7. CASE Bad # {}
  <2>1. PICK g \in Bad : \A k \in Bad : g <= k
    <3>1. Bad \subseteq Nat
      BY <1>3
    <3> HIDE DEF Bad
    <3> QED
      BY <1>7, <3>1, LeastNumber
  <2>2. g \in p .. r - 1 /\ g \in p .. r /\ e[g] + 1 \notin S
    BY <1>3
  <2>3. \A k \in p .. g - 1 : k \notin Bad
    BY <1>3, <2>1, <2>2
  <2> HIDE DEF Bad
  <2>4. \A k \in p .. g : e[k] = e[p] + (k - p)
    BY <1>5, <2>2, <2>3
  <2>5. e[g] + 1 \in cut
    <3>1. g \in 1 .. n /\ g + 1 \in 1 .. n /\ g < g + 1
      BY <1>2, <1>3, <2>2
    <3>2. e[g] < e[g + 1] /\ e[g] \in Nat /\ e[g + 1] \in S
      BY <1>4, <3>1
    <3>3. e[g + 1] \in 1 .. Len(t)
      BY <1>1, <3>2
    <3>4. e[g] + 1 \in 1 .. Len(t)
      BY <1>2, <3>2, <3>3
    <3> QED
      BY <1>1, <2>2, <3>4
  <2>6. Broken(cut, e, p, r)
    BY <2>2, <2>4, <2>5 DEF Broken
  <2> QED
    BY <2>6
<1> QED
  BY <1>6, <1>7

\* Removing the foreign markers leaves the ids of the others.
LEMMA AllowedIds ==
    ASSUME NEW C, NEW t \in Seq(C), ~Citations!Reopens(t)
    PROVE  /\ Citations!Allowed(t) \in Seq(C)
           /\ Ids(Citations!Allowed(t)) = Ids(t) \cap Citations!Allowlist
<1> DEFINE cut == ForeignPlaces(t)
           w == Citations!Allowed(t)
           L == Citations!Allowlist
           I(u, i, j) == Citations!Id(u, <<i, j>>)
<1>1. w = Citations!Without(t, cut)
  BY DEF Citations!Allowed, ForeignPlaces
<1>2. w \in Seq(C) /\ \E e : Leaves(t, cut, w, e)
  BY <1>1, WithoutIs
<1>3. PICK e : Leaves(t, cut, w, e)
  BY <1>2
<1>4. \A n : n \in cut <=> \E i, j : Marks(t, i, j) /\ n \in i .. j /\ I(t, i, j) \notin L
  BY ForeignPlacesIs
<1>5. \A u, x : x \in Ids(u) <=> \E i, j : Marks(u, i, j) /\ I(u, i, j) = x
  BY IdsIs
<1>6. Len(t) \in Nat
  OBVIOUS
<1> HIDE DEF cut, w, L, I
<1>7. ASSUME NEW i, NEW j, Marks(t, i, j), I(t, i, j) \in L PROVE I(t, i, j) \in Ids(w)
  <2>1. ASSUME NEW k \in i .. j, k \in cut PROVE FALSE
    <3>1. PICK f, g : Marks(t, f, g) /\ k \in f .. g /\ I(t, f, g) \notin L
      BY <1>4, <2>1
    <3>2. i = f /\ j = g
      BY <1>7, <3>1, MarkersApart
    <3> QED
      BY <1>7, <3>1, <3>2
  <2>2. Keeps(t, i, j, w)
    BY <1>2, <1>3, <1>7, <2>1, Survives
  <2>3. PICK p, r : Marks(w, p, r) /\ I(w, p, r) = I(t, i, j)
    BY <2>2 DEF Keeps, I
  <2> QED
    BY <1>5, <2>3
<1>8. ASSUME NEW p, NEW r, Marks(w, p, r), Broken(cut, e, p, r) PROVE FALSE
  <2>1. PICK g \in p .. r - 1 : e[g] + 1 \in cut /\ \A k \in p .. g : e[k] = e[p] + (k - p)
    BY <1>8 DEF Broken
  <2>2. PICK i, j : Marks(t, i, j) /\ e[g] + 1 \in i .. j /\ I(t, i, j) \notin L
    BY <1>4, <2>1
  <2>3. /\ i \in 1 .. Len(t) /\ j \in 1 .. Len(t) /\ i < j /\ i \in Nat /\ j \in Nat
    <3>1. i \in 1 .. Len(t) /\ j \in 1 .. Len(t) /\ i + 2 < j
      BY <2>2 DEF Marks
    <3> QED
      BY <1>6, <3>1
  <2>4. /\ p \in 1 .. Len(w) /\ r \in 1 .. Len(w) /\ p + 2 < r /\ Len(w) \in Nat
        /\ w[p] = "[" /\ w[p + 1] = "S"
        /\ \A k \in p + 2 .. r - 1 : w[k] \in Citations!Digits
    BY <1>2, <1>8 DEF Marks
  <2>5. p \in Nat /\ r \in Nat /\ g \in Nat /\ p <= g /\ g < r /\ g \in 1 .. Len(w)
    BY <2>4
  <2>6. /\ \A k \in 1 .. Len(w) : /\ e[k] \in 1 .. Len(t) /\ e[k] \notin cut
                                 /\ w[k] = t[e[k]] /\ e[k] \in Nat
    <3>1. DOMAIN t = 1 .. Len(t)
      OBVIOUS
    <3>2. /\ \A k \in 1 .. Len(w) : w[k] = t[e[k]]
          /\ \A k \in 1 .. Len(w) : e[k] \in DOMAIN t \ cut
      BY <1>3 DEF Leaves, Enumerates
    <3> QED
      BY <1>6, <3>1, <3>2
  <2>7. e[g] \notin i .. j
    BY <1>4, <2>2, <2>5, <2>6
  <2>8. e[g] = i - 1 /\ e[p] \in Nat /\ e[g] \in Nat
    <3>1. e[g] \in Nat /\ e[p] \in Nat
      BY <2>4, <2>5, <2>6
    <3> QED
      BY <2>2, <2>3, <2>7, <3>1
  <2>9. e[g] = e[p] + (g - p)
    BY <2>1, <2>5
  <2> DEFINE before == SubSeq(t, 1, i - 1)
             b == e[p]
  <2>10. before \in Seq(C) /\ Len(before) = i - 1 /\ \A k \in 1 .. i - 1 : before[k] = t[k]
    BY <1>6, <2>3
  <2> HIDE DEF before, b
  <2>11. b \in 1 .. i - 1 /\ b \in Nat
    <3>1. b \in 1 .. Len(t)
      BY <2>4, <2>6 DEF b
    <3> QED
      BY <1>6, <2>5, <2>8, <2>9, <3>1 DEF b
  <2>12. before[b] = "["
    BY <2>4, <2>6, <2>10, <2>11 DEF b
  <2>13. ASSUME b < i - 1 PROVE before[b + 1] = "S"
    <3>1. p + 1 \in p .. g /\ p + 1 \in 1 .. Len(w)
      BY <2>4, <2>5, <2>8, <2>9, <2>13 DEF b
    <3>2. e[p + 1] = b + 1
      <4>1. e[p + 1] = e[p] + ((p + 1) - p)
        BY <2>1, <3>1
      <4> QED
        BY <2>5, <2>8, <4>1 DEF b
    <3>3. b + 1 \in 1 .. i - 1
      BY <2>3, <2>11, <2>13
    <3>4. w[p + 1] = t[b + 1]
      BY <2>6, <3>1, <3>2
    <3> QED
      BY <2>4, <2>10, <3>3, <3>4
  <2>14. ASSUME NEW k \in b + 2 .. i - 1 PROVE before[k] \in Citations!Digits
    <3> DEFINE l == p + (k - b)
    <3>1. /\ l \in p .. g /\ l \in 1 .. Len(w) /\ l \in p + 2 .. r - 1 /\ b + (l - p) = k
          /\ k \in 1 .. i - 1
      <4>1. b + (g - p) = i - 1 /\ k \in Int /\ b + 2 <= k /\ k <= i - 1 /\ 1 <= k
        BY <2>3, <2>8, <2>9, <2>11 DEF b
      <4>2. 1 <= p /\ g <= Len(w) /\ Len(w) \in Nat
        BY <2>4, <2>5
      <4> QED
        BY <2>3, <2>5, <2>11, <4>1, <4>2
    <3> HIDE DEF l
    <3>2. e[l] = k
      BY <2>1, <3>1 DEF b
    <3>3. w[l] = t[k]
      BY <2>6, <3>1, <3>2
    <3> QED
      BY <2>4, <2>10, <3>1, <3>3
  <2>15. Unfinished(before, b)
    BY <2>10, <2>11, <2>12, <2>13, <2>14 DEF Unfinished
  <2>16. Citations!HeldFrom(before) = b
    BY <2>10, <2>15, HeldFromIs
  <2>17. Citations!HeldFrom(before) < i
    BY <2>3, <2>11, <2>16
  <2> DEFINE m == <<i, j>>
  <2>18. m \in Citations!Foreign(t) /\ m[1] = i
    <3>1. m \in Citations!Markers(t)
      BY <2>2, MarkerIs
    <3> QED
      BY <2>2, <3>1 DEF Citations!Foreign, I, L
  <2> HIDE DEF m
  <2>19. Citations!HeldFrom(SubSeq(t, 1, m[1] - 1)) < m[1]
    BY <2>17, <2>18 DEF before
  <2> QED
    BY <2>18, <2>19 DEF Citations!Reopens
<1>9. ASSUME NEW p, NEW r, Marks(w, p, r) PROVE I(w, p, r) \in Ids(t) \cap L
  <2>1. /\ Marks(t, e[p], e[r]) /\ I(t, e[p], e[r]) = I(w, p, r)
        /\ e[p] \notin cut /\ e[p] <= e[r] /\ e[p] \in Nat /\ e[r] \in Nat
    BY <1>2, <1>3, <1>8, <1>9, Origin DEF I
  <2>2. e[p] \in e[p] .. e[r]
    BY <2>1
  <2>3. I(t, e[p], e[r]) \in L
    BY <1>4, <2>1, <2>2
  <2> QED
    BY <1>5, <2>1, <2>3
<1>10. \A x : x \in Ids(w) <=> x \in Ids(t) \cap L
  BY <1>5, <1>7, <1>9
<1>11. Ids(w) = Ids(t) \cap L
  BY <1>10
<1> QED
  BY <1>2, <1>11 DEF w, L

\* Cutting off an unfinished marker leaves all the markers.
LEMMA TrimmedIds ==
    ASSUME NEW C, NEW t \in Seq(C)
    PROVE  /\ Citations!Trimmed(t) \in Seq(C)
           /\ Ids(Citations!Trimmed(t)) = Ids(t)
<1> DEFINE h == Citations!HeldFrom(t)
           b == Citations!Before(t)
           I(u, i, j) == Citations!Id(u, <<i, j>>)
<1>1. CASE ~(h < Len(t))
  BY <1>1 DEF Citations!Trimmed
<1>2. CASE h < Len(t)
  <2>1. Citations!Trimmed(t) = b /\ b = SubSeq(t, 1, h - 1)
    BY <1>2 DEF Citations!Trimmed, Citations!Before
  <2>2. h \in 1 .. Len(t) /\ Len(t) \in Nat /\ Unfinished(t, h)
    <3>1. h \in 1 .. Len(t) + 1 /\ (h <= Len(t) => Unfinished(t, h)) /\ Len(t) \in Nat
      BY HeldFromIs
    <3> HIDE DEF h
    <3> QED
      BY <1>2, <3>1
  <2>3. \A u, x : x \in Ids(u) <=> \E i, j : Marks(u, i, j) /\ I(u, i, j) = x
    BY IdsIs
  <2> HIDE DEF h, b, I
  <2>4. b \in Seq(C) /\ Len(b) = h - 1 /\ \A k \in 1 .. h - 1 : b[k] = t[k]
    BY <2>1, <2>2
  <2>5. \A k \in h .. Len(t) : t[k] # "]"
    <3>1. t[h] = "[" /\ t[h + 1] = "S" /\ \A k \in h + 2 .. Len(t) : t[k] \in Citations!Digits
      BY <1>2, <2>2 DEF Unfinished
    <3>2. \A k \in h .. Len(t) : k = h \/ k = h + 1 \/ k \in h + 2 .. Len(t)
      BY <2>2
    <3> QED
      BY <3>1, <3>2, NoDigits
  <2>6. ASSUME NEW i, NEW j, Marks(t, i, j) PROVE I(t, i, j) \in Ids(b)
    <3>1. i \in 1 .. Len(t) /\ j \in 1 .. Len(t) /\ t[j] = "]"
      BY <2>6 DEF Marks
    <3>2. i \in Int /\ j \in Int /\ j < h
      BY <2>2, <2>5, <3>1
    <3>3. \A k \in i .. j : 0 + k \in 1 .. Len(b) /\ b[0 + k] = t[k]
      BY <2>2, <2>4, <3>1, <3>2
    <3>4. i = 0 + i /\ j = 0 + j
      BY <3>2
    <3>5. Marks(b, i, j) /\ I(b, i, j) = I(t, i, j)
      BY <2>4, <2>6, <3>3, <3>4, MarkerMoves DEF I
    <3> QED
      BY <2>3, <3>5
  <2>7. ASSUME NEW i, NEW j, Marks(b, i, j) PROVE I(b, i, j) \in Ids(t)
    <3>1. i \in 1 .. Len(b) /\ j \in 1 .. Len(b)
      BY <2>7 DEF Marks
    <3>2. i \in Int /\ j \in Int
      BY <2>2, <2>4, <3>1
    <3>3. \A k \in i .. j : 0 + k \in 1 .. Len(t) /\ t[0 + k] = b[k]
      BY <2>2, <2>4, <3>1, <3>2
    <3>4. i = 0 + i /\ j = 0 + j
      BY <3>2
    <3>5. Marks(t, i, j) /\ I(t, i, j) = I(b, i, j)
      BY <2>4, <2>7, <3>3, <3>4, MarkerMoves DEF I
    <3> QED
      BY <2>3, <3>5
  <2>8. \A x : x \in Ids(b) <=> x \in Ids(t)
    BY <2>3, <2>6, <2>7
  <2>9. Ids(b) = Ids(t)
    <3>1. Ids(b) \subseteq Ids(t) /\ Ids(t) \subseteq Ids(b)
      BY <2>8
    <3> QED
      BY <3>1
  <2> QED
    BY <2>1, <2>4, <2>9
<1> QED
  BY <1>1, <1>2

\* A marker from k to l repeats the one from i to j.
Repeats(t, i, j, k, l) ==
    /\ Marks(t, i, j) /\ Marks(t, k, l) /\ j < k
    /\ Citations!Id(t, <<i, j>>) = Citations!Id(t, <<k, l>>)
    /\ \A n \in j + 1 .. k - 1 : t[n] = " "

\* The places of the repetitions.
RepeatedPlaces(t) ==
    UNION {twice[1][2] + 1 .. twice[2][2] : twice \in
        {p \in Citations!Markers(t) \X Citations!Markers(t) :
            /\ p[1][2] < p[2][1]
            /\ Citations!Id(t, p[1]) = Citations!Id(t, p[2])
            /\ \A k \in p[1][2] + 1 .. p[2][1] - 1 : t[k] = " "}}

LEMMA RepeatedPlacesAre ==
    ASSUME NEW t, NEW n
    PROVE  n \in RepeatedPlaces(t) <=>
              \E i, j, k, l : Repeats(t, i, j, k, l) /\ n \in j + 1 .. l
<1> DEFINE M == Citations!Markers(t)
           Twice == {p \in M \X M :
                       /\ p[1][2] < p[2][1]
                       /\ Citations!Id(t, p[1]) = Citations!Id(t, p[2])
                       /\ \A k \in p[1][2] + 1 .. p[2][1] - 1 : t[k] = " "}
<1>1. ASSUME n \in RepeatedPlaces(t)
      PROVE  \E i, j, k, l : Repeats(t, i, j, k, l) /\ n \in j + 1 .. l
  <2>1. PICK w \in Twice : n \in w[1][2] + 1 .. w[2][2]
    BY <1>1 DEF RepeatedPlaces
  <2>2. /\ w[1] \in M /\ w[2] \in M /\ w[1][2] < w[2][1]
        /\ Citations!Id(t, w[1]) = Citations!Id(t, w[2])
        /\ \A k \in w[1][2] + 1 .. w[2][1] - 1 : t[k] = " "
    OBVIOUS
  <2> DEFINE x == w[1]
             y == w[2]
  <2> HIDE DEF x, y
  <2>3. x = <<x[1], x[2]>> /\ Marks(t, x[1], x[2]) /\ y = <<y[1], y[2]>> /\ Marks(t, y[1], y[2])
    BY <2>2, MarkersArePairs DEF x, y
  <2>4. Repeats(t, x[1], x[2], y[1], y[2])
    <3>1. Citations!Id(t, <<x[1], x[2]>>) = Citations!Id(t, <<y[1], y[2]>>)
      BY <2>2, <2>3 DEF x, y
    <3> QED
      BY <2>2, <2>3, <3>1 DEF Repeats, x, y
  <2>5. n \in x[2] + 1 .. y[2]
    BY <2>1 DEF x, y
  <2> QED
    BY <2>4, <2>5
<1>2. ASSUME NEW i, NEW j, NEW k, NEW l, Repeats(t, i, j, k, l), n \in j + 1 .. l
      PROVE  n \in RepeatedPlaces(t)
  <2> DEFINE x == <<i, j>>
             y == <<k, l>>
             w == <<x, y>>
  <2>1. x[2] = j /\ y[1] = k /\ y[2] = l
    OBVIOUS
  <2>2. /\ x \in M /\ y \in M /\ x[2] < y[1] /\ Citations!Id(t, x) = Citations!Id(t, y)
        /\ \A z \in x[2] + 1 .. y[1] - 1 : t[z] = " "
    BY <1>2, <2>1, MarkerIs DEF Repeats
  <2> HIDE DEF x, y, M
  <2>3. w[1] = x /\ w[2] = y /\ w \in M \X M
    BY <2>2
  <2> HIDE DEF w
  <2>4. w \in Twice
    BY <2>2, <2>3
  <2>5. n \in w[1][2] + 1 .. w[2][2]
    BY <1>2, <2>1, <2>3
  <2> QED
    BY <2>4, <2>5 DEF RepeatedPlaces, M
<1> QED
  BY <1>1, <1>2

\* Removing the repetitions leaves the ids.
LEMMA CollapsedIds ==
    ASSUME NEW C, NEW t \in Seq(C)
    PROVE  /\ Citations!Collapsed(t) \in Seq(C)
           /\ Ids(Citations!Collapsed(t)) = Ids(t)
<1> DEFINE cut == RepeatedPlaces(t)
           w == Citations!Collapsed(t)
           I(u, i, j) == Citations!Id(u, <<i, j>>)
<1>1. w = Citations!Without(t, cut)
  BY DEF Citations!Collapsed, RepeatedPlaces
<1>2. w \in Seq(C) /\ \E e : Leaves(t, cut, w, e)
  BY <1>1, WithoutIs
<1>3. PICK e : Leaves(t, cut, w, e)
  BY <1>2
<1>4. \A n : n \in cut <=> \E i, j, k, l : Repeats(t, i, j, k, l) /\ n \in j + 1 .. l
  BY RepeatedPlacesAre
<1>5. \A u, x : x \in Ids(u) <=> \E i, j : Marks(u, i, j) /\ I(u, i, j) = x
  BY IdsIs
<1>6. Len(t) \in Nat
  OBVIOUS
<1> HIDE DEF cut, w
<1>7. ASSUME NEW i, NEW j, Marks(t, i, j)
      PROVE  i \in 1 .. Len(t) /\ j \in 1 .. Len(t) /\ i < j /\ i \in Nat /\ j \in Nat
  <2>1. i \in 1 .. Len(t) /\ j \in 1 .. Len(t) /\ i + 2 < j
    BY <1>7 DEF Marks
  <2> QED
    BY <1>6, <2>1
<1>8. ASSUME NEW x \in Ids(t) PROVE x \in Ids(w)
  <2> DEFINE Starts == {i \in 1 .. Len(t) : \E j : Marks(t, i, j) /\ I(t, i, j) = x}
  <2>1. Starts # {}
    <3>1. PICK i, j : Marks(t, i, j) /\ I(t, i, j) = x
      BY <1>5
    <3> HIDE DEF I
    <3> QED
      BY <1>7, <3>1
  <2>2. PICK i \in Starts : \A f \in Starts : i <= f
    <3>1. Starts \subseteq Nat
      OBVIOUS
    <3> HIDE DEF Starts
    <3> QED
      BY <2>1, <3>1, LeastNumber
  <2>3. PICK j : Marks(t, i, j) /\ I(t, i, j) = x
    OBVIOUS
  <2>4. \A f, g : Marks(t, f, g) /\ I(t, f, g) = x => i <= f
    BY <1>7, <2>2
  <2> HIDE DEF Starts, I
  <2>5. ASSUME NEW n \in i .. j, n \in cut PROVE FALSE
    <3>1. PICK f, g, k, l : Repeats(t, f, g, k, l) /\ n \in g + 1 .. l
      BY <1>4, <2>5
    <3>2. /\ Marks(t, f, g) /\ Marks(t, k, l) /\ g < k
          /\ I(t, f, g) = I(t, k, l)
          /\ \A z \in g + 1 .. k - 1 : t[z] = " "
      BY <3>1 DEF Repeats, I
    <3>3. f < g /\ k < l /\ f \in Nat /\ g \in Nat /\ k \in Nat /\ l \in Nat
      BY <1>7, <3>2
    <3>4. i \in Nat /\ j \in Nat
      BY <1>7, <2>3
    <3>5. Bracketed(t, i, j)
      BY <1>6, <2>3, InMarker
    <3>6. t[n] # " "
      BY <3>5 DEF Bracketed
    <3>7. n \notin g + 1 .. k - 1
      BY <3>2, <3>6
    <3>8. n \in k .. l
      BY <3>1, <3>3, <3>4, <3>7
    <3>9. i = k /\ j = l
      BY <2>3, <3>2, <3>8, MarkersApart
    <3>10. i <= f
      BY <2>3, <2>4, <3>2, <3>9
    <3>11. g < k
      BY <3>2
    <3> QED
      BY <3>3, <3>9, <3>10, <3>11
  <2>6. Keeps(t, i, j, w)
    BY <1>2, <1>3, <2>3, <2>5, Survives
  <2>7. PICK p, r : Marks(w, p, r) /\ I(w, p, r) = I(t, i, j)
    BY <2>6 DEF Keeps, I
  <2> QED
    BY <1>5, <2>3, <2>7 DEF I
<1>9. ASSUME NEW p, NEW r, Marks(w, p, r), Broken(cut, e, p, r) PROVE FALSE
  <2>1. PICK g \in p .. r - 1 : e[g] + 1 \in cut
    BY <1>9 DEF Broken
  <2>2. PICK i, j, k, l : Repeats(t, i, j, k, l) /\ e[g] + 1 \in j + 1 .. l
    BY <1>4, <2>1
  <2>3. Marks(t, i, j) /\ Marks(t, k, l) /\ j < k
    BY <2>2 DEF Repeats
  <2>4. p \in 1 .. Len(w) /\ r \in 1 .. Len(w) /\ Len(w) \in Nat
    BY <1>2, <1>9 DEF Marks
  <2>5. g \in p .. r /\ g # r /\ g \in 1 .. Len(w)
    BY <2>4
  <2>6. w[g] = t[e[g]] /\ e[g] \in Nat /\ e[g] \notin cut
    <3>1. DOMAIN t = 1 .. Len(t)
      OBVIOUS
    <3>2. /\ \A z \in 1 .. Len(w) : w[z] = t[e[z]]
          /\ \A z \in 1 .. Len(w) : e[z] \in DOMAIN t \ cut
      BY <1>3 DEF Leaves, Enumerates
    <3> QED
      BY <1>6, <2>5, <3>1, <3>2
  <2>7. e[g] = j
    <3>1. j \in Nat /\ l \in Nat
      BY <1>7, <2>3
    <3>2. e[g] \notin j + 1 .. l
      BY <1>4, <2>2, <2>6
    <3> QED
      BY <2>2, <2>6, <3>1, <3>2
  <2>8. t[j] = "]"
    BY <2>3 DEF Marks
  <2>9. Bracketed(w, p, r)
    BY <1>9, <2>4, InMarker
  <2> QED
    BY <2>5, <2>6, <2>7, <2>8, <2>9 DEF Bracketed
<1>10. ASSUME NEW p, NEW r, Marks(w, p, r) PROVE I(w, p, r) \in Ids(t)
  <2>1. Marks(t, e[p], e[r]) /\ I(t, e[p], e[r]) = I(w, p, r)
    BY <1>2, <1>3, <1>9, <1>10, Origin
  <2> QED
    BY <1>5, <2>1
<1>11. \A x : x \in Ids(w) <=> x \in Ids(t)
  <2> HIDE DEF I
  <2> QED
    BY <1>5, <1>8, <1>10
<1>12. Ids(w) = Ids(t)
  <2>1. Ids(w) \subseteq Ids(t) /\ Ids(t) \subseteq Ids(w)
    BY <1>11
  <2> QED
    BY <2>1
<1> QED
  BY <1>2, <1>12 DEF w

-------------------------------------------------------------------------------
(* The citations of an answer *)

\* The output is text, and the answer that is not given has one.
TextParameters == NoAnswer # <<>> /\ \E chars : Texts \subseteq Seq(chars)

\* What has been streamed is what the text so far allows, and what is stored is its repair.
CitingInv ==
    /\ text \in Texts /\ fed \in 0 .. Len(text)
    /\ Citations!SplitIndependent
    /\ outcome \in {<<>>, Citations!Final}

\* Nothing is streamed of no text.
LEMMA NothingYet ==
    /\ Citations!Before(<<>>) = <<>> /\ Citations!Held(<<>>) = <<>>
    /\ Citations!Allowed(<<>>) = <<>>
<1> DEFINE h == Citations!HeldFrom(<<>>)
<1>1. <<>> \in Seq({}) /\ Len(<<>>) = 0
  OBVIOUS
<1>2. h = 1
  <2>1. h \in 1 .. Len(<<>>) + 1
    BY <1>1, HeldFromIs
  <2> HIDE DEF h
  <2> QED
    BY <1>1, <2>1
<1>3. Citations!Before(<<>>) = SubSeq(<<>>, 1, 0) /\ Citations!Held(<<>>) = SubSeq(<<>>, 1, 0)
  <2>1. h - 1 = 0
    BY <1>2
  <2> QED
    BY <1>1, <1>2, <2>1 DEF Citations!Before, Citations!Held
<1>4. SubSeq(<<>>, 1, 0) = <<>>
  OBVIOUS
<1>5. \A cut : Leaves(<<>>, cut, <<>>, <<>>)
  <2>1. 1 .. Len(<<>>) = {} /\ DOMAIN <<>> = {} /\ 0 \in Nat
    BY <1>1
  <2> QED
    BY <1>1, <2>1 DEF Leaves, Enumerates
<1>6. \A cut : Citations!Without(<<>>, cut) = <<>>
  BY <1>1, <1>5, WithoutIsOne
<1> QED
  BY <1>3, <1>4, <1>6 DEF Citations!Allowed

LEMMA CitingBegin ==
    ASSUME TextParameters, QuestionInit, part = "citations"
    PROVE  CitingInv
<1>1. text \in Texts /\ fed = 0 /\ pending = <<>> /\ streamed = <<>> /\ outcome = <<>>
  BY DEF QuestionInit, Citations!Init
<1>2. SubSeq(text, 1, 0) = <<>>
  OBVIOUS
<1>3. Len(text) \in Nat
  BY <1>1 DEF TextParameters
<1>4. Citations!SplitIndependent
  <2>1. SubSeq(text, 1, fed) = <<>>
    BY <1>1, <1>2
  <2>2. /\ Citations!Allowed(Citations!Before(SubSeq(text, 1, fed))) = <<>>
        /\ Citations!Held(SubSeq(text, 1, fed)) = <<>>
    BY <2>1, NothingYet, Zenon
  <2> QED
    BY <1>1, <2>2 DEF Citations!SplitIndependent
<1> QED
  BY <1>1, <1>3, <1>4 DEF CitingInv

LEMMA FinalStays ==
    ASSUME UNCHANGED <<text, grounded>>
    PROVE  Citations!Final' = Citations!Final
  BY DEF Citations!Final, Citations!Repaired, Citations!Allowed, Citations!Foreign,
         Citations!Allowlist

LEMMA FeedKeeps ==
    ASSUME TextParameters, CitingInv, NEW n \in 1 .. Len(text) - fed, Citations!Feed(n)
    PROVE  CitingInv'
<1> DEFINE s == SubSeq(text, 1, fed)
           p == SubSeq(text, fed + 1, fed + n)
           u == SubSeq(text, 1, fed + n)
           v == Citations!Held(s) \o p
<1>1. PICK chars : text \in Seq(chars)
  BY DEF TextParameters, CitingInv
<1>2. fed \in Nat /\ n \in Nat /\ fed + n <= Len(text) /\ Len(text) \in Nat /\ n >= 1
  BY <1>1 DEF CitingInv, Citations!Feed
<1>3. s \in Seq(chars) /\ Len(s) = fed /\ \A k \in 1 .. fed : s[k] = text[k]
  BY <1>1, <1>2
<1>4. p \in Seq(chars) /\ Len(p) = n /\ \A k \in 1 .. n : p[k] = text[fed + k]
  BY <1>1, <1>2
<1>5. u \in Seq(chars) /\ Len(u) = fed + n /\ \A k \in 1 .. fed + n : u[k] = text[k]
  BY <1>1, <1>2
<1>6. /\ outcome = <<>> /\ streamed = Citations!Allowed(Citations!Before(s))
      /\ pending = Citations!Held(s)
  BY DEF CitingInv, Citations!SplitIndependent, Citations!Feed
<1>7. /\ streamed' = streamed \o Citations!Allowed(Citations!Before(pending \o p))
      /\ pending' = Citations!Held(pending \o p)
      /\ fed' = fed + n /\ text' = text /\ grounded' = grounded /\ outcome' = outcome
  BY DEF Citations!Feed
<1> HIDE DEF s, p, u
<1>8. u = s \o p
  <2> DEFINE j == s \o p
  <2>1. s \in Seq(chars) /\ p \in Seq(chars)
    BY <1>3, <1>4
  <2>2. /\ j \in Seq(chars) /\ Len(j) = Len(s) + Len(p)
        /\ \A k \in 1 .. Len(s) : j[k] = s[k]
        /\ \A k \in 1 .. Len(p) : j[Len(s) + k] = p[k]
    BY <2>1, Joined
  <2> HIDE DEF j
  <2>3. Len(j) = fed + n /\ \A k \in 1 .. fed : j[k] = text[k]
    BY <1>3, <1>4, <2>2
  <2>4. \A k \in 1 .. n : j[fed + k] = text[fed + k]
    BY <1>3, <1>4, <2>2
  <2>5. ASSUME NEW k \in 1 .. fed + n PROVE j[k] = u[k]
    <3>1. k \in 1 .. fed \/ (k - fed \in 1 .. n /\ fed + (k - fed) = k)
      BY <1>2
    <3>2. j[k] = text[k]
      BY <2>3, <2>4, <3>1
    <3> QED
      BY <1>5, <3>2
  <2>6. j = u
    BY <1>5, <2>2, <2>3, <2>5, SameList
  <2> QED
    BY <2>6 DEF j
<1>9. /\ Citations!Before(s) \in Seq(chars) /\ v \in Seq(chars)
      /\ Citations!Before(u) = Citations!Before(s) \o Citations!Before(v)
      /\ Citations!Held(u) = Citations!Held(v)
  BY <1>3, <1>4, <1>8, HeldJoined, SMTT(30)
<1>10. Apart(Citations!Before(s), Citations!Before(v))
  BY <1>3, <1>4, NoneAcross
<1> HIDE DEF v
<1>11. Citations!Before(v) \in Seq(chars)
  <2> DEFINE h == Citations!HeldFrom(v)
  <2>1. h \in 1 .. Len(v) + 1 /\ Len(v) \in Nat
    BY <1>9, HeldFromIs
  <2>2. Citations!Before(v) = SubSeq(v, 1, h - 1)
    BY DEF Citations!Before
  <2> HIDE DEF h
  <2> QED
    BY <1>9, <2>1, <2>2
<1>12. Citations!Allowed(Citations!Before(s) \o Citations!Before(v))
       = Citations!Allowed(Citations!Before(s)) \o Citations!Allowed(Citations!Before(v))
  BY <1>9, <1>10, <1>11, AllowedJoined
<1>13. streamed' = Citations!Allowed(Citations!Before(u)) /\ pending' = Citations!Held(u)
  BY <1>6, <1>7, <1>9, <1>12 DEF v
<1>14. Citations!SplitIndependent'
  <2>1. u = SubSeq(text, 1, fed)'
    BY <1>7 DEF u
  <2>2. Citations!Held(u) = Citations!Held(SubSeq(text, 1, fed))'
    BY <2>1
  <2>3. Citations!Allowed(Citations!Before(u))
        = Citations!Allowed(Citations!Before(SubSeq(text, 1, fed)))'
    BY <1>7, <2>1 DEF Citations!Allowed, Citations!Foreign, Citations!Allowlist
  <2> QED
    BY <1>13, <2>2, <2>3 DEF Citations!SplitIndependent
<1>15. text' \in Texts /\ fed' \in 0 .. Len(text') /\ outcome' \in {<<>>, Citations!Final'}
  BY <1>2, <1>6, <1>7 DEF CitingInv
<1> QED
  BY <1>14, <1>15 DEF CitingInv

LEMMA FinishKeeps ==
    ASSUME TextParameters, CitingInv, Citations!Finish
    PROVE  CitingInv'
<1>1. /\ text' = text /\ fed' = fed /\ grounded' = grounded
      /\ outcome' = Citations!Final
  BY DEF Citations!Finish
<1>2. Citations!Final # <<>>
  BY DEF TextParameters, Citations!Final
<1>3. Citations!Final' = Citations!Final
  BY <1>1, FinalStays
<1> QED
  BY <1>1, <1>2, <1>3 DEF CitingInv, Citations!SplitIndependent

LEMMA CitingSteps ==
    ASSUME TextParameters, part = "citations", CitingInv, [QuestionNext]_questionVars
    PROVE  CitingInv'
<1>1. ASSUME NEW n \in 1 .. Len(text) - fed, Citations!Feed(n) PROVE CitingInv'
  BY <1>1, FeedKeeps
<1>2. CASE Citations!Finish
  BY <1>2, FinishKeeps
<1>3. CASE UNCHANGED citationsVars
  <2>1. UNCHANGED <<text, grounded>>
    BY <1>3 DEF citationsVars
  <2>2. Citations!Final' = Citations!Final
    BY <2>1, FinalStays
  <2> QED
    BY <1>3, <2>2 DEF citationsVars, CitingInv, Citations!SplitIndependent, Citations!Allowed,
                      Citations!Foreign, Citations!Allowlist
<1> QED
  BY <1>1, <1>2, <1>3
     DEF questionVars, QuestionNext, Chatting, Citing, Streaming, Hinting, RankingHits,
         Selecting, Reranking, Calibrating

\* The markers of a stored answer are the sources the model cited.
LEMMA CitingSound ==
    ASSUME TextParameters, CitingInv
    PROVE  Citations!CitationsSound
<1>1. ASSUME outcome \notin {<<>>, NoAnswer}, ~Citations!Reopens(text)
      PROVE  Ids(outcome) = Ids(text) \cap Citations!Allowlist
  <2>1. PICK chars : text \in Seq(chars)
    BY DEF TextParameters, CitingInv
  <2> DEFINE t == Citations!Allowed(text)
             x == Citations!Trimmed(t)
  <2>2. outcome = Citations!Collapsed(x)
    BY <1>1 DEF CitingInv, Citations!Final, Citations!Repaired
  <2>3. t \in Seq(chars) /\ Ids(t) = Ids(text) \cap Citations!Allowlist
    BY <1>1, <2>1, AllowedIds
  <2> HIDE DEF t
  <2>4. x \in Seq(chars) /\ Ids(x) = Ids(t)
    BY <2>3, TrimmedIds
  <2> HIDE DEF x
  <2>5. Ids(outcome) = Ids(x)
    BY <2>2, <2>4, CollapsedIds
  <2> QED
    BY <2>3, <2>4, <2>5
<1> QED
  BY <1>1 DEF CitingInv, Citations!CitationsSound, Citations!CitationsAreSources, Ids

\* CitationStreamSanitizer.feed and finish: wherever the stream of a text is cut, what has been
\* sent is what the text so far allows, and the markers of a stored answer are the packed
\* sources that the model cited, all of them and no others.
THEOREM CitationsKept ==
    ASSUME TextParameters
    PROVE  QuestionSpec => []CitationsSound
<1> DEFINE Now == part = "citations"
           Sound == Now => CitingInv
<1>1. QuestionInit => Sound
  BY CitingBegin
<1>2. Sound /\ [QuestionNext]_questionVars => Sound'
  BY CitingSteps, PartStays
<1>3. Sound => CitationsSound
  BY CitingSound DEF CitationsSound
<1> QED
  BY <1>1, <1>2, <1>3, PTL DEF QuestionSpec, questionVars

-------------------------------------------------------------------------------
(* The scores of the cross-encoder *)

\* Candidates have ids of their own, and the model gives every text a score.
RerankParameters ==
    /\ MaxCandidates \in Nat /\ BatchSize \in Nat \ {0} /\ MaxRetries \in Nat
    /\ \A r \in DOMAIN Search :
          /\ Search[r].candidates \subseteq Scored!EvidenceCandidate
          /\ IsFiniteSet(Search[r].candidates)
          /\ \A c, d \in Search[r].candidates : c.id = d.id => c = d
          /\ \A c \in Search[r].candidates :
                Score[Search[r].revision][Search[r].query][c.text] \in Scored!Scores

Texted(r, c) == Score[Search[r].revision][Search[r].query][c.text]
TrueScores(r) == [i \in 1 .. Len(Scored!Bounded[r]) |-> Texted(r, Scored!Bounded[r][i])]

\* The scores of the best candidates as far as they are known.
ScoredSoFar(r, scores) ==
    /\ scores \in Seq(Scored!Scores) /\ Len(scores) <= Len(Scored!Bounded[r])
    /\ \A i \in 1 .. Len(scores) : scores[i] = TrueScores(r)[i]

Entry(r) == [key |-> Scored!Key(r), ids |-> Scored!Ids(r), scores |-> TrueScores(r)]

CallStep ==
    [at : {"new", "scoring", "scored", "done", "failed"}, scores : Seq(Scored!Scores),
     attempt : 0 .. MaxRetries, out : Seq(Scored!RerankedEvidence)]

CallsSound ==
    /\ call \in [DOMAIN Search -> CallStep]
    /\ \A r \in DOMAIN Search :
          /\ ScoredSoFar(r, call[r].scores)
          /\ call[r].at = "scored" => Len(call[r].scores) = Len(Scored!Bounded[r])
          /\ call[r].at = "done" => call[r].out = Scored!Ranked(r, TrueScores(r))

\* What is known, and what any process has stored for others, are true scores.
RerankInv == CallsSound /\ \A e \in cache : \E r \in DOMAIN Search : e = Entry(r)

-------------------------------------------------------------------------------

\* The candidates by rank and id.
LEMMA ByRank ==
    ASSUME NEW S \in SUBSET Scored!EvidenceCandidate, IsFiniteSet(S),
           \A c, d \in S : c.id = d.id => c = d
    PROVE  LET o == Scored!Ordered(S, LAMBDA c, d :
                        c.rank < d.rank \/ (c.rank = d.rank /\ c.id < d.id))
           IN  o \in Seq(S) /\ \A i, j \in 1 .. Len(o) : o[i] = o[j] => i = j
<1> DEFINE R == {p \in S \X S : \/ p[1].rank < p[2].rank
                                \/ p[1].rank = p[2].rank /\ p[1].id < p[2].id}
           N == Cardinality(S)
           Chosen(k) == CHOOSE x \in S :
               Cardinality({y \in S : y.rank < x.rank \/ (y.rank = x.rank /\ y.id < x.id)}) = k - 1
           o == Scored!Ordered(S, LAMBDA c, d :
                    c.rank < d.rank \/ (c.rank = d.rank /\ c.id < d.id))
<1>1. \A c \in S : c.rank \in Nat /\ c.id \in Nat
  BY DEF Scored!EvidenceCandidate
<1>2. \A c, d \in S : <<c, d>> \in R <=> c.rank < d.rank \/ (c.rank = d.rank /\ c.id < d.id)
  OBVIOUS
<1>3. o = [k \in 1 .. N |-> Chosen(k)]
  BY DEF Scored!Ordered, Scored!Cardinality, Cardinality
<1> HIDE DEF o, R
<1>4. StrictOrder(R, S)
  <2>1. \A x \in S : <<x, x>> \notin R
    BY <1>1, <1>2
  <2>2. \A x, y, z \in S : <<x, y>> \in R /\ <<y, z>> \in R => <<x, z>> \in R
    BY <1>1, <1>2
  <2>3. \A x, y \in S : x # y => <<x, y>> \in R \/ <<y, x>> \in R
    BY <1>1, <1>2
  <2> QED
    BY <2>1, <2>2, <2>3 DEF StrictOrder
<1>5. ASSUME NEW k \in 1 .. N, \E x \in S : Cardinality(Preceding(R, S, x)) = k - 1
      PROVE  o[k] \in S /\ Cardinality(Preceding(R, S, o[k])) = k - 1
  <2>1. \A x \in S : Preceding(R, S, x)
                     = {y \in S : y.rank < x.rank \/ (y.rank = x.rank /\ y.id < x.id)}
    BY <1>2 DEF Preceding
  <2>2. o[k] = Chosen(k)
    BY <1>3
  <2> QED
    BY <1>5, <2>1, <2>2
<1>6. o = [k \in 1 .. N |-> o[k]]
  <2> HIDE DEF Chosen
  <2> QED
    BY <1>3
<1>7. ListedBy(o, S, R)
  BY <1>4, <1>5, <1>6, ListedInOrder
<1>8. \A i, j \in 1 .. Len(o) : o[i] = o[j] => i = j
  BY <1>4, <1>7, ListedOnce
<1> QED
  BY <1>7, <1>8 DEF o, ListedBy

\* The best candidates are listed, each once.
LEMMA BoundedIs ==
    ASSUME RerankParameters, NEW r \in DOMAIN Search
    PROVE  LET b == Scored!Bounded[r] IN
           /\ b \in Seq(Search[r].candidates)
           /\ \A i, j \in 1 .. Len(b) : b[i] = b[j] => i = j
<1> DEFINE S == Search[r].candidates
           o == Scored!Ordered(S, LAMBDA c, d :
                    c.rank < d.rank \/ (c.rank = d.rank /\ c.id < d.id))
           top == IF Len(o) < MaxCandidates THEN Len(o) ELSE MaxCandidates
           b == SubSeq(o, 1, top)
<1>1. o \in Seq(S) /\ \A i, j \in 1 .. Len(o) : o[i] = o[j] => i = j
  <2>1. S \in SUBSET Scored!EvidenceCandidate /\ IsFiniteSet(S)
        /\ \A c, d \in S : c.id = d.id => c = d
    BY DEF RerankParameters
  <2> HIDE DEF S
  <2> QED
    BY <2>1, ByRank
<1>2. Scored!Bounded[r] = b
  BY DEF Scored!Bounded
<1> HIDE DEF o, S
<1>3. top \in 0 .. Len(o) /\ Len(o) \in Nat
  BY <1>1 DEF RerankParameters
<1> HIDE DEF top
<1>4. b \in Seq(S) /\ Len(b) = top /\ \A i \in 1 .. top : b[i] = o[i]
  BY <1>1, <1>3
<1> HIDE DEF b
<1>5. ASSUME NEW i \in 1 .. Len(b), NEW j \in 1 .. Len(b), b[i] = b[j] PROVE i = j
  <2>1. i \in 1 .. Len(o) /\ j \in 1 .. Len(o)
    BY <1>3, <1>4
  <2>2. b[i] = o[i] /\ b[j] = o[j]
    BY <1>4
  <2> QED
    BY <1>1, <1>5, <2>1, <2>2
<1> QED
  BY <1>2, <1>4, <1>5 DEF S

\* Scored candidates, best first and as retrieved among equals.
LEMMA ByScore ==
    ASSUME NEW S \in SUBSET Scored!RerankedEvidence, IsFiniteSet(S),
           \A e, f \in S : e.candidate.id = f.candidate.id => e = f
    PROVE  LET o == Scored!Ordered(S, LAMBDA e, f :
                        \/ e.score > f.score
                        \/ e.score = f.score /\ e.candidate.rank < f.candidate.rank
                        \/ /\ e.score = f.score /\ e.candidate.rank = f.candidate.rank
                           /\ e.candidate.id < f.candidate.id)
           IN  /\ o \in Seq(S) /\ Len(o) = Cardinality(S)
               /\ \A x \in S : \E k \in 1 .. Len(o) : o[k] = x
               /\ \A i, j \in 1 .. Len(o) : i < j =>
                     \/ o[i].score > o[j].score
                     \/ o[i].score = o[j].score /\ o[i].candidate.rank < o[j].candidate.rank
                     \/ /\ o[i].score = o[j].score /\ o[i].candidate.rank = o[j].candidate.rank
                        /\ o[i].candidate.id < o[j].candidate.id
<1> DEFINE Ahead(e, f) ==
               \/ e.score > f.score
               \/ e.score = f.score /\ e.candidate.rank < f.candidate.rank
               \/ /\ e.score = f.score /\ e.candidate.rank = f.candidate.rank
                  /\ e.candidate.id < f.candidate.id
           R == {p \in S \X S : Ahead(p[1], p[2])}
           N == Cardinality(S)
           Chosen(k) == CHOOSE x \in S : Cardinality({y \in S : Ahead(y, x)}) = k - 1
           o == Scored!Ordered(S, LAMBDA e, f :
                    \/ e.score > f.score
                    \/ e.score = f.score /\ e.candidate.rank < f.candidate.rank
                    \/ /\ e.score = f.score /\ e.candidate.rank = f.candidate.rank
                       /\ e.candidate.id < f.candidate.id)
<1>1. \A e \in S : e.score \in Nat /\ e.candidate.rank \in Nat /\ e.candidate.id \in Nat
  BY DEF Scored!RerankedEvidence, Scored!EvidenceCandidate, Scored!Scores
<1>2. \A e, f \in S : <<e, f>> \in R <=> Ahead(e, f)
  OBVIOUS
<1>3. o = [k \in 1 .. N |-> Chosen(k)]
  BY DEF Scored!Ordered, Scored!Cardinality, Cardinality
<1>4. \A x, y \in S : <<x, y>> \in R =>
         \/ x.score > y.score
         \/ x.score = y.score /\ x.candidate.rank < y.candidate.rank
         \/ /\ x.score = y.score /\ x.candidate.rank = y.candidate.rank
            /\ x.candidate.id < y.candidate.id
  OBVIOUS
<1> HIDE DEF o, R
<1>5. StrictOrder(R, S)
  <2>1. \A x \in S : <<x, x>> \notin R
    BY <1>1, <1>2
  <2>2. \A x, y, z \in S : <<x, y>> \in R /\ <<y, z>> \in R => <<x, z>> \in R
    BY <1>1, <1>2
  <2>3. \A x, y \in S : x # y => <<x, y>> \in R \/ <<y, x>> \in R
    BY <1>1, <1>2
  <2> QED
    BY <2>1, <2>2, <2>3 DEF StrictOrder
<1> HIDE DEF Ahead
<1>6. ASSUME NEW k \in 1 .. N, \E x \in S : Cardinality(Preceding(R, S, x)) = k - 1
      PROVE  o[k] \in S /\ Cardinality(Preceding(R, S, o[k])) = k - 1
  <2>1. \A x \in S : Preceding(R, S, x) = {y \in S : Ahead(y, x)}
    BY <1>2 DEF Preceding
  <2>2. o[k] = Chosen(k)
    BY <1>3
  <2> QED
    BY <1>6, <2>1, <2>2
<1>7. o = [k \in 1 .. N |-> o[k]]
  <2> HIDE DEF Chosen
  <2> QED
    BY <1>3
<1>8. ListedBy(o, S, R)
  BY <1>5, <1>6, <1>7, ListedInOrder
<1>9. /\ o \in Seq(S) /\ Len(o) = Cardinality(S)
      /\ \A x \in S : \E k \in 1 .. Len(o) : o[k] = x
      /\ \A i, j \in 1 .. Len(o) : i < j => <<o[i], o[j]>> \in R
  BY <1>8 DEF ListedBy
<1>10. ASSUME NEW i \in 1 .. Len(o), NEW j \in 1 .. Len(o), i < j
       PROVE  \/ o[i].score > o[j].score
              \/ o[i].score = o[j].score /\ o[i].candidate.rank < o[j].candidate.rank
              \/ /\ o[i].score = o[j].score /\ o[i].candidate.rank = o[j].candidate.rank
                 /\ o[i].candidate.id < o[j].candidate.id
  <2>1. o[i] \in S /\ o[j] \in S /\ <<o[i], o[j]>> \in R
    BY <1>9, <1>10
  <2> QED
    BY <1>4, <2>1
<1> QED
  BY <1>9, <1>10, ZenonT(30) DEF o

\* What a request returns that has the true scores of its candidates.
LEMMA RankedIs ==
    ASSUME RerankParameters, NEW r \in DOMAIN Search
    PROVE  LET out == Scored!Ranked(r, TrueScores(r)) IN
           /\ out \in Seq(Scored!RerankedEvidence)
           /\ Scored!ToSet(out) = Scored!Expected(r) /\ Len(out) = Cardinality(Scored!Expected(r))
           /\ \A i, j \in 1 .. Len(out) : i < j =>
                 \/ out[i].score > out[j].score
                 \/ out[i].score = out[j].score /\ out[i].candidate.rank < out[j].candidate.rank
                 \/ /\ out[i].score = out[j].score
                    /\ out[i].candidate.rank = out[j].candidate.rank
                    /\ out[i].candidate.id < out[j].candidate.id
<1> DEFINE b == Scored!Bounded[r]
           S == {[candidate |-> b[i], score |-> TrueScores(r)[i]] : i \in DOMAIN TrueScores(r)}
           E == Scored!Expected(r)
           o == Scored!Ordered(S, LAMBDA e, f :
                    \/ e.score > f.score
                    \/ e.score = f.score /\ e.candidate.rank < f.candidate.rank
                    \/ /\ e.score = f.score /\ e.candidate.rank = f.candidate.rank
                       /\ e.candidate.id < f.candidate.id)
           out == Scored!Ranked(r, TrueScores(r))
<1>1. /\ b \in Seq(Search[r].candidates)
      /\ Search[r].candidates \subseteq Scored!EvidenceCandidate
      /\ \A c, d \in Search[r].candidates : c.id = d.id => c = d
      /\ \A c \in Search[r].candidates : Texted(r, c) \in Scored!Scores
  BY BoundedIs DEF RerankParameters, Texted
<1>2. DOMAIN TrueScores(r) = 1 .. Len(b)
      /\ \A i \in 1 .. Len(b) : TrueScores(r)[i] = Texted(r, b[i])
  BY DEF TrueScores
<1>3. E = {[candidate |-> c, score |-> Texted(r, c)] : c \in {b[i] : i \in 1 .. Len(b)}}
  <2>1. Scored!ToSet(b) = {b[i] : i \in 1 .. Len(b)}
    BY <1>1 DEF Scored!ToSet
  <2> QED
    BY <2>1 DEF Scored!Expected, Texted
<1>4. S = E
  <2> HIDE DEF b, E
  <2> QED
    BY <1>2, <1>3
<1>5. IsFiniteSet(S)
  <2> DEFINE n == Len(b)
             f == [i \in 1 .. n |-> [candidate |-> b[i], score |-> TrueScores(r)[i]]]
  <2>1. n \in Nat
    BY <1>1
  <2>2. S = {f[i] : i \in 1 .. n}
    BY <1>2
  <2> HIDE DEF n, f, S
  <2>3. IsFiniteSet(1 .. n)
    BY <2>1, FS_Interval
  <2>4. f \in Surjection(1 .. n, S)
    <3>1. f = [i \in 1 .. n |-> f[i]]
      BY DEF f
    <3> QED
      BY <2>2, <3>1 DEF Surjection
  <2> QED
    BY <2>3, <2>4, FS_Surjection
<1>6. S \in SUBSET Scored!RerankedEvidence
  <2> HIDE DEF b
  <2> SUFFICES ASSUME NEW i \in 1 .. Len(b)
               PROVE  [candidate |-> b[i], score |-> TrueScores(r)[i]] \in Scored!RerankedEvidence
    BY <1>2
  <2>1. b[i] \in Search[r].candidates
    BY <1>1
  <2> QED
    BY <1>1, <1>2, <2>1 DEF Scored!RerankedEvidence
<1>7. \A e, f \in S : e.candidate.id = f.candidate.id => e = f
  <2> HIDE DEF b
  <2> SUFFICES ASSUME NEW i \in 1 .. Len(b), NEW j \in 1 .. Len(b), b[i].id = b[j].id
               PROVE  [candidate |-> b[i], score |-> TrueScores(r)[i]]
                      = [candidate |-> b[j], score |-> TrueScores(r)[j]]
    BY <1>2
  <2>1. b[i] = b[j]
    BY <1>1
  <2> QED
    BY <1>2, <2>1
<1>8. out = o
  BY DEF Scored!Ranked
<1> HIDE DEF S, out
<1>9. /\ out \in Seq(S) /\ Len(out) = Cardinality(S)
      /\ \A x \in S : \E k \in 1 .. Len(out) : out[k] = x
      /\ \A i, j \in 1 .. Len(out) : i < j =>
            \/ out[i].score > out[j].score
            \/ out[i].score = out[j].score /\ out[i].candidate.rank < out[j].candidate.rank
            \/ /\ out[i].score = out[j].score
               /\ out[i].candidate.rank = out[j].candidate.rank
               /\ out[i].candidate.id < out[j].candidate.id
  <2>1. /\ o \in Seq(S) /\ Len(o) = Cardinality(S)
        /\ \A x \in S : \E k \in 1 .. Len(o) : o[k] = x
        /\ \A i, j \in 1 .. Len(o) : i < j =>
              \/ o[i].score > o[j].score
              \/ o[i].score = o[j].score /\ o[i].candidate.rank < o[j].candidate.rank
              \/ /\ o[i].score = o[j].score /\ o[i].candidate.rank = o[j].candidate.rank
                 /\ o[i].candidate.id < o[j].candidate.id
    BY <1>5, <1>6, <1>7, ByScore, ZenonT(60)
  <2> HIDE DEF o
  <2> QED
    BY <1>8, <2>1, ZenonT(60)
<1>10. Scored!ToSet(out) = S
  BY <1>9 DEF Scored!ToSet
<1>11. out \in Seq(Scored!RerankedEvidence)
  BY <1>6, <1>9
<1> HIDE DEF E
<1> QED
  BY <1>4, <1>9, <1>10, <1>11 DEF out, E

-------------------------------------------------------------------------------

\* A valid answer has a score for every text of the batch, at its place.
LEMMA PlacedIs ==
    ASSUME RerankParameters, NEW r \in DOMAIN Search, ScoredSoFar(r, call[r].scores),
           NEW reply \in Scored!Reply(r), Scored!Valid(reply, Len(Scored!Batch(r)))
    PROVE  LET more == Scored!Placed(reply)
               from == Len(call[r].scores)
           IN  /\ more \in Seq(Scored!Scores) /\ from + Len(more) <= Len(Scored!Bounded[r])
               /\ \A i \in 1 .. Len(more) : more[i] = TrueScores(r)[from + i]
<1> DEFINE b == Scored!Bounded[r]
           from == Len(call[r].scores)
           to == IF from + BatchSize < Len(b) THEN from + BatchSize ELSE Len(b)
           batch == Scored!Batch(r)
           n == Len(batch)
           True(i) == Texted(r, batch[i])
           Entries == {[index |-> i - 1, score |-> True(i)] : i \in DOMAIN batch} \cup
                      {[index |-> n, score |-> 0], [index |-> 0, score |-> 101]}
           more == Scored!Placed(reply)
<1>1. /\ b \in Seq(Search[r].candidates) /\ BatchSize \in Nat
      /\ \A c \in Search[r].candidates : Texted(r, c) \in Scored!Scores
  BY BoundedIs DEF RerankParameters, Texted
<1>2. from \in Nat /\ from <= Len(b) /\ Len(b) \in Nat
  BY <1>1 DEF ScoredSoFar
<1>3. batch = SubSeq(b, from + 1, to)
  BY DEF Scored!Batch
<1>4. reply \in UNION {[1 .. m -> Entries] : m \in 0 .. n + 1}
  <2> HIDE DEF batch
  <2> QED
    BY DEF Scored!Reply, Scored!BoundedSeq, Scored!SeqOf, Texted, batch
<1> HIDE DEF b, from, batch
<1>5. to \in from .. Len(b)
  BY <1>1, <1>2
<1> HIDE DEF to
<1>6. /\ batch \in Seq(Search[r].candidates) /\ n = to - from
      /\ \A i \in 1 .. n : batch[i] = b[from + i]
  <2> DEFINE C == Search[r].candidates
             m == from + 1
  <2>1. b \in Seq(C) /\ m \in 1 .. Len(b) + 1 /\ to \in m - 1 .. Len(b)
    BY <1>1, <1>2, <1>5
  <2>2. from = m - 1
    BY <1>2
  <2> HIDE DEF C, m
  <2>3. /\ SubSeq(b, m, to) \in Seq(C) /\ Len(SubSeq(b, m, to)) = to - m + 1
        /\ \A i \in 1 .. to - m + 1 : SubSeq(b, m, to)[i] = b[m - 1 + i]
    BY <2>1, Piece
  <2>4. batch = SubSeq(b, m, to)
    BY <1>3 DEF m
  <2>5. n = to - m + 1 /\ to - m + 1 = to - from
    BY <1>2, <1>5, <2>2, <2>3, <2>4 DEF m
  <2> QED
    BY <2>2, <2>3, <2>4, <2>5 DEF C
<1>7. n \in Nat /\ DOMAIN batch = 1 .. n
  BY <1>6
<1>8. Scored!Valid(reply, n)
  BY DEF batch
<1> HIDE DEF n
<1>9. reply \in [1 .. n -> Entries]
  <2>1. PICK m \in 0 .. n + 1 : reply \in [1 .. m -> Entries]
    BY <1>4
  <2>2. Len(reply) = m
    <3> HIDE DEF Entries
    <3> QED
      BY <1>7, <2>1
  <2>3. m = n
    BY <1>8, <2>2 DEF Scored!Valid
  <2> QED
    BY <2>1, <2>3
<1>10. /\ DOMAIN reply = 1 .. n
       /\ \A k \in 1 .. n : reply[k].index \in 0 .. n - 1 /\ reply[k].score \in Scored!Scores
       /\ \A k, l \in 1 .. n : reply[k].index = reply[l].index => k = l
  <2>1. DOMAIN reply = 1 .. n
    BY <1>9
  <2> QED
    BY <1>8, <2>1 DEF Scored!Valid
<1>11. ASSUME NEW k \in 1 .. n
       PROVE  /\ reply[k].index + 1 \in 1 .. n
              /\ reply[k].score = True(reply[k].index + 1)
  <2>1. reply[k] \in Entries
    BY <1>9
  <2>2. reply[k].index \in 0 .. n - 1 /\ reply[k].score \in Scored!Scores
    BY <1>10
  <2>3. reply[k] # [index |-> n, score |-> 0] /\ reply[k] # [index |-> 0, score |-> 101]
    <3>1. ASSUME reply[k] = [index |-> n, score |-> 0] PROVE FALSE
      <4>1. reply[k].index = n
        BY <3>1
      <4> QED
        BY <1>7, <2>2, <4>1
    <3>2. ASSUME reply[k] = [index |-> 0, score |-> 101] PROVE FALSE
      <4>1. reply[k].score = 101
        BY <3>2
      <4> QED
        BY <2>2, <4>1 DEF Scored!Scores
    <3> QED
      BY <3>1, <3>2
  <2>4. PICK i \in 1 .. n : reply[k] = [index |-> i - 1, score |-> True(i)]
    BY <1>7, <2>1, <2>3
  <2>5. reply[k].index + 1 = i /\ reply[k].score = True(i)
    <3> HIDE DEF True
    <3> QED
      BY <1>7, <2>4
  <2> QED
    BY <2>5
<1> HIDE DEF True, Entries
<1>12. ASSUME NEW i \in 1 .. n PROVE \E k \in 1 .. n : reply[k].index = i - 1
  <2> DEFINE f == [k \in 1 .. n |-> reply[k].index + 1]
             T == 1 .. n
  <2>1. IsFiniteSet(T)
    BY <1>7, FS_Interval
  <2>2. f \in Injection(T, T)
    <3>1. f \in [T -> T]
      BY <1>11
    <3>2. \A k, l \in T : f[k] = f[l] => k = l
      BY <1>7, <1>10
    <3> HIDE DEF f, T
    <3> QED
      BY <3>1, <3>2 DEF Injection, IsInjective
  <2>3. f \in Surjection(T, T)
    <3> HIDE DEF f, T
    <3> QED
      BY <2>1, <2>2, FS_Injection
  <2>4. PICK k \in T : f[k] = i
    <3> HIDE DEF f
    <3> QED
      BY <2>3 DEF Surjection
  <2>5. reply[k].index + 1 = i /\ reply[k].index \in 0 .. n - 1
    BY <1>10, <2>4
  <2> QED
    BY <1>7, <2>5
<1>13. more = [i \in 1 .. n |-> (CHOOSE e \in Scored!ToSet(reply) : e.index = i - 1).score]
  BY <1>10 DEF Scored!Placed
<1>14. ASSUME NEW i \in 1 .. n PROVE more[i] = True(i) /\ more[i] \in Scored!Scores
  <2> DEFINE e == CHOOSE e \in Scored!ToSet(reply) : e.index = i - 1
  <2>1. \A e0 : e0 \in Scored!ToSet(reply) <=> \E k \in 1 .. n : e0 = reply[k]
    BY <1>10 DEF Scored!ToSet
  <2>2. e \in Scored!ToSet(reply) /\ e.index = i - 1
    BY <1>12, <2>1
  <2>3. PICK k \in 1 .. n : e = reply[k]
    BY <2>1, <2>2
  <2>4. more[i] = e.score
    BY <1>13
  <2> HIDE DEF e
  <2>5. reply[k].index + 1 = i
    BY <1>7, <2>2, <2>3
  <2>6. reply[k].score = True(i)
    BY <1>11, <2>5
  <2> QED
    BY <1>10, <2>3, <2>4, <2>6
<1>15. more \in Seq(Scored!Scores) /\ Len(more) = n
  <2>1. more = [i \in 1 .. n |-> more[i]]
    BY <1>13
  <2> HIDE DEF more
  <2>2. more \in [1 .. n -> Scored!Scores]
    BY <1>14, <2>1
  <2> QED
    BY <1>7, <2>2
<1>16. ASSUME NEW i \in 1 .. n PROVE more[i] = TrueScores(r)[from + i]
  <2>1. from + i \in 1 .. Len(b)
    BY <1>2, <1>5, <1>6, <1>7
  <2>2. TrueScores(r)[from + i] = Texted(r, b[from + i])
    BY <2>1 DEF TrueScores, b
  <2>3. True(i) = Texted(r, b[from + i])
    BY <1>6 DEF True
  <2> QED
    BY <1>14, <2>2, <2>3
<1>17. from + n <= Len(b)
  BY <1>2, <1>5, <1>6
<1> HIDE DEF more
<1> QED
  BY <1>15, <1>16, <1>17 DEF more, from, b

LEMMA ScoredBegin ==
    ASSUME RerankParameters, QuestionInit, part = "rerank"
    PROVE  RerankInv
<1>1. /\ call = [r \in DOMAIN Search |->
                     [at |-> "new", scores |-> <<>>, attempt |-> 0, out |-> <<>>]]
      /\ cache = {}
  BY DEF QuestionInit, Scored!Init
<1>2. [at |-> "new", scores |-> <<>>, attempt |-> 0, out |-> <<>>] \in CallStep
  BY DEF RerankParameters, CallStep
<1>3. \A r \in DOMAIN Search : ScoredSoFar(r, <<>>)
  <2> SUFFICES ASSUME NEW r \in DOMAIN Search PROVE ScoredSoFar(r, <<>>)
    OBVIOUS
  <2>1. Len(Scored!Bounded[r]) \in Nat
    BY BoundedIs
  <2> QED
    BY <2>1 DEF ScoredSoFar
<1> QED
  BY <1>1, <1>2, <1>3 DEF RerankInv, CallsSound

\* A request with as many scores as candidates has them all.
LEMMA AllScored ==
    ASSUME RerankParameters, NEW r \in DOMAIN Search, NEW scores, ScoredSoFar(r, scores),
           Len(scores) = Len(Scored!Bounded[r])
    PROVE  scores = TrueScores(r)
<1> DEFINE N == Len(Scored!Bounded[r])
<1>1. N \in Nat
  BY BoundedIs
<1>2. TrueScores(r) = [i \in 1 .. N |-> TrueScores(r)[i]]
  BY DEF TrueScores
<1>3. scores = [i \in 1 .. N |-> scores[i]] /\ \A i \in 1 .. N : scores[i] = TrueScores(r)[i]
  BY DEF ScoredSoFar
<1> HIDE DEF N
<1> QED
  BY <1>2, <1>3

LEMMA TrueScoresAre ==
    ASSUME RerankParameters, NEW r \in DOMAIN Search
    PROVE  ScoredSoFar(r, TrueScores(r)) /\ Len(TrueScores(r)) = Len(Scored!Bounded[r])
<1> DEFINE b == Scored!Bounded[r]
<1>1. /\ b \in Seq(Search[r].candidates)
      /\ \A c \in Search[r].candidates : Texted(r, c) \in Scored!Scores
  BY BoundedIs DEF RerankParameters, Texted
<1>2. TrueScores(r) = [i \in 1 .. Len(b) |-> Texted(r, b[i])]
  BY DEF TrueScores
<1> HIDE DEF b
<1>3. /\ Len(b) \in Nat /\ \A i \in 1 .. Len(b) : b[i] \in Search[r].candidates
  BY <1>1
<1>4. TrueScores(r) \in [1 .. Len(b) -> Scored!Scores]
  BY <1>1, <1>2, <1>3
<1>5. TrueScores(r) \in Seq(Scored!Scores) /\ Len(TrueScores(r)) = Len(b)
  BY <1>3, <1>4
<1> QED
  BY <1>3, <1>5 DEF ScoredSoFar, b

\* A request that changes to a sound step.
LEMMA CallChanges ==
    ASSUME RerankParameters, RerankInv, NEW r \in DOMAIN Search, NEW to \in CallStep,
           Scored!Goes(r, to), ScoredSoFar(r, to.scores),
           to.at = "scored" => Len(to.scores) = Len(Scored!Bounded[r]),
           to.at = "done" => to.out = Scored!Ranked(r, TrueScores(r))
    PROVE  CallsSound'
<1>1. call' = [call EXCEPT ![r] = to] /\ call \in [DOMAIN Search -> CallStep]
  BY DEF Scored!Goes, RerankInv, CallsSound
<1>2. /\ call' \in [DOMAIN Search -> CallStep] /\ call'[r] = to
      /\ \A p \in DOMAIN Search : p # r => call'[p] = call[p]
  BY <1>1
<1>3. ASSUME NEW p \in DOMAIN Search
      PROVE  /\ ScoredSoFar(p, call'[p].scores)
             /\ call'[p].at = "scored" => Len(call'[p].scores) = Len(Scored!Bounded[p])
             /\ call'[p].at = "done" => call'[p].out = Scored!Ranked(p, TrueScores(p))
  <2>1. CASE p = r
    BY <1>2, <2>1
  <2>2. CASE p # r
    BY <1>2, <2>2 DEF RerankInv, CallsSound
  <2> QED
    BY <2>1, <2>2
<1> QED
  BY <1>2, <1>3 DEF CallsSound

\* A request that ends with the true scores.
LEMMA EndsWell ==
    ASSUME RerankParameters, RerankInv, NEW r \in DOMAIN Search,
           Scored!Ends(r, TrueScores(r))
    PROVE  CallsSound'
<1> DEFINE to == [call[r] EXCEPT !.at = "done", !.out = Scored!Ranked(r, TrueScores(r))]
<1>1. call[r] \in CallStep /\ ScoredSoFar(r, call[r].scores)
  BY DEF RerankInv, CallsSound
<1>2. Scored!Ranked(r, TrueScores(r)) \in Seq(Scored!RerankedEvidence)
  BY RankedIs
<1>3. /\ to \in CallStep /\ to.at = "done" /\ to.scores = call[r].scores
      /\ to.out = Scored!Ranked(r, TrueScores(r))
  BY <1>1, <1>2 DEF CallStep
<1>4. Scored!Goes(r, to)
  BY DEF Scored!Ends
<1> HIDE DEF to
<1> QED
  BY <1>1, <1>3, <1>4, CallChanges

\* The key tells what the scores depend on.
LEMMA SameKey ==
    ASSUME RerankParameters, NEW r \in DOMAIN Search, NEW p \in DOMAIN Search,
           Scored!Key(p) = Scored!Key(r)
    PROVE  TrueScores(p) = TrueScores(r)
<1> DEFINE Read(x) ==
               [i \in DOMAIN Scored!Bounded[x] |-> <<Scored!Bounded[x][i].id, Scored!Bounded[x][i].text>>]
<1>1. \A x \in DOMAIN Search : DOMAIN Scored!Bounded[x] = 1 .. Len(Scored!Bounded[x])
  <2> SUFFICES ASSUME NEW x \in DOMAIN Search
               PROVE  DOMAIN Scored!Bounded[x] = 1 .. Len(Scored!Bounded[x])
    OBVIOUS
  <2>1. Scored!Bounded[x] \in Seq(Search[x].candidates)
    BY BoundedIs
  <2> QED
    BY <2>1
<1>2. /\ Search[p].query = Search[r].query /\ Search[p].revision = Search[r].revision
      /\ Read(p) = Read(r)
  <2>1. \A x : /\ Scored!Key(x).query = Search[x].query
               /\ Scored!Key(x).revision = Search[x].revision
               /\ Scored!Key(x).candidates = Read(x)
    BY DEF Scored!Key
  <2> HIDE DEF Read
  <2> QED
    BY <2>1
<1>3. /\ DOMAIN Read(p) = DOMAIN Scored!Bounded[p] /\ DOMAIN Read(r) = DOMAIN Scored!Bounded[r]
      /\ \A i \in DOMAIN Scored!Bounded[p] : Read(p)[i][2] = Scored!Bounded[p][i].text
      /\ \A i \in DOMAIN Scored!Bounded[r] : Read(r)[i][2] = Scored!Bounded[r][i].text
  OBVIOUS
<1> HIDE DEF Read
<1>4. DOMAIN Scored!Bounded[p] = DOMAIN Scored!Bounded[r]
  BY <1>2, <1>3
<1>5. \A i \in DOMAIN Scored!Bounded[r] : Scored!Bounded[p][i].text = Scored!Bounded[r][i].text
  BY <1>2, <1>3, <1>4
<1>6. /\ TrueScores(p) = [i \in DOMAIN Scored!Bounded[p] |-> Texted(p, Scored!Bounded[p][i])]
      /\ TrueScores(r) = [i \in DOMAIN Scored!Bounded[r] |-> Texted(r, Scored!Bounded[r][i])]
  BY <1>1 DEF TrueScores
<1> QED
  BY <1>2, <1>4, <1>5, <1>6 DEF Texted

LEMMA CachedScores ==
    ASSUME RerankParameters, RerankInv, NEW r \in DOMAIN Search, NEW e \in cache,
           e.key = Scored!Key(r)
    PROVE  e.scores = TrueScores(r)
<1>1. PICK p \in DOMAIN Search : e = Entry(p)
  BY DEF RerankInv
<1>2. e.key = Scored!Key(p) /\ e.scores = TrueScores(p)
  BY <1>1 DEF Entry
<1> QED
  BY <1>2, SameKey

LEMMA BatchScored ==
    ASSUME RerankParameters, RerankInv, NEW r \in DOMAIN Search, Scored!ScoreBatch(r)
    PROVE  CallsSound'
<1>1. PICK reply \in Scored!Reply(r) :
         /\ Scored!Valid(reply, Len(Scored!Batch(r)))
         /\ LET scores == call[r].scores \o Scored!Placed(reply)
                at == IF Len(scores) = Len(Scored!Bounded[r]) THEN "scored" ELSE "scoring"
            IN  Scored!Goes(r, [call[r] EXCEPT !.at = at, !.scores = scores, !.attempt = 0])
  BY DEF Scored!ScoreBatch
<1> DEFINE old == call[r].scores
           more == Scored!Placed(reply)
           scores == old \o more
           at == IF Len(scores) = Len(Scored!Bounded[r]) THEN "scored" ELSE "scoring"
           to == [call[r] EXCEPT !.at = at, !.scores = scores, !.attempt = 0]
<1>2. call[r] \in CallStep /\ ScoredSoFar(r, old)
  BY DEF RerankInv, CallsSound
<1>3. /\ more \in Seq(Scored!Scores) /\ Len(old) + Len(more) <= Len(Scored!Bounded[r])
      /\ \A i \in 1 .. Len(more) : more[i] = TrueScores(r)[Len(old) + i]
  BY <1>1, <1>2, PlacedIs
<1>4. old \in Seq(Scored!Scores) /\ \A i \in 1 .. Len(old) : old[i] = TrueScores(r)[i]
  BY <1>2 DEF ScoredSoFar
<1>5. Scored!Goes(r, to)
  BY <1>1
<1> HIDE DEF old, more
<1>6. /\ scores \in Seq(Scored!Scores) /\ Len(scores) = Len(old) + Len(more)
      /\ \A i \in 1 .. Len(old) : scores[i] = old[i]
      /\ \A i \in 1 .. Len(more) : scores[Len(old) + i] = more[i]
  BY <1>3, <1>4, Joined
<1> HIDE DEF scores
<1>7. ASSUME NEW i \in 1 .. Len(scores) PROVE scores[i] = TrueScores(r)[i]
  <2>1. Len(old) \in Nat /\ Len(more) \in Nat
    BY <1>3, <1>4
  <2>2. CASE i <= Len(old)
    BY <1>4, <1>6, <2>1, <2>2
  <2>3. CASE i > Len(old)
    <3>1. i - Len(old) \in 1 .. Len(more) /\ Len(old) + (i - Len(old)) = i
      BY <1>6, <2>1, <2>3
    <3> QED
      BY <1>3, <1>6, <3>1
  <2> QED
    BY <2>1, <2>2, <2>3
<1>8. ScoredSoFar(r, scores)
  BY <1>3, <1>6, <1>7 DEF ScoredSoFar
<1>9. /\ to \in CallStep /\ to.scores = scores /\ to.at # "done"
      /\ to.at = "scored" => Len(scores) = Len(Scored!Bounded[r])
  <2>1. at \in {"scored", "scoring"} /\ (at = "scored" => Len(scores) = Len(Scored!Bounded[r]))
    OBVIOUS
  <2> HIDE DEF at
  <2>2. 0 \in 0 .. MaxRetries
    BY DEF RerankParameters
  <2>3. to \in CallStep /\ to.scores = scores /\ to.at = at
    BY <1>2, <1>6, <2>1, <2>2 DEF CallStep
  <2> QED
    BY <2>1, <2>3
<1> HIDE DEF to
<1> QED
  BY <1>5, <1>8, <1>9, CallChanges

\* A request that goes on with the same scores.
LEMMA GoesOnScored ==
    ASSUME RerankParameters, RerankInv, NEW r \in DOMAIN Search,
           Scored!Miss(r) \/ Scored!TooMany(r) \/ Scored!Raises(r)
    PROVE  CallsSound'
<1>1. call[r] \in CallStep /\ ScoredSoFar(r, call[r].scores) /\ MaxRetries \in Nat
  BY DEF RerankInv, CallsSound, RerankParameters
<1>2. CASE Scored!Miss(r)
  <2> DEFINE to == [call[r] EXCEPT !.at = "scoring"]
  <2>1. to \in CallStep /\ to.at = "scoring" /\ to.scores = call[r].scores
    BY <1>1 DEF CallStep
  <2>2. Scored!Goes(r, to)
    BY <1>2 DEF Scored!Miss
  <2> HIDE DEF to
  <2> QED
    BY <1>1, <2>1, <2>2, CallChanges
<1>3. CASE Scored!TooMany(r)
  <2> DEFINE to == [call[r] EXCEPT !.attempt = @ + 1]
  <2>1. call[r].at = "scoring" /\ call[r].attempt < MaxRetries
    BY <1>3 DEF Scored!TooMany
  <2>2. to \in CallStep /\ to.at = "scoring" /\ to.scores = call[r].scores
    BY <1>1, <2>1 DEF CallStep
  <2>3. Scored!Goes(r, to)
    BY <1>3 DEF Scored!TooMany
  <2> HIDE DEF to
  <2> QED
    BY <1>1, <2>2, <2>3, CallChanges
<1>4. CASE Scored!Raises(r)
  <2> DEFINE to == [call[r] EXCEPT !.at = "failed"]
  <2>1. to \in CallStep /\ to.at = "failed" /\ to.scores = call[r].scores
    BY <1>1 DEF CallStep
  <2>2. Scored!Goes(r, to)
    BY <1>4 DEF Scored!Raises
  <2> HIDE DEF to
  <2> QED
    BY <1>1, <2>1, <2>2, CallChanges
<1> QED
  BY <1>2, <1>3, <1>4

LEMMA RequestKeeps ==
    ASSUME RerankParameters, RerankInv, NEW r \in DOMAIN Search,
           Scored!Rerank(r) \/ Scored!Service(r)
    PROVE  RerankInv'
<1>1. call[r] \in CallStep /\ ScoredSoFar(r, call[r].scores)
  BY DEF RerankInv, CallsSound
<1>2. call[r].at = "scored" => call[r].scores = TrueScores(r)
  <2>1. ASSUME call[r].at = "scored" PROVE Len(call[r].scores) = Len(Scored!Bounded[r])
    BY <2>1 DEF RerankInv, CallsSound
  <2> QED
    BY <1>1, <2>1, AllScored
<1>3. CASE Scored!Nothing(r)
  <2>1. Scored!Bounded[r] = <<>> /\ Scored!Ends(r, <<>>) /\ cache' = cache
    BY <1>3 DEF Scored!Nothing
  <2>2. ScoredSoFar(r, <<>>) /\ Len(<<>>) = Len(Scored!Bounded[r])
    BY <2>1 DEF ScoredSoFar
  <2>3. TrueScores(r) = <<>>
    BY <2>2, AllScored
  <2>4. CallsSound'
    BY <2>1, <2>3, EndsWell
  <2> QED
    BY <2>1, <2>4 DEF RerankInv
<1>4. CASE Scored!Hit(r)
  <2>1. PICK e \in cache : Scored!Usable(e, r) /\ Scored!Ends(r, e.scores) /\ cache' = cache
    BY <1>4 DEF Scored!Hit
  <2>2. e.scores = TrueScores(r)
    BY <2>1, CachedScores DEF Scored!Usable
  <2>3. CallsSound'
    BY <2>1, <2>2, EndsWell
  <2> QED
    BY <2>1, <2>3 DEF RerankInv
<1>5. CASE Scored!Store(r)
  <2>1. /\ call[r].at = "scored" /\ Scored!Ends(r, call[r].scores)
        /\ cache' \subseteq cache \cup
              {[key |-> Scored!Key(r), ids |-> Scored!Ids(r), scores |-> call[r].scores]}
    BY <1>5 DEF Scored!Store
  <2>2. CallsSound'
    BY <1>2, <2>1, EndsWell
  <2>3. cache' \subseteq cache \cup {Entry(r)}
    BY <1>2, <2>1 DEF Entry
  <2> QED
    BY <2>2, <2>3 DEF RerankInv
<1>6. CASE Scored!StoreFails(r)
  <2>1. call[r].at = "scored" /\ Scored!Ends(r, call[r].scores) /\ cache' = cache
    BY <1>6 DEF Scored!StoreFails
  <2>2. CallsSound'
    BY <1>2, <2>1, EndsWell
  <2> QED
    BY <2>1, <2>2 DEF RerankInv
<1>7. CASE Scored!ScoreBatch(r)
  <2>1. CallsSound' /\ cache' = cache
    BY <1>7, BatchScored DEF Scored!ScoreBatch
  <2> QED
    BY <2>1 DEF RerankInv
<1>8. CASE Scored!Miss(r) \/ Scored!TooMany(r) \/ Scored!Raises(r)
  <2>1. CallsSound' /\ cache' = cache
    BY <1>8, GoesOnScored DEF Scored!Miss, Scored!TooMany, Scored!Raises
  <2> QED
    BY <2>1 DEF RerankInv
<1> QED
  BY <1>3, <1>4, <1>5, <1>6, <1>7, <1>8 DEF Scored!Rerank, Scored!Service

LEMMA ScoredSteps ==
    ASSUME RerankParameters, part = "rerank", RerankInv, [QuestionNext]_questionVars
    PROVE  RerankInv'
<1>1. ASSUME NEW r \in DOMAIN Search, Scored!Rerank(r) \/ Scored!Service(r) PROVE RerankInv'
  BY <1>1, RequestKeeps
<1>2. CASE Scored!Expire
  <2>1. cache' \subseteq cache /\ call' = call
    BY <1>2 DEF Scored!Expire
  <2> QED
    BY <2>1 DEF RerankInv, CallsSound
<1>3. CASE UNCHANGED rerankVars
  BY <1>3 DEF rerankVars, RerankInv, CallsSound
<1> QED
  BY <1>1, <1>2, <1>3
     DEF questionVars, QuestionNext, Chatting, Citing, Streaming, Hinting, RankingHits,
         Selecting, Reranking, Calibrating, Scored!Rerank, Scored!Service

\* A request that is done has the true scores of its best candidates.
LEMMA ScoredSound ==
    ASSUME RerankParameters, RerankInv
    PROVE  Scored!ScoresSound
<1>1. Scored!TypeOK
  <2>1. \A r \in DOMAIN Search : call[r] \in CallStep
    BY DEF RerankInv, CallsSound
  <2>2. ASSUME NEW e \in cache PROVE e.scores \in Seq(Scored!Scores)
    <3>1. PICK r \in DOMAIN Search : e = Entry(r)
      BY DEF RerankInv
    <3>2. e.scores = TrueScores(r)
      BY <3>1 DEF Entry
    <3> QED
      BY <3>2, TrueScoresAre DEF ScoredSoFar
  <2> QED
    BY <2>1, <2>2 DEF Scored!TypeOK, CallStep, RerankParameters
<1>2. Scored!RankedByScore
  <2> SUFFICES ASSUME NEW r \in DOMAIN Search, call[r].at = "done"
               PROVE  LET out == call[r].out IN
                      /\ Scored!ToSet(out) = Scored!Expected(r)
                      /\ Len(out) = Cardinality(Scored!Expected(r))
                      /\ \A k \in 1 .. Len(out) - 1 :
                            \/ out[k].score > out[k + 1].score
                            \/ /\ out[k].score = out[k + 1].score
                               /\ \/ out[k].candidate.rank < out[k + 1].candidate.rank
                                  \/ /\ out[k].candidate.rank = out[k + 1].candidate.rank
                                     /\ out[k].candidate.id < out[k + 1].candidate.id
    BY DEF Scored!RankedByScore, Scored!Cardinality, Cardinality
  <2> DEFINE out == call[r].out
  <2>1. out = Scored!Ranked(r, TrueScores(r))
    BY DEF RerankInv, CallsSound
  <2>2. /\ out \in Seq(Scored!RerankedEvidence)
        /\ Scored!ToSet(out) = Scored!Expected(r) /\ Len(out) = Cardinality(Scored!Expected(r))
        /\ \A i, j \in 1 .. Len(out) : i < j =>
              \/ out[i].score > out[j].score
              \/ out[i].score = out[j].score /\ out[i].candidate.rank < out[j].candidate.rank
              \/ /\ out[i].score = out[j].score
                 /\ out[i].candidate.rank = out[j].candidate.rank
                 /\ out[i].candidate.id < out[j].candidate.id
    BY <2>1, RankedIs
  <2> HIDE DEF out
  <2>3. \A k \in 1 .. Len(out) - 1 : k \in 1 .. Len(out) /\ k + 1 \in 1 .. Len(out) /\ k < k + 1
    <3>1. Len(out) \in Nat
      BY <2>2
    <3> QED
      BY <3>1
  <2>4. \A k \in 1 .. Len(out) - 1 :
           \/ out[k].score > out[k + 1].score
           \/ out[k].score = out[k + 1].score
              /\ out[k].candidate.rank < out[k + 1].candidate.rank
           \/ /\ out[k].score = out[k + 1].score
              /\ out[k].candidate.rank = out[k + 1].candidate.rank
              /\ out[k].candidate.id < out[k + 1].candidate.id
    BY <2>2, <2>3
  <2> QED
    BY <2>2, <2>4 DEF out
<1> QED
  BY <1>1, <1>2 DEF Scored!ScoresSound

-------------------------------------------------------------------------------
(* Lists that are filled under caps *)

Elements(s) == {s[i] : i \in 1 .. Len(s)}
Distinct(s) == \A i, j \in 1 .. Len(s) : s[i] = s[j] => i = j

\* What an element adds to a list.
LEMMA Appending ==
    ASSUME NEW C, NEW s \in Seq(C), NEW c \in C
    PROVE  /\ Append(s, c) \in Seq(C) /\ Len(Append(s, c)) = Len(s) + 1
           /\ Elements(Append(s, c)) = Elements(s) \cup {c}
           /\ Distinct(s) /\ c \notin Elements(s) => Distinct(Append(s, c))
           /\ \A x : /\ Ranks!InSection(s, x) \in Nat
                     /\ Ranks!InSection(Append(s, c), x)
                        = IF Chunk[c].section = x THEN Ranks!InSection(s, x) + 1
                          ELSE Ranks!InSection(s, x)
<1> DEFINE t == Append(s, c)
           n == Len(s)
<1>1. /\ t \in Seq(C) /\ Len(t) = n + 1 /\ n \in Nat /\ t[n + 1] = c
      /\ \A i \in 1 .. n : t[i] = s[i]
  OBVIOUS
<1>2. DOMAIN s = 1 .. n /\ DOMAIN t = 1 .. n + 1
  BY <1>1
<1> HIDE DEF t
<1>3. ASSUME NEW x
      PROVE  /\ Ranks!InSection(s, x) \in Nat
             /\ Ranks!InSection(t, x)
                = IF Chunk[c].section = x THEN Ranks!InSection(s, x) + 1
                  ELSE Ranks!InSection(s, x)
  <2> DEFINE A == {i \in 1 .. n : Chunk[s[i]].section = x}
             B == {i \in 1 .. n + 1 : Chunk[t[i]].section = x}
  <2>1. Ranks!InSection(s, x) = Cardinality(A) /\ Ranks!InSection(t, x) = Cardinality(B)
    <3> HIDE DEF n
    <3> QED
      BY <1>2 DEF Ranks!InSection, Ranks!Cardinality, Cardinality
  <2>2. IsFiniteSet(A) /\ Cardinality(A) \in Nat
    <3>1. IsFiniteSet(1 .. n)
      BY <1>1, FS_Interval
    <3>2. A \subseteq 1 .. n
      OBVIOUS
    <3> HIDE DEF A, n
    <3> QED
      BY <3>1, <3>2, FS_Subset, FS_CardinalityType
  <2>3. ASSUME Chunk[c].section = x PROVE Cardinality(B) = Cardinality(A) + 1
    <3>1. \A i : i \in B <=> i \in A \cup {n + 1}
      BY <1>1, <2>3
    <3>2. B = A \cup {n + 1} /\ n + 1 \notin A
      BY <1>1, <3>1
    <3> HIDE DEF A, B
    <3> QED
      BY <2>2, <3>2, FS_AddElement
  <2>4. ASSUME Chunk[c].section # x PROVE Cardinality(B) = Cardinality(A)
    <3>1. \A i : i \in B <=> i \in A
      BY <1>1, <2>4
    <3>2. B = A
      BY <3>1
    <3> HIDE DEF A, B
    <3> QED
      BY <3>2
  <2> HIDE DEF A, B
  <2> QED
    BY <2>1, <2>2, <2>3, <2>4
<1>8. Elements(t) = Elements(s) \cup {c}
  <2>1. \A z : z \in Elements(t) <=> z \in Elements(s) \/ z = c
    <3>1. \A i \in 1 .. n + 1 : i \in 1 .. n \/ i = n + 1
      BY <1>1
    <3>2. \A i \in 1 .. n : i \in 1 .. n + 1
      BY <1>1
    <3>3. n + 1 \in 1 .. n + 1
      BY <1>1
    <3> QED
      BY <1>1, <3>1, <3>2, <3>3 DEF Elements
  <2> QED
    BY <2>1
<1>9. ASSUME Distinct(s), c \notin Elements(s) PROVE Distinct(t)
  <2> SUFFICES ASSUME NEW i \in 1 .. n + 1, NEW j \in 1 .. n + 1, t[i] = t[j] PROVE i = j
    BY <1>1 DEF Distinct
  <2>1. \A k \in 1 .. n : t[k] = s[k] /\ t[k] # c
    BY <1>1, <1>9 DEF Elements
  <2>2. CASE i \in 1 .. n /\ j \in 1 .. n
    BY <1>9, <2>1, <2>2 DEF Distinct
  <2>3. (i \in 1 .. n \/ i = n + 1) /\ (j \in 1 .. n \/ j = n + 1)
    BY <1>1
  <2> QED
    BY <1>1, <2>1, <2>2, <2>3
<1> QED
  BY <1>1, <1>3, <1>8, <1>9 DEF t

\* What joins so.
Joins(so, c, most) ==
    Len(so) < most /\ Ranks!InSection(so, Chunk[c].section) < limit.section

\* Filling a list, one by one.
Fills(p, C, s, more, most) ==
    /\ p \in [0 .. Len(more) -> Seq(C)]
    /\ p[0] = s /\ p[Len(more)] = Ranks!Filled(s, more, most)
    /\ \A k \in 0 .. Len(more) - 1 :
          p[k + 1] = IF Joins(p[k], more[k + 1], most) THEN Append(p[k], more[k + 1]) ELSE p[k]

LEMMA FilledRuns ==
    ASSUME NEW C, NEW s \in Seq(C), NEW more \in Seq(C), NEW most
    PROVE  \E p : Fills(p, C, s, more, most)
<1> DEFINE n == Len(more)
           T == Seq(C)
           Grown(so, c) == IF Joins(so, c, most) THEN Append(so, c) ELSE so
           g == [i \in 1 .. n |-> [so \in T |-> Grown(so, more[i])]]
           Body(it) == [x \in SUBSET (DOMAIN more) |->
                          IF x = {} THEN s ELSE Grown(it[x \ {Max(x)}], more[Max(x)])]
           it == CHOOSE f : f = Body(f)
<1>1. n \in Nat /\ DOMAIN more = 1 .. n /\ s \in T /\ \A i \in 1 .. n : more[i] \in C
  OBVIOUS
<1>2. \A so \in T, c \in C : Grown(so, c) \in T
  OBVIOUS
<1>3. Ranks!Filled(s, more, most) = it[1 .. n]
  BY <1>1
  DEF Joins, Ranks!Filled, Ranks!FoldLeft, Ranks!MapThenFoldSet, Ranks!Max, Max
<1> HIDE DEF Grown
<1>4. g \in [1 .. n -> [T -> T]]
  BY <1>1, <1>2
<1>5. PICK f \in [SUBSET (1 .. n) -> T] : FoldsBy(f, n, T, s, g)
  <2> HIDE DEF g, n, T
  <2> QED
    BY <1>1, <1>4, FoldExists
<1>6. ASSUME NEW x \in SUBSET (1 .. n), x # {}, NEW so \in T
      PROVE  g[Max(x)][so] = Grown(so, more[Max(x)])
  <2>1. Max(x) \in x
    BY <1>1, <1>6, GreatestNumber, x \subseteq 0 .. n
  <2> QED
    BY <2>1
<1> HIDE DEF g
<1>7. it = Body(it)
  <2>1. ASSUME NEW x \in SUBSET (1 .. n), x # {}
        PROVE  f[x] = Grown(f[x \ {Max(x)}], more[Max(x)])
    <3>1. f[x \ {Max(x)}] \in T
      OBVIOUS
    <3> QED
      BY <1>5, <1>6, <2>1, <3>1 DEF FoldsBy
  <2>2. f = Body(f)
    BY <1>1, <1>5, <2>1 DEF FoldsBy
  <2> HIDE DEF Body
  <2> QED
    BY <2>2, Zenon
<1>8. FoldsBy(it, n, T, s, g)
  <2> HIDE DEF it
  <2> QED
    BY <1>1, <1>6, <1>7 DEF FoldsBy
<1>9. PICK p : RunsBy(p, n, T, s, g) /\ p[n] = it[1 .. n]
  <2>1. n \in Nat /\ s \in T
    BY <1>1
  <2> HIDE DEF it, n, T, Body
  <2> QED
    BY <1>4, <1>8, <2>1, FoldRuns
<1>10. \A k \in 0 .. n - 1 : p[k + 1] = Grown(p[k], more[k + 1])
  <2> SUFFICES ASSUME NEW k \in 0 .. n - 1 PROVE p[k + 1] = Grown(p[k], more[k + 1])
    OBVIOUS
  <2>1. k + 1 \in 1 .. n /\ p[k] \in T /\ p[k + 1] = g[k + 1][p[k]]
    BY <1>1, <1>9 DEF RunsBy
  <2> QED
    BY <2>1 DEF g
<1> HIDE DEF Body, it
<1>11. p \in [0 .. n -> T] /\ p[0] = s
  BY <1>9 DEF RunsBy
<1> QED
  BY <1>3, <1>9, <1>10, <1>11 DEF Grown, Fills

\* A list within the caps.
Capped(s, most) == Len(s) <= most /\ \A x : Ranks!InSection(s, x) <= limit.section

\* A list is filled within its caps, with new elements, each once.
LEMMA FilledKeeps ==
    ASSUME NEW C, NEW s \in Seq(C), NEW more \in Seq(C), NEW most \in Nat, limit.section \in Nat,
           Capped(s, most), Distinct(s), Distinct(more), Elements(s) \cap Elements(more) = {}
    PROVE  LET t == Ranks!Filled(s, more, most) IN
           /\ t \in Seq(C) /\ Capped(t, most) /\ Distinct(t)
           /\ Elements(s) \subseteq Elements(t) /\ Elements(t) \subseteq Elements(s) \cup Elements(more)
<1> DEFINE n == Len(more)
           Taken(k) == {more[i] : i \in 1 .. k}
<1>0. PICK p : Fills(p, C, s, more, most)
  BY FilledRuns
<1>1. /\ p \in [0 .. n -> Seq(C)] /\ p[0] = s /\ p[n] = Ranks!Filled(s, more, most)
      /\ \A k \in 0 .. n - 1 :
            p[k + 1] = IF Joins(p[k], more[k + 1], most) THEN Append(p[k], more[k + 1]) ELSE p[k]
  BY <1>0 DEF Fills
<1> DEFINE P == {k \in 0 .. n :
                   /\ Capped(p[k], most) /\ Distinct(p[k])
                   /\ Elements(s) \subseteq Elements(p[k])
                   /\ Elements(p[k]) \subseteq Elements(s) \cup Taken(k)}
<1>2. n \in Nat /\ \A i \in 1 .. n : more[i] \in C
  OBVIOUS
<1>3. 0 \in P
  <2>1. 0 \in 0 .. n
    BY <1>2
  <2> QED
    BY <1>1, <2>1
<1>4. ASSUME NEW k \in 0 .. n - 1, k \in P PROVE k + 1 \in P
  <2> DEFINE c == more[k + 1]
             so == p[k]
  <2>1. /\ k + 1 \in 0 .. n /\ k + 1 \in 1 .. n /\ k \in 0 .. n /\ so \in Seq(C) /\ c \in C
        /\ Len(so) \in Nat
    <3>1. k + 1 \in 0 .. n /\ k + 1 \in 1 .. n /\ k \in 0 .. n
      BY <1>2
    <3>2. so \in Seq(C) /\ c \in C
      <4>1. p \in [0 .. n -> Seq(C)]
        BY <1>1
      <4> HIDE DEF n
      <4> QED
        BY <1>2, <3>1, <4>1
    <3>3. Len(so) \in Nat
      BY <3>2
    <3> QED
      BY <3>1, <3>2, <3>3
  <2>2. /\ Capped(so, most) /\ Distinct(so)
        /\ Elements(s) \subseteq Elements(so) /\ Elements(so) \subseteq Elements(s) \cup Taken(k)
    BY <1>4
  <2>3. Taken(k + 1) = Taken(k) \cup {c}
    <3>1. \A i : i \in 1 .. k + 1 <=> i \in 1 .. k \/ i = k + 1
      BY <2>1
    <3> QED
      BY <3>1
  <2>4. c \notin Elements(so)
    <3>1. c \in Elements(more) /\ c \notin Elements(s)
      BY <2>1 DEF Elements
    <3>2. \A i \in 1 .. k : more[i] # c
      BY <2>1 DEF Distinct
    <3> QED
      BY <2>2, <3>1, <3>2
  <2>5. CASE ~ Joins(so, c, most)
    <3>1. p[k + 1] = so
      BY <1>1, <2>5
    <3> HIDE DEF Taken
    <3> QED
      BY <2>1, <2>2, <2>3, <3>1
  <2>6. CASE Joins(so, c, most)
    <3> DEFINE t == Append(so, c)
    <3>1. p[k + 1] = t
      BY <1>1, <2>6
    <3>2. /\ Len(t) = Len(so) + 1 /\ Elements(t) = Elements(so) \cup {c} /\ Distinct(t)
      <4>1. so \in Seq(C) /\ c \in C
        BY <2>1
      <4> HIDE DEF so, c
      <4> QED
        BY <2>2, <2>4, <4>1, Appending
    <3>3. \A x : /\ Ranks!InSection(so, x) \in Nat
                 /\ Ranks!InSection(t, x)
                    = IF Chunk[c].section = x THEN Ranks!InSection(so, x) + 1
                      ELSE Ranks!InSection(so, x)
      BY <2>1, Appending
    <3> HIDE DEF t, so, c
    <3>4. Len(t) <= most
      BY <2>1, <2>6, <3>2 DEF Joins
    <3>5. ASSUME NEW x PROVE Ranks!InSection(t, x) <= limit.section
      <4>1. Ranks!InSection(so, x) <= limit.section
        BY <2>2 DEF Capped
      <4>2. Chunk[c].section = x => Ranks!InSection(so, x) < limit.section
        BY <2>6 DEF Joins
      <4> QED
        BY <3>3, <4>1, <4>2
    <3>6. Capped(t, most)
      BY <3>4, <3>5 DEF Capped
    <3> HIDE DEF Taken
    <3> QED
      BY <2>1, <2>2, <2>3, <3>1, <3>2, <3>6
  <2> QED
    BY <2>5, <2>6
<1>5. n \in P
  <2> HIDE DEF P
  <2>1. 0 .. n \subseteq P
    BY <1>2, <1>3, <1>4, Reaches
  <2> QED
    BY <1>2, <2>1
<1>6. Taken(n) = Elements(more)
  BY DEF Elements
<1> HIDE DEF Taken
<1> QED
  BY <1>1, <1>2, <1>5, <1>6

\* The places of a list where fewer than cap chunks of the same section come before.
BestPlaces(list) ==
    {i \in 1 .. Len(list) :
        Cardinality({j \in 1 .. i - 1 : Chunk[list[j]].section = Chunk[list[i]].section})
        < limit.section}

\* Taking the chunks in turn takes the best of every section, and the best of these.
LEMMA BestTaken ==
    ASSUME NEW C, NEW list \in Seq(C), NEW most \in Nat, limit.section \in Nat
    PROVE  Elements(Ranks!Filled(<<>>, list, most))
           = {list[i] : i \in FirstOf(BestPlaces(list), most)}
<1> DEFINE n == Len(list)
           cap == limit.section
           best == BestPlaces(list)
           taken == FirstOf(best, most)
           Of(x) == {i \in 1 .. n : Chunk[list[i]].section = x}
<1>0. <<>> \in Seq(C)
  OBVIOUS
<1>1. PICK p : Fills(p, C, <<>>, list, most)
  BY <1>0, FilledRuns
<1>2. /\ p \in [0 .. n -> Seq(C)] /\ p[0] = <<>> /\ p[n] = Ranks!Filled(<<>>, list, most)
      /\ \A k \in 0 .. n - 1 :
            p[k + 1] = IF Joins(p[k], list[k + 1], most) THEN Append(p[k], list[k + 1]) ELSE p[k]
  BY <1>1 DEF Fills
<1>3. n \in Nat /\ cap \in Nat /\ \A i \in 1 .. n : list[i] \in C
  OBVIOUS
<1>4. best \in SUBSET (1 .. n) /\ taken \in SUBSET (1 .. n) /\ \A x : Of(x) \in SUBSET (1 .. n)
  BY DEF BestPlaces, FirstOf
<1>10. n \in Nat
  OBVIOUS
<1>11. cap \in Nat
  OBVIOUS
<1>12. best \in SUBSET (1 .. n)
  BY <1>4
<1>13. taken \in SUBSET (1 .. n)
  BY <1>4
<1>5. ASSUME NEW x PROVE best \cap Of(x) = FirstOf(Of(x), cap)
  <2>1. ASSUME NEW i \in Of(x)
        PROVE  {j \in 1 .. i - 1 : Chunk[list[j]].section = Chunk[list[i]].section}
               = {j \in Of(x) : j < i}
    <3>1. i \in 1 .. n /\ Chunk[list[i]].section = x
      OBVIOUS
    <3>2. \A j : j \in 1 .. i - 1 <=> j \in 1 .. n /\ j < i
      BY <1>3, <3>1
    <3> QED
      BY <3>1, <3>2
  <2>2. \A i \in Of(x) : i \in best <=> Cardinality({j \in Of(x) : j < i}) < cap
    BY <2>1 DEF BestPlaces
  <2> HIDE DEF best, Of, cap
  <2> QED
    BY <2>2 DEF FirstOf
<1> DEFINE P == {k \in 0 .. n :
                   /\ Len(p[k]) = Cardinality(Upto(taken, k))
                   /\ \A x : Ranks!InSection(p[k], x) = Cardinality(Upto(taken \cap Of(x), k))
                   /\ Elements(p[k]) = {list[i] : i \in Upto(taken, k)}}
<1>6. 0 \in P
  <2>1. \A A \in SUBSET (1 .. n) : Upto(A, 0) = {}
    <3> SUFFICES ASSUME NEW A \in SUBSET (1 .. n) PROVE Upto(A, 0) = {}
      OBVIOUS
    <3>1. \A j \in A : ~ (j <= 0)
      OBVIOUS
    <3> QED
      BY <3>1 DEF Upto
  <2>2. Upto(taken, 0) = {} /\ \A x : Upto(taken \cap Of(x), 0) = {}
    <3>1. \A x : taken \cap Of(x) \in SUBSET (1 .. n)
      BY <1>4
    <3> HIDE DEF taken, Of, n
    <3> QED
      BY <1>4, <2>1, <3>1
  <2>3. Cardinality({}) = 0
    BY FS_EmptySet
  <2>4. \A x : Ranks!InSection(<<>>, x) = 0
    <3> SUFFICES ASSUME NEW x PROVE Ranks!InSection(<<>>, x) = 0
      OBVIOUS
    <3>1. {i \in DOMAIN <<>> : Chunk[<<>>[i]].section = x} = {}
      OBVIOUS
    <3> QED
      BY <2>3, <3>1 DEF Ranks!InSection, Ranks!Cardinality, Cardinality
  <2>5. Len(p[0]) = 0 /\ Elements(p[0]) = {}
    BY <1>2 DEF Elements
  <2>6. 0 \in 0 .. n
    BY <1>3
  <2>7. \A x : Ranks!InSection(p[0], x) = 0
    BY <1>2, <2>4
  <2> HIDE DEF taken, Of, n
  <2> QED
    BY <2>2, <2>3, <2>5, <2>6, <2>7
<1>7. ASSUME NEW k \in 0 .. n - 1, k \in P PROVE k + 1 \in P
  <2> DEFINE c == list[k + 1]
             so == p[k]
             x == Chunk[c].section
  <2>1. /\ k + 1 \in 0 .. n /\ k + 1 \in 1 .. n /\ k \in 0 .. n
    BY <1>3
  <2>2. so \in Seq(C) /\ c \in C
    <3>1. p \in [0 .. n -> Seq(C)]
      BY <1>2
    <3> HIDE DEF n
    <3> QED
      BY <1>3, <2>1, <3>1
  <2>3. /\ Len(so) = Cardinality(Upto(taken, k))
        /\ \A y : Ranks!InSection(so, y) = Cardinality(Upto(taken \cap Of(y), k))
        /\ Elements(so) = {list[i] : i \in Upto(taken, k)}
    BY <1>7
  <2>4. k + 1 \in Of(x) /\ \A y : k + 1 \in Of(y) <=> y = x
    BY <2>1
  <2>5. k + 1 \in taken <=> k + 1 \in best /\ Cardinality(Upto(best, k)) < most
    <3>1. {j \in best : j < k + 1} = Upto(best, k)
      <4> DEFINE A == best
      <4>1. A \in SUBSET (1 .. n)
        BY <1>12
      <4> HIDE DEF A, n
      <4>2. {j \in A : j < k + 1} = Upto(A, k)
        BY <1>10, <4>1, UptoNext
      <4> QED
        BY <4>2 DEF A
    <3> HIDE DEF best
    <3> QED
      BY <3>1 DEF FirstOf
  <2>6. k + 1 \in best <=> Cardinality(Upto(Of(x), k)) < cap
    <3>1. {j \in Of(x) : j < k + 1} = Upto(Of(x), k)
      <4> DEFINE A == Of(x)
      <4>1. A \in SUBSET (1 .. n)
        BY <1>4
      <4> HIDE DEF A, n
      <4>2. {j \in A : j < k + 1} = Upto(A, k)
        BY <1>10, <4>1, UptoNext
      <4> QED
        BY <4>2 DEF A
    <3>2. k + 1 \in best <=> k + 1 \in FirstOf(Of(x), cap)
      <4> HIDE DEF best, Of, cap
      <4> QED
        BY <1>5, <2>4
    <3> HIDE DEF best, Of, cap
    <3> QED
      BY <2>4, <3>1, <3>2 DEF FirstOf
  <2>7. /\ Cardinality(Upto(taken, k)) < most <=> Cardinality(Upto(best, k)) < most
        /\ Cardinality(Upto(best, k)) < most => Upto(taken, k) = Upto(best, k)
    <3>1. k \in 0 .. n
      BY <2>1
    <3> HIDE DEF best, n
    <3> QED
      BY <1>10, <1>12, <3>1, FirstOnes
  <2>8. Cardinality(Upto(FirstOf(Of(x), cap), k)) < cap <=> Cardinality(Upto(Of(x), k)) < cap
    <3> DEFINE A == Of(x)
    <3>1. A \in SUBSET (1 .. n) /\ k \in 0 .. n
      BY <1>4, <2>1
    <3> HIDE DEF A, n, cap
    <3>2. Cardinality(Upto(FirstOf(A, cap), k)) < cap <=> Cardinality(Upto(A, k)) < cap
      BY <1>10, <1>11, <3>1, FirstOnes
    <3> QED
      BY <3>2 DEF A
  <2>9. Joins(so, c, most) <=> k + 1 \in taken
    <3>1. CASE ~ (Cardinality(Upto(best, k)) < most)
      <4> HIDE DEF best, taken, Of, so, c
      <4> QED
        BY <2>3, <2>5, <2>7, <3>1 DEF Joins
    <3>2. CASE Cardinality(Upto(best, k)) < most
      <4>1. Upto(taken \cap Of(x), k) = Upto(taken, k) \cap Of(x)
            /\ Upto(best \cap Of(x), k) = Upto(best, k) \cap Of(x)
        <5> HIDE DEF best, taken, Of
        <5> QED
          BY DEF Upto
      <4> HIDE DEF best, taken, Of, so, cap
      <4>2. Upto(taken \cap Of(x), k) = Upto(FirstOf(Of(x), cap), k)
        BY <1>5, <2>7, <3>2, <4>1
      <4>3. Ranks!InSection(so, x) = Cardinality(Upto(FirstOf(Of(x), cap), k))
        BY <2>3, <4>2
      <4>4. Ranks!InSection(so, x) < cap <=> k + 1 \in best
        BY <2>6, <2>8, <4>3
      <4>5. Len(so) < most
        BY <2>3, <2>7, <3>2
      <4> QED
        BY <2>5, <3>2, <4>4, <4>5 DEF Joins, cap
    <3> QED
      BY <3>1, <3>2
  <2>10. /\ Cardinality(Upto(taken, k)) \in Nat
         /\ k + 1 \in taken => /\ Upto(taken, k + 1) = Upto(taken, k) \cup {k + 1}
                               /\ Cardinality(Upto(taken, k + 1)) = Cardinality(Upto(taken, k)) + 1
         /\ k + 1 \notin taken => Upto(taken, k + 1) = Upto(taken, k)
    <3> DEFINE A == taken
    <3>1. A \in SUBSET (1 .. n)
      BY <1>13
    <3> HIDE DEF A, n
    <3>2. Cardinality(Upto(A, k)) \in Nat
      BY <1>10, <3>1, UptoNext
    <3>6. \A j \in A : j \in Nat /\ (j <= k + 1 <=> j <= k \/ j = k + 1)
      BY <3>1
    <3>3. k + 1 \in A => Upto(A, k + 1) = Upto(A, k) \cup {k + 1}
      <4>1. \A j : j \in Upto(A, k + 1) <=> j \in Upto(A, k) \/ (j = k + 1 /\ j \in A)
        BY <3>6 DEF Upto
      <4> QED
        BY <4>1
    <3>4. k + 1 \in A => Cardinality(Upto(A, k + 1)) = Cardinality(Upto(A, k)) + 1
      BY <1>10, <3>1, UptoNext
    <3>5. k + 1 \notin A => Upto(A, k + 1) = Upto(A, k)
      BY <3>6 DEF Upto
    <3> QED
      BY <3>2, <3>3, <3>4, <3>5 DEF A
  <2>11. \A y : LET A == taken \cap Of(y) IN
            /\ k + 1 \in A => Cardinality(Upto(A, k + 1)) = Cardinality(Upto(A, k)) + 1
            /\ k + 1 \notin A => Upto(A, k + 1) = Upto(A, k)
    <3> SUFFICES ASSUME NEW y
                 PROVE  LET A == taken \cap Of(y) IN
                        /\ k + 1 \in A => Cardinality(Upto(A, k + 1)) = Cardinality(Upto(A, k)) + 1
                        /\ k + 1 \notin A => Upto(A, k + 1) = Upto(A, k)
      OBVIOUS
    <3> DEFINE A == taken \cap Of(y)
    <3>1. A \in SUBSET (1 .. n)
      BY <1>4
    <3> HIDE DEF A, n
    <3>2. /\ k + 1 \in A => Cardinality(Upto(A, k + 1)) = Cardinality(Upto(A, k)) + 1
          /\ k + 1 \notin A => Upto(A, k + 1) = Upto(A, k)
      BY <1>3, <3>1, UptoNext, SMTT(30)
    <3> QED
      BY <3>2 DEF A
  <2>12. CASE k + 1 \notin taken
    <3>1. p[k + 1] = so
      BY <1>2, <2>9, <2>12
    <3> HIDE DEF taken, so, Of, n
    <3>2. \A y : Upto(taken \cap Of(y), k + 1) = Upto(taken \cap Of(y), k)
      BY <2>11, <2>12
    <3> QED
      BY <2>1, <2>3, <2>10, <2>12, <3>1, <3>2
  <2>13. CASE k + 1 \in taken
    <3> DEFINE t == Append(so, c)
    <3>1. p[k + 1] = t
      BY <1>2, <2>9, <2>13
    <3>2. /\ Len(t) = Len(so) + 1 /\ Elements(t) = Elements(so) \cup {c}
          /\ \A y : /\ Ranks!InSection(so, y) \in Nat
                    /\ Ranks!InSection(t, y)
                       = IF Chunk[c].section = y THEN Ranks!InSection(so, y) + 1
                         ELSE Ranks!InSection(so, y)
      <4> HIDE DEF so, c
      <4> QED
        BY <2>2, Appending
    <3> HIDE DEF taken, so, Of, n, t
    <3>3. Len(t) = Cardinality(Upto(taken, k + 1))
      BY <2>3, <2>10, <2>13, <3>2
    <3>4. ASSUME NEW y PROVE Ranks!InSection(t, y) = Cardinality(Upto(taken \cap Of(y), k + 1))
      <4>1. CASE y = x
        <5>1. k + 1 \in taken \cap Of(y)
          BY <2>4, <2>13, <4>1
        <5> QED
          BY <2>3, <2>11, <3>2, <4>1, <5>1
      <4>2. CASE y # x
        <5>1. k + 1 \notin taken \cap Of(y)
          BY <2>4, <4>2
        <5> QED
          BY <2>3, <2>11, <3>2, <4>2, <5>1
      <4> QED
        BY <4>1, <4>2
    <3>5. Elements(t) = {list[i] : i \in Upto(taken, k + 1)}
      <4>1. \A z : z \in Elements(t) <=> (\E i \in Upto(taken, k) : z = list[i]) \/ z = list[k + 1]
        BY <2>3, <3>2
      <4> QED
        BY <2>10, <2>13, <4>1
    <3> QED
      BY <2>1, <3>1, <3>3, <3>4, <3>5
  <2> QED
    BY <2>12, <2>13
<1>8. n \in P
  <2> HIDE DEF P
  <2>1. 0 .. n \subseteq P
    BY <1>3, <1>6, <1>7, Reaches
  <2> QED
    BY <1>3, <2>1
<1>9. Upto(taken, n) = taken
  <2>1. \A i \in taken : i <= n
    BY <1>3, <1>4
  <2> HIDE DEF taken
  <2> QED
    BY <2>1 DEF Upto
<1> HIDE DEF Of, taken
<1> QED
  BY <1>2, <1>8, <1>9 DEF taken

-------------------------------------------------------------------------------
(* The ranks in a list *)

\* Chunks stand once in a list, at their rank.
LEMMA RankIs ==
    ASSUME NEW C, NEW s \in Seq(C), Distinct(s)
    PROVE  /\ \A i \in 1 .. Len(s) : Ranks!Rank(s, s[i]) = i
           /\ \A c : c \notin Elements(s) => Ranks!Rank(s, c) = 0
<1> DEFINE I(c) == {i \in 1 .. Len(s) : s[i] = c}
<1>1. \A c : Ranks!Rank(s, c) = IF I(c) # {} THEN CHOOSE x \in I(c) : \A y \in I(c) : x <= y
                                ELSE 0
  BY DEF Ranks!Rank, Ranks!SelectInSeq, Ranks!Min
<1>2. \A c : c \notin Elements(s) => I(c) = {}
  BY DEF Elements
<1>3. ASSUME NEW i \in 1 .. Len(s) PROVE I(s[i]) = {i}
  BY DEF Distinct
<1> HIDE DEF I
<1>4. ASSUME NEW i \in 1 .. Len(s) PROVE Ranks!Rank(s, s[i]) = i
  <2>1. I(s[i]) = {i}
    BY <1>3
  <2>2. i <= i
    OBVIOUS
  <2> DEFINE first == CHOOSE x \in {i} : \A y \in {i} : x <= y
  <2>3. first \in {i}
    <3>1. \E x \in {i} : \A y \in {i} : x <= y
      BY <2>2
    <3> QED
      BY <3>1, ZenonT(30)
  <2> QED
    BY <1>1, <2>1, <2>3
<1> QED
  BY <1>1, <1>2, <1>4

\* The score of a rank: a later one scores no more, and less where lists are no longer than
\* they may be.
Share(a) == Ranks!Unit \div (60 + a)

LEMMA Reciprocal ==
    /\ \A a \in Nat : Share(a) \in Nat
    /\ \A a, b \in Nat : a <= b => Share(a) >= Share(b)
    /\ \A a, b \in 1 .. 500 : a < b => Share(a) > Share(b)
<1>1. Ranks!Unit \in Nat /\ Ranks!Unit >= 600 * 600
  BY SMT DEF Ranks!Unit
<1> QED
  BY <1>1, Quotients, ZenonT(60) DEF Share

\* Chunks have ids of their own and places of their own in their section, no list holds a
\* chunk twice or more than its limit allows, and the limits are what the settings allow.
RankingParameters ==
    /\ IsFiniteSet(DOMAIN Chunk)
    /\ \A c \in DOMAIN Chunk :
          /\ Chunk[c].index \in Nat /\ Chunk[c].id \in Nat /\ Chunk[c].terms \in Nat
          /\ Chunk[c].at \in Nat /\ Chunk[c].hints \in Nat
    /\ \A c, d \in DOMAIN Chunk :
          \/ Chunk[c].id = Chunk[d].id
          \/ Chunk[c].section = Chunk[d].section /\ Chunk[c].index = Chunk[d].index
          => c = d
    /\ \A s \in Dense \cup Sparse : s \in Seq(DOMAIN Chunk) /\ Distinct(s) /\ Len(s) <= 500
    /\ \A l \in Limits : l.pool \in Nat \ {0} /\ l.section \in Nat \ {0} /\ l.radius \in Nat

\* The rank of any chunk.
LEMMA RankType ==
    ASSUME NEW C, NEW s \in Seq(C), Distinct(s), NEW c
    PROVE  Ranks!Rank(s, c) = 0 \/ Ranks!Rank(s, c) \in 1 .. Len(s)
<1>1. CASE c \in Elements(s)
  <2>1. PICK i \in 1 .. Len(s) : c = s[i]
    BY <1>1 DEF Elements
  <2> QED
    BY <2>1, RankIs
<1>2. CASE c \notin Elements(s)
  BY <1>2, RankIs
<1> QED
  BY <1>1, <1>2

\* What is no later in a list has no smaller part of the score from it.
LEMMA RrfIs ==
    ASSUME NEW C, NEW s \in Seq(C), Distinct(s), NEW c, NEW d
    PROVE  /\ Ranks!Rrf(s, c) \in Nat
           /\ (Ranks!Rank(s, d) # 0 => Ranks!Earlier(s, c, d)) => Ranks!Rrf(s, c) >= Ranks!Rrf(s, d)
           /\ Len(s) <= 500 /\ Ranks!Rank(s, d) # 0 /\ Ranks!Earlier(s, c, d) =>
                 Ranks!Rrf(s, c) > Ranks!Rrf(s, d)
<1> DEFINE rc == Ranks!Rank(s, c)
           rd == Ranks!Rank(s, d)
           fc == Ranks!Rrf(s, c)
           fd == Ranks!Rrf(s, d)
           n == Len(s)
<1>1. (rc = 0 \/ rc \in 1 .. n) /\ (rd = 0 \/ rd \in 1 .. n) /\ n \in Nat
  BY RankType
<1>2. fc = (IF rc = 0 THEN 0 ELSE Share(rc)) /\ fd = (IF rd = 0 THEN 0 ELSE Share(rd))
  BY DEF Ranks!Rrf, Share
<1>3. Ranks!Earlier(s, c, d) <=> rc # 0 /\ (rd = 0 \/ rc < rd)
  BY DEF Ranks!Earlier
<1> HIDE DEF rc, rd, fc, fd, n
<1>4. rc \in Nat /\ rd \in Nat
  BY <1>1
<1>5. fc \in Nat /\ fd \in Nat
  <2>1. Share(rc) \in Nat /\ Share(rd) \in Nat
    BY <1>4, Reciprocal, ZenonT(30)
  <2> QED
    BY <1>2, <2>1
<1>6. ASSUME rd # 0 => Ranks!Earlier(s, c, d) PROVE fc >= fd
  <2>1. CASE rd = 0
    BY <1>2, <1>5, <2>1
  <2>2. CASE rd # 0
    <3>1. rc # 0 /\ rc < rd
      BY <1>3, <1>6, <2>2
    <3>2. Share(rc) >= Share(rd)
      <4>1. rc <= rd
        BY <1>4, <3>1
      <4>2. rc \in Nat /\ rd \in Nat
        BY <1>4
      <4>3. \A a, b \in Nat : a <= b => Share(a) >= Share(b)
        BY Reciprocal, ZenonT(30)
      <4> QED
        BY <4>1, <4>2, <4>3, ZenonT(30)
    <3> QED
      BY <1>2, <2>2, <3>1, <3>2
  <2> QED
    BY <2>1, <2>2
<1>7. ASSUME n <= 500, rd # 0, Ranks!Earlier(s, c, d) PROVE fc > fd
  <2>1. rc # 0 /\ rc < rd
    BY <1>3, <1>7
  <2>2. rc \in 1 .. 500 /\ rd \in 1 .. 500
    <3>1. rc \in 1 .. n /\ rd \in 1 .. n
      BY <1>1, <1>7, <2>1
    <3> QED
      BY <1>1, <1>7, <3>1
  <2>3. Share(rc) > Share(rd)
    BY <2>1, <2>2, Reciprocal, ZenonT(30)
  <2> QED
    BY <1>2, <1>7, <2>1, <2>3
<1> QED
  BY <1>5, <1>6, <1>7 DEF rc, rd, fc, fd, n

\* What the branches have found.
LEMMA HydratedIs ==
    ASSUME RankingParameters, hits \in [dense : Dense, sparse : Sparse]
    PROVE  /\ hits.dense \in Seq(DOMAIN Chunk) /\ Distinct(hits.dense) /\ Len(hits.dense) <= 500
           /\ hits.sparse \in Seq(DOMAIN Chunk) /\ Distinct(hits.sparse)
           /\ Len(hits.sparse) <= 500
           /\ Ranks!Found = Elements(hits.dense) \cup Elements(hits.sparse)
           /\ Ranks!Hydrated \subseteq Ranks!Found /\ Ranks!Hydrated \cap lost = {}
           /\ Ranks!Hydrated \subseteq DOMAIN Chunk /\ IsFiniteSet(Ranks!Hydrated)
<1>1. hits.dense \in Dense \cup Sparse /\ hits.sparse \in Dense \cup Sparse
  OBVIOUS
<1>2. /\ hits.dense \in Seq(DOMAIN Chunk) /\ Distinct(hits.dense) /\ Len(hits.dense) <= 500
      /\ hits.sparse \in Seq(DOMAIN Chunk) /\ Distinct(hits.sparse) /\ Len(hits.sparse) <= 500
  BY <1>1 DEF RankingParameters
<1>3. Ranks!Found = Elements(hits.dense) \cup Elements(hits.sparse)
  BY <1>2 DEF Ranks!Found, Ranks!ToSet, Elements
<1>4. Elements(hits.dense) \subseteq DOMAIN Chunk /\ Elements(hits.sparse) \subseteq DOMAIN Chunk
  BY <1>2 DEF Elements
<1>5. Ranks!Hydrated \subseteq DOMAIN Chunk
  BY <1>3, <1>4 DEF Ranks!Hydrated
<1>6. IsFiniteSet(Ranks!Hydrated)
  BY <1>5, FS_Subset DEF RankingParameters
<1> QED
  BY <1>2, <1>3, <1>5, <1>6 DEF Ranks!Hydrated

-------------------------------------------------------------------------------
(* The orders *)

\* o holds the chunks of S, each once.
Holds(o, S) == o \in Seq(S) /\ Distinct(o) /\ Elements(o) = S

\* What R puts first has an earlier rank, and what is not listed none.
LEMMA Enumerated ==
    ASSUME NEW S, IsFiniteSet(S), NEW R, StrictOrder(R, S), NEW o, ListedBy(o, S, R)
    PROVE  /\ Holds(o, S)
           /\ \A c \in S, d \in S : <<c, d>> \in R => Ranks!Earlier(o, c, d)
           /\ \A c \in S : \A d : d \notin S => Ranks!Earlier(o, c, d)
           /\ \A c : Ranks!Rank(o, c) # 0 <=> c \in S
<1>1. /\ o \in Seq(S) /\ \A x \in S : \E k \in 1 .. Len(o) : o[k] = x
      /\ \A i, j \in 1 .. Len(o) : i < j <=> <<o[i], o[j]>> \in R
  BY DEF ListedBy
<1>2. Distinct(o)
  BY ListedOnce DEF Distinct
<1>3. Elements(o) = S
  BY <1>1 DEF Elements
<1>4. \A i \in 1 .. Len(o) : Ranks!Rank(o, o[i]) = i
  BY <1>1, <1>2, RankIs
<1>5. \A c : c \notin S => Ranks!Rank(o, c) = 0
  BY <1>1, <1>2, <1>3, RankIs
<1>6. Len(o) \in Nat
  BY <1>1
<1>7. \A c \in S : Ranks!Rank(o, c) \in 1 .. Len(o) /\ o[Ranks!Rank(o, c)] = c
  BY <1>1, <1>4
<1>8. \A c \in S : Ranks!Rank(o, c) # 0
  BY <1>6, <1>7
<1>9. ASSUME NEW c \in S, NEW d \in S, <<c, d>> \in R PROVE Ranks!Earlier(o, c, d)
  <2>1. Ranks!Rank(o, c) < Ranks!Rank(o, d)
    BY <1>1, <1>7, <1>9
  <2> QED
    BY <1>8, <2>1 DEF Ranks!Earlier
<1>10. ASSUME NEW c \in S, NEW d, d \notin S PROVE Ranks!Earlier(o, c, d)
  BY <1>5, <1>8, <1>10 DEF Ranks!Earlier
<1>11. \A c : Ranks!Rank(o, c) # 0 <=> c \in S
  BY <1>5, <1>8
<1> QED
  BY <1>1, <1>2, <1>3, <1>9, <1>10, <1>11 DEF Holds

\* Chunks in the order of a score: a better one has an earlier rank.
LEMMA ByScoreIs ==
    ASSUME RankingParameters, NEW S \in SUBSET DOMAIN Chunk, NEW score \in [S -> Nat]
    PROVE  /\ Holds(Ranks!ByScore(score), S)
           /\ \A c, d \in S : score[c] > score[d] => Ranks!Earlier(Ranks!ByScore(score), c, d)
           /\ \A c : Ranks!Rank(Ranks!ByScore(score), c) # 0 <=> c \in S
<1> DEFINE Ahead(c, d) ==
               score[c] > score[d] \/ (score[c] = score[d] /\ Chunk[c].id < Chunk[d].id)
           R == {pair \in S \X S : Ahead(pair[1], pair[2])}
           N == Cardinality(S)
           Chosen(k) == CHOOSE x \in S : Cardinality({y \in S : Ahead(y, x)}) = k - 1
           o == Ranks!ByScore(score)
<1>1. \A c \in S : score[c] \in Nat /\ Chunk[c].id \in Nat
  BY DEF RankingParameters
<1>2. \A c, d \in S : Chunk[c].id = Chunk[d].id => c = d
  BY DEF RankingParameters
<1>3. \A c, d \in S : <<c, d>> \in R <=> Ahead(c, d)
  OBVIOUS
<1>4. DOMAIN score = S
  OBVIOUS
<1>5. o = [k \in 1 .. N |-> Chosen(k)]
  BY <1>4 DEF Ranks!ByScore, Ranks!Ordered, Ranks!Cardinality, Cardinality
<1>6. IsFiniteSet(S)
  BY FS_Subset DEF RankingParameters
<1> HIDE DEF o, R
<1>7. StrictOrder(R, S)
  <2>1. \A x \in S : <<x, x>> \notin R
    BY <1>1, <1>3
  <2>2. \A x, y, z \in S : <<x, y>> \in R /\ <<y, z>> \in R => <<x, z>> \in R
    BY <1>1, <1>3
  <2>3. \A x, y \in S : x # y => <<x, y>> \in R \/ <<y, x>> \in R
    BY <1>1, <1>2, <1>3
  <2> QED
    BY <2>1, <2>2, <2>3 DEF StrictOrder
<1>8. \A c, d \in S : score[c] > score[d] => <<c, d>> \in R
  BY <1>3
<1> HIDE DEF Ahead
<1>9. ASSUME NEW k \in 1 .. N, \E x \in S : Cardinality(Preceding(R, S, x)) = k - 1
      PROVE  o[k] \in S /\ Cardinality(Preceding(R, S, o[k])) = k - 1
  <2>1. \A x \in S : Preceding(R, S, x) = {y \in S : Ahead(y, x)}
    BY <1>3 DEF Preceding
  <2>2. o[k] = Chosen(k)
    BY <1>5
  <2>3. \E x \in S : Cardinality({y \in S : Ahead(y, x)}) = k - 1
    BY <1>9, <2>1
  <2>4. Chosen(k) \in S /\ Cardinality({y \in S : Ahead(y, Chosen(k))}) = k - 1
    BY <2>3
  <2> HIDE DEF Chosen
  <2> QED
    BY <2>1, <2>2, <2>4
<1>10. o = [k \in 1 .. N |-> o[k]]
  <2> HIDE DEF Chosen
  <2> QED
    BY <1>5
<1>11. ListedBy(o, S, R)
  BY <1>6, <1>7, <1>9, <1>10, ListedInOrder
<1>12. /\ Holds(o, S)
       /\ \A c \in S, d \in S : <<c, d>> \in R => Ranks!Earlier(o, c, d)
       /\ \A c : Ranks!Rank(o, c) # 0 <=> c \in S
  BY <1>6, <1>7, <1>11, Enumerated
<1> QED
  BY <1>8, <1>12 DEF o

\* The positions that a list gives chunks tell them apart.
LEMMA RanksApart ==
    ASSUME NEW C, NEW base \in Seq(C), Distinct(base), NEW S \in SUBSET Elements(base)
    PROVE  /\ \A c \in S : Ranks!Rank(base, c) \in Nat
           /\ \A c, d \in S : Ranks!Rank(base, c) = Ranks!Rank(base, d) => c = d
<1> SUFFICES ASSUME NEW c \in S, NEW d \in S
             PROVE  /\ Ranks!Rank(base, c) \in Nat
                    /\ Ranks!Rank(base, c) = Ranks!Rank(base, d) => c = d
  OBVIOUS
<1>1. PICK i \in 1 .. Len(base) : base[i] = c
  BY DEF Elements
<1>2. PICK j \in 1 .. Len(base) : base[j] = d
  BY DEF Elements
<1>3. Ranks!Rank(base, c) = i /\ Ranks!Rank(base, d) = j
  BY <1>1, <1>2, RankIs
<1> QED
  BY <1>1, <1>2, <1>3

\* The order for exact terms: by their number, the place of the first, and the first rank.
LEMMA ExactIs ==
    ASSUME RankingParameters, Ranks!Hydrated \subseteq DOMAIN Chunk,
           NEW base \in Seq(DOMAIN Chunk), Distinct(base), Elements(base) = Ranks!Hydrated
    PROVE  LET S == {c \in Ranks!Hydrated : Chunk[c].terms > 0}
               o == Ranks!ExactOrder(base)
           IN  /\ Holds(o, S)
               /\ \A c \in S : \A d : d \notin S => Ranks!Earlier(o, c, d)
               /\ \A c, d \in S :
                     \/ Chunk[c].terms > Chunk[d].terms
                     \/ Chunk[c].terms = Chunk[d].terms /\ Chunk[c].at < Chunk[d].at
                     \/ /\ Chunk[c].terms = Chunk[d].terms /\ Chunk[c].at = Chunk[d].at
                        /\ Ranks!Rank(base, c) < Ranks!Rank(base, d)
                     => Ranks!Earlier(o, c, d)
               /\ \A c : Ranks!Rank(o, c) # 0 <=> c \in S
<1> DEFINE S == {c \in Ranks!Hydrated : Chunk[c].terms > 0}
           Ahead(c, d) ==
               \/ Chunk[c].terms > Chunk[d].terms
               \/ Chunk[c].terms = Chunk[d].terms /\ Chunk[c].at < Chunk[d].at
               \/ /\ Chunk[c].terms = Chunk[d].terms /\ Chunk[c].at = Chunk[d].at
                  /\ Ranks!Rank(base, c) < Ranks!Rank(base, d)
           R == {pair \in S \X S : Ahead(pair[1], pair[2])}
           N == Cardinality(S)
           Chosen(k) == CHOOSE x \in S : Cardinality({y \in S : Ahead(y, x)}) = k - 1
           o == Ranks!ExactOrder(base)
<1>1. \A c \in S : Chunk[c].terms \in Nat /\ Chunk[c].at \in Nat
  BY DEF RankingParameters
<1>2. /\ \A c \in S : Ranks!Rank(base, c) \in Nat
      /\ \A c, d \in S : Ranks!Rank(base, c) = Ranks!Rank(base, d) => c = d
  <2>1. S \in SUBSET Elements(base)
    OBVIOUS
  <2> HIDE DEF S
  <2> QED
    BY <2>1, RanksApart
<1>3. \A c, d \in S : <<c, d>> \in R <=> Ahead(c, d)
  OBVIOUS
<1>4. o = [k \in 1 .. N |-> Chosen(k)]
  BY DEF Ranks!ExactOrder, Ranks!Ordered, Ranks!Cardinality, Cardinality
<1>5. IsFiniteSet(S)
  <2>1. S \subseteq DOMAIN Chunk
    OBVIOUS
  <2> HIDE DEF S
  <2> QED
    BY <2>1, FS_Subset DEF RankingParameters
<1> HIDE DEF o, R, S
<1>7. StrictOrder(R, S)
  <2>1. \A x \in S : <<x, x>> \notin R
    BY <1>1, <1>2, <1>3
  <2>2. ASSUME NEW x \in S, NEW y \in S, NEW z \in S, <<x, y>> \in R, <<y, z>> \in R
        PROVE  <<x, z>> \in R
    <3> DEFINE t(c) == Chunk[c].terms
               a(c) == Chunk[c].at
               b(c) == Ranks!Rank(base, c)
    <3>1. \A c \in S : t(c) \in Nat /\ a(c) \in Nat /\ b(c) \in Nat
      BY <1>1, <1>2
    <3>2. \A c, d \in S :
             Ahead(c, d) <=>
                \/ t(c) > t(d)
                \/ t(c) = t(d) /\ a(c) < a(d)
                \/ t(c) = t(d) /\ a(c) = a(d) /\ b(c) < b(d)
      OBVIOUS
    <3> HIDE DEF t, a, b, Ahead
    <3>3. Ahead(x, y) /\ Ahead(y, z)
      BY <1>3, <2>2
    <3>4. Ahead(x, z)
      BY <3>1, <3>2, <3>3
    <3> QED
      BY <1>3, <3>4
  <2>3. \A x, y \in S : x # y => <<x, y>> \in R \/ <<y, x>> \in R
    BY <1>1, <1>2, <1>3
  <2> QED
    BY <2>1, <2>2, <2>3 DEF StrictOrder
<1>8. \A c, d \in S : Ahead(c, d) => <<c, d>> \in R
  BY <1>3
<1> HIDE DEF Ahead
<1>9. ASSUME NEW k \in 1 .. N, \E x \in S : Cardinality(Preceding(R, S, x)) = k - 1
      PROVE  o[k] \in S /\ Cardinality(Preceding(R, S, o[k])) = k - 1
  <2>1. \A x \in S : Preceding(R, S, x) = {y \in S : Ahead(y, x)}
    BY <1>3 DEF Preceding
  <2>2. o[k] = Chosen(k)
    BY <1>4
  <2> QED
    BY <1>9, <2>1, <2>2
<1>10. o = [k \in 1 .. N |-> o[k]]
  <2> HIDE DEF Chosen
  <2> QED
    BY <1>4
<1>11. ListedBy(o, S, R)
  BY <1>5, <1>7, <1>9, <1>10, ListedInOrder
<1>12. /\ Holds(o, S)
       /\ \A c \in S : \A d : d \notin S => Ranks!Earlier(o, c, d)
       /\ \A c \in S, d \in S : <<c, d>> \in R => Ranks!Earlier(o, c, d)
       /\ \A c : Ranks!Rank(o, c) # 0 <=> c \in S
  BY <1>5, <1>7, <1>11, Enumerated
<1>13. \A c, d \in S : Ahead(c, d) => Ranks!Earlier(o, c, d)
  BY <1>8, <1>12
<1> QED
  BY <1>12, <1>13 DEF o, S, Ahead

\* The order for hints: by their number and the first rank.
LEMMA HintIs ==
    ASSUME RankingParameters, Ranks!Hydrated \subseteq DOMAIN Chunk,
           NEW base \in Seq(DOMAIN Chunk), Distinct(base), Elements(base) = Ranks!Hydrated
    PROVE  LET S == {c \in Ranks!Hydrated : Chunk[c].hints > 0}
               o == Ranks!HintOrder(base)
           IN  /\ Holds(o, S)
               /\ \A c \in S : \A d : d \notin S => Ranks!Earlier(o, c, d)
               /\ \A c, d \in S :
                     \/ Chunk[c].hints > Chunk[d].hints
                     \/ /\ Chunk[c].hints = Chunk[d].hints
                        /\ Ranks!Rank(base, c) < Ranks!Rank(base, d)
                     => Ranks!Earlier(o, c, d)
               /\ \A c : Ranks!Rank(o, c) # 0 <=> c \in S
<1> DEFINE S == {c \in Ranks!Hydrated : Chunk[c].hints > 0}
           Ahead(c, d) ==
               \/ Chunk[c].hints > Chunk[d].hints
               \/ Chunk[c].hints = Chunk[d].hints /\ Ranks!Rank(base, c) < Ranks!Rank(base, d)
           R == {pair \in S \X S : Ahead(pair[1], pair[2])}
           N == Cardinality(S)
           Chosen(k) == CHOOSE x \in S : Cardinality({y \in S : Ahead(y, x)}) = k - 1
           o == Ranks!HintOrder(base)
<1>1. \A c \in S : Chunk[c].hints \in Nat
  BY DEF RankingParameters
<1>2. /\ \A c \in S : Ranks!Rank(base, c) \in Nat
      /\ \A c, d \in S : Ranks!Rank(base, c) = Ranks!Rank(base, d) => c = d
  <2>1. S \in SUBSET Elements(base)
    OBVIOUS
  <2> HIDE DEF S
  <2> QED
    BY <2>1, RanksApart
<1>3. \A c, d \in S : <<c, d>> \in R <=> Ahead(c, d)
  OBVIOUS
<1>4. o = [k \in 1 .. N |-> Chosen(k)]
  BY DEF Ranks!HintOrder, Ranks!Ordered, Ranks!Cardinality, Cardinality
<1>5. IsFiniteSet(S)
  <2>1. S \subseteq DOMAIN Chunk
    OBVIOUS
  <2> HIDE DEF S
  <2> QED
    BY <2>1, FS_Subset DEF RankingParameters
<1> HIDE DEF o, R, S
<1>7. StrictOrder(R, S)
  <2>1. \A x \in S : <<x, x>> \notin R
    BY <1>1, <1>2, <1>3
  <2>2. \A x, y, z \in S : <<x, y>> \in R /\ <<y, z>> \in R => <<x, z>> \in R
    BY <1>1, <1>2, <1>3
  <2>3. \A x, y \in S : x # y => <<x, y>> \in R \/ <<y, x>> \in R
    BY <1>1, <1>2, <1>3
  <2> QED
    BY <2>1, <2>2, <2>3 DEF StrictOrder
<1>8. \A c, d \in S : Ahead(c, d) => <<c, d>> \in R
  BY <1>3
<1> HIDE DEF Ahead
<1>9. ASSUME NEW k \in 1 .. N, \E x \in S : Cardinality(Preceding(R, S, x)) = k - 1
      PROVE  o[k] \in S /\ Cardinality(Preceding(R, S, o[k])) = k - 1
  <2>1. \A x \in S : Preceding(R, S, x) = {y \in S : Ahead(y, x)}
    BY <1>3 DEF Preceding
  <2>2. o[k] = Chosen(k)
    BY <1>4
  <2> QED
    BY <1>9, <2>1, <2>2
<1>10. o = [k \in 1 .. N |-> o[k]]
  <2> HIDE DEF Chosen
  <2> QED
    BY <1>4
<1>11. ListedBy(o, S, R)
  BY <1>5, <1>7, <1>9, <1>10, ListedInOrder
<1>12. /\ Holds(o, S)
       /\ \A c \in S : \A d : d \notin S => Ranks!Earlier(o, c, d)
       /\ \A c \in S, d \in S : <<c, d>> \in R => Ranks!Earlier(o, c, d)
       /\ \A c : Ranks!Rank(o, c) # 0 <=> c \in S
  BY <1>5, <1>7, <1>11, Enumerated
<1>13. \A c, d \in S : Ahead(c, d) => Ranks!Earlier(o, c, d)
  BY <1>8, <1>12
<1> QED
  BY <1>12, <1>13 DEF o, S, Ahead

\* A chunk that is better in every respect has more of the score of the branches.
LEMMA BaseIs ==
    ASSUME RankingParameters, hits \in [dense : Dense, sparse : Sparse],
           NEW c \in Ranks!Hydrated, NEW d \in Ranks!Hydrated
    PROVE  /\ Ranks!Base(c) \in Nat
           /\ (\A s \in {hits.dense, hits.sparse} :
                  Ranks!Rank(s, d) # 0 => Ranks!Earlier(s, c, d))
              => Ranks!Base(c) > Ranks!Base(d)
<1> DEFINE de == hits.dense
           sp == hits.sparse
           C == DOMAIN Chunk
<1>1. /\ de \in Seq(C) /\ Distinct(de) /\ Len(de) <= 500
      /\ sp \in Seq(C) /\ Distinct(sp) /\ Len(sp) <= 500
      /\ d \in Elements(de) \cup Elements(sp)
  BY HydratedIs
<1>2. Ranks!Base(c) = Ranks!Rrf(de, c) + Ranks!Rrf(sp, c)
      /\ Ranks!Base(d) = Ranks!Rrf(de, d) + Ranks!Rrf(sp, d)
  BY DEF Ranks!Base
<1> HIDE DEF de, sp, C
<1>3. /\ Ranks!Rrf(de, c) \in Nat /\ Ranks!Rrf(de, d) \in Nat
      /\ Ranks!Rrf(sp, c) \in Nat /\ Ranks!Rrf(sp, d) \in Nat
  BY <1>1, RrfIs
<1>4. ASSUME Ranks!Rank(de, d) # 0 => Ranks!Earlier(de, c, d),
             Ranks!Rank(sp, d) # 0 => Ranks!Earlier(sp, c, d)
      PROVE  Ranks!Base(c) > Ranks!Base(d)
  <2>1. Ranks!Rrf(de, c) >= Ranks!Rrf(de, d)
    BY <1>1, <1>4, RrfIs
  <2>2. Ranks!Rrf(sp, c) >= Ranks!Rrf(sp, d)
    BY <1>1, <1>4, RrfIs
  <2>3. Ranks!Rank(de, d) # 0 \/ Ranks!Rank(sp, d) # 0
    <3>1. \A s \in {de, sp} : d \in Elements(s) => Ranks!Rank(s, d) # 0
      <4> SUFFICES ASSUME NEW s \in {de, sp}, d \in Elements(s) PROVE Ranks!Rank(s, d) # 0
        OBVIOUS
      <4>1. s \in Seq(C) /\ Distinct(s)
        BY <1>1
      <4>2. PICK i \in 1 .. Len(s) : s[i] = d
        BY DEF Elements
      <4>3. Ranks!Rank(s, d) = i
        BY <4>1, <4>2, RankIs
      <4> QED
        BY <4>3
    <3> QED
      BY <1>1, <3>1
  <2>4. Ranks!Rank(de, d) # 0 => Ranks!Rrf(de, c) > Ranks!Rrf(de, d)
    BY <1>1, <1>4, RrfIs
  <2>5. Ranks!Rank(sp, d) # 0 => Ranks!Rrf(sp, c) > Ranks!Rrf(sp, d)
    BY <1>1, <1>4, RrfIs
  <2> QED
    BY <1>2, <1>3, <2>1, <2>2, <2>3, <2>4, <2>5
<1> QED
  BY <1>2, <1>3, <1>4 DEF de, sp

\* Everything that is loaded is ranked, and what is better in every respect is ranked first.
LEMMA RankedSound ==
    ASSUME RankingParameters, hits \in [dense : Dense, sparse : Sparse]
    PROVE  /\ Holds(Ranks!Ranked, Ranks!Hydrated)
           /\ \A i, j \in 1 .. Len(Ranks!Ranked) :
                 Ranks!Dominates(Ranks!Ranked[i], Ranks!Ranked[j]) => i < j
<1> DEFINE S == Ranks!Hydrated
           base == Ranks!BaseOrder
           E == {c \in S : Chunk[c].terms > 0}
           H == {c \in S : Chunk[c].hints > 0}
           exact == Ranks!ExactOrder(base)
           hint == Ranks!HintOrder(base)
           o == Ranks!Ranked
           b == [c \in S |-> Ranks!Base(c)]
           f == [c \in S |-> Ranks!Base(c) + Ranks!Rrf(exact, c) + Ranks!Rrf(hint, c)]
<1>1. S \in SUBSET DOMAIN Chunk
  BY HydratedIs
<1>2. \A c \in S : Ranks!Base(c) \in Nat
  BY BaseIs
<1>3. /\ Holds(base, S)
      /\ \A c, d \in S : Ranks!Base(c) > Ranks!Base(d) => Ranks!Earlier(base, c, d)
      /\ \A c : Ranks!Rank(base, c) # 0 <=> c \in S
  <2>1. b \in [S -> Nat] /\ base = Ranks!ByScore(b) /\ \A c \in S : b[c] = Ranks!Base(c)
    BY <1>2 DEF Ranks!BaseOrder
  <2> HIDE DEF b, S, base
  <2> QED
    BY <1>1, <2>1, ByScoreIs
<1>4. base \in Seq(DOMAIN Chunk) /\ Distinct(base) /\ Elements(base) = S
  BY <1>1, <1>3 DEF Holds
<1>5. o = Ranks!ByScore(f)
  BY DEF Ranks!Ranked
<1> HIDE DEF base, o
<1>6. /\ Holds(exact, E)
      /\ \A c \in E : \A d : d \notin E => Ranks!Earlier(exact, c, d)
      /\ \A c, d \in E :
            \/ Chunk[c].terms > Chunk[d].terms
            \/ Chunk[c].terms = Chunk[d].terms /\ Chunk[c].at < Chunk[d].at
            \/ /\ Chunk[c].terms = Chunk[d].terms /\ Chunk[c].at = Chunk[d].at
               /\ Ranks!Rank(base, c) < Ranks!Rank(base, d)
            => Ranks!Earlier(exact, c, d)
      /\ \A c : Ranks!Rank(exact, c) # 0 <=> c \in E
  BY <1>1, <1>4, ExactIs
<1>7. /\ Holds(hint, H)
      /\ \A c \in H : \A d : d \notin H => Ranks!Earlier(hint, c, d)
      /\ \A c, d \in H :
            \/ Chunk[c].hints > Chunk[d].hints
            \/ /\ Chunk[c].hints = Chunk[d].hints
               /\ Ranks!Rank(base, c) < Ranks!Rank(base, d)
            => Ranks!Earlier(hint, c, d)
      /\ \A c : Ranks!Rank(hint, c) # 0 <=> c \in H
  BY <1>1, <1>4, HintIs
<1> HIDE DEF exact, hint
<1>8. exact \in Seq(E) /\ Distinct(exact) /\ hint \in Seq(H) /\ Distinct(hint)
  BY <1>6, <1>7 DEF Holds
<1>9. \A c \in S : Ranks!Rrf(exact, c) \in Nat /\ Ranks!Rrf(hint, c) \in Nat
  <2> HIDE DEF S, E, H
  <2> QED
    BY <1>8, RrfIs
<1>10. f \in [S -> Nat]
       /\ \A c \in S : f[c] = Ranks!Base(c) + Ranks!Rrf(exact, c) + Ranks!Rrf(hint, c)
  <2> HIDE DEF S
  <2> QED
    BY <1>2, <1>9
<1>11. /\ Holds(o, S)
       /\ \A c, d \in S : f[c] > f[d] => Ranks!Earlier(o, c, d)
       /\ \A c : Ranks!Rank(o, c) # 0 <=> c \in S
  <2> HIDE DEF f, S
  <2> QED
    BY <1>1, <1>5, <1>10, ByScoreIs
<1>12. ASSUME NEW c \in S, NEW d \in S, Ranks!Dominates(c, d) PROVE f[c] > f[d]
  <2>1. /\ \A s \in {hits.dense, hits.sparse} : Ranks!Rank(s, d) # 0 => Ranks!Earlier(s, c, d)
        /\ Chunk[c].terms >= Chunk[d].terms
        /\ Chunk[c].terms = Chunk[d].terms => Chunk[c].at <= Chunk[d].at
        /\ Chunk[c].hints >= Chunk[d].hints
    BY <1>12 DEF Ranks!Dominates
  <2>2. Ranks!Base(c) > Ranks!Base(d)
    BY <2>1, BaseIs
  <2>3. Ranks!Rank(base, c) < Ranks!Rank(base, d)
    <3>1. Ranks!Earlier(base, c, d) /\ Ranks!Rank(base, d) # 0
      BY <1>3, <2>2
    <3> QED
      BY <3>1 DEF Ranks!Earlier
  <2>4. /\ Chunk[c].terms \in Nat /\ Chunk[d].terms \in Nat /\ Chunk[c].at \in Nat
        /\ Chunk[d].at \in Nat /\ Chunk[c].hints \in Nat /\ Chunk[d].hints \in Nat
    BY <1>1 DEF RankingParameters
  <2>5. Ranks!Rank(exact, d) # 0 => Ranks!Earlier(exact, c, d)
    <3> SUFFICES ASSUME d \in E PROVE Ranks!Earlier(exact, c, d)
      BY <1>6
    <3>1. c \in E
      BY <2>1, <2>4
    <3> QED
      BY <1>6, <2>1, <2>3, <2>4, <3>1
  <2>6. Ranks!Rank(hint, d) # 0 => Ranks!Earlier(hint, c, d)
    <3> SUFFICES ASSUME d \in H PROVE Ranks!Earlier(hint, c, d)
      BY <1>7
    <3>1. c \in H
      BY <2>1, <2>4
    <3> QED
      BY <1>7, <2>1, <2>3, <2>4, <3>1
  <2>7. Ranks!Rrf(exact, c) >= Ranks!Rrf(exact, d)
    <3> HIDE DEF E
    <3> QED
      BY <1>8, <2>5, RrfIs
  <2>8. Ranks!Rrf(hint, c) >= Ranks!Rrf(hint, d)
    <3> HIDE DEF H
    <3> QED
      BY <1>8, <2>6, RrfIs
  <2> HIDE DEF f, S
  <2> QED
    BY <1>2, <1>9, <1>10, <2>2, <2>7, <2>8
<1>13. ASSUME NEW i \in 1 .. Len(o), NEW j \in 1 .. Len(o), Ranks!Dominates(o[i], o[j])
       PROVE  i < j
  <2>1. o \in Seq(S) /\ Distinct(o)
    BY <1>11 DEF Holds
  <2>2. o[i] \in S /\ o[j] \in S
    BY <2>1
  <2>3. Ranks!Earlier(o, o[i], o[j])
    BY <1>11, <1>12, <1>13, <2>2
  <2>4. Ranks!Rank(o, o[i]) = i /\ Ranks!Rank(o, o[j]) = j
    <3> HIDE DEF S
    <3> QED
      BY <2>1, RankIs
  <2> QED
    BY <2>3, <2>4 DEF Ranks!Earlier
<1> QED
  BY <1>11, <1>13 DEF o

-------------------------------------------------------------------------------
(* The neighbours *)

\* Every neighbour has a nearest primary.
LEMMA RootIs ==
    ASSUME RankingParameters, primaries \in Seq(DOMAIN Chunk), NEW c \in Ranks!Neighbors
    PROVE  /\ c \in DOMAIN Chunk /\ Ranks!RootOf(c) \in 1 .. Len(primaries)
           /\ Ranks!Near(c, primaries[Ranks!RootOf(c)])
           /\ Ranks!Distance(c, primaries[Ranks!RootOf(c)]) \in Nat
<1> DEFINE n == Len(primaries)
           A == {i \in 1 .. n : Ranks!Near(c, primaries[i])}
           away(i) == Ranks!Distance(c, primaries[i])
           D == {away(i) : i \in A}
           Nearest(i) ==
               /\ Ranks!Near(c, primaries[i])
               /\ \A j \in DOMAIN primaries : Ranks!Near(c, primaries[j]) =>
                     \/ Ranks!Distance(c, primaries[i]) < Ranks!Distance(c, primaries[j])
                     \/ Ranks!Distance(c, primaries[i]) = Ranks!Distance(c, primaries[j]) /\ i <= j
<1>1. n \in Nat /\ DOMAIN primaries = 1 .. n /\ \A i \in 1 .. n : primaries[i] \in DOMAIN Chunk
  OBVIOUS
<1>2. c \in DOMAIN Chunk
  BY DEF Ranks!Neighbors
<1>3. A # {}
  <2>1. PICK root \in Ranks!ToSet(primaries) : Ranks!Near(c, root)
    BY DEF Ranks!Neighbors
  <2>2. PICK i \in DOMAIN primaries : root = primaries[i]
    BY DEF Ranks!ToSet
  <2> QED
    BY <1>1, <2>1, <2>2
<1>4. \A i \in 1 .. n : away(i) \in Nat
  <2> SUFFICES ASSUME NEW i \in 1 .. n PROVE away(i) \in Nat
    OBVIOUS
  <2>1. primaries[i] \in DOMAIN Chunk
    BY <1>1
  <2>2. Chunk[c].index \in Nat /\ Chunk[primaries[i]].index \in Nat
    BY <1>2, <2>1 DEF RankingParameters
  <2> QED
    BY <2>2 DEF Ranks!Distance
<1> HIDE DEF n, away
<1>5. PICK d \in D : \A e \in D : d <= e
  <2>1. D \in SUBSET Nat /\ D # {}
    BY <1>3, <1>4
  <2> HIDE DEF D
  <2> QED
    BY <2>1, LeastNumber
<1> DEFINE B == {i \in A : away(i) = d}
<1>6. PICK i \in B : \A j \in B : i <= j
  <2>1. B \in SUBSET Nat /\ B # {}
    BY <1>1, <1>5
  <2> HIDE DEF B
  <2> QED
    BY <2>1, LeastNumber
<1>7. Nearest(i) /\ i \in DOMAIN primaries
  <2>1. i \in 1 .. n /\ Ranks!Near(c, primaries[i]) /\ away(i) = d
    BY <1>6
  <2>2. ASSUME NEW j \in 1 .. n, Ranks!Near(c, primaries[j])
        PROVE  away(i) < away(j) \/ (away(i) = away(j) /\ i <= j)
    <3>1. d <= away(j) /\ d \in Nat /\ away(j) \in Nat
      BY <1>4, <1>5, <2>1, <2>2
    <3>2. away(j) = d => i <= j
      BY <1>6, <2>2
    <3> QED
      BY <2>1, <3>1, <3>2
  <2> QED
    BY <1>1, <2>1, <2>2 DEF away
<1>8. Ranks!RootOf(c) = CHOOSE k \in DOMAIN primaries : Nearest(k)
  BY DEF Ranks!RootOf
<1>9. Nearest(Ranks!RootOf(c)) /\ Ranks!RootOf(c) \in DOMAIN primaries
  <2> HIDE DEF Nearest
  <2> QED
    BY <1>7, <1>8
<1> QED
  BY <1>1, <1>2, <1>4, <1>9 DEF away

\* All neighbours are listed: by their root, how far they are from it, and their index.
LEMMA NeighborsListed ==
    ASSUME RankingParameters, primaries \in Seq(DOMAIN Chunk)
    PROVE  Holds(Ranks!NeighborOrder, Ranks!Neighbors)
<1> DEFINE S == Ranks!Neighbors
           root(c) == Ranks!RootOf(c)
           away(c) == Ranks!Distance(c, primaries[Ranks!RootOf(c)])
           index(c) == Chunk[c].index
           Ahead(c, d) ==
               \/ Ranks!RootOf(c) < Ranks!RootOf(d)
               \/ Ranks!RootOf(c) = Ranks!RootOf(d) /\ away(c) < away(d)
               \/ /\ Ranks!RootOf(c) = Ranks!RootOf(d) /\ away(c) = away(d)
                  /\ Chunk[c].index < Chunk[d].index
           R == {pair \in S \X S : Ahead(pair[1], pair[2])}
           N == Cardinality(S)
           Chosen(k) == CHOOSE x \in S : Cardinality({y \in S : Ahead(y, x)}) = k - 1
           o == Ranks!NeighborOrder
<1>1. \A c \in S : root(c) \in Nat /\ away(c) \in Nat /\ index(c) \in Nat
  BY RootIs DEF RankingParameters
<1>2. \A c, d \in S : root(c) = root(d) /\ index(c) = index(d) => c = d
  <2> SUFFICES ASSUME NEW c \in S, NEW d \in S, root(c) = root(d), index(c) = index(d)
               PROVE  c = d
    OBVIOUS
  <2>1. /\ c \in DOMAIN Chunk /\ d \in DOMAIN Chunk
        /\ Ranks!Near(c, primaries[root(c)]) /\ Ranks!Near(d, primaries[root(c)])
    BY RootIs
  <2>2. Chunk[c].section = Chunk[d].section
    BY <2>1 DEF Ranks!Near
  <2> QED
    BY <2>1, <2>2 DEF RankingParameters
<1>3. \A c, d \in S : <<c, d>> \in R <=> Ahead(c, d)
  OBVIOUS
<1>4. o = [k \in 1 .. N |-> Chosen(k)]
  BY DEF Ranks!NeighborOrder, Ranks!Ordered, Ranks!Cardinality, Cardinality
<1>5. IsFiniteSet(S)
  <2>1. S \subseteq DOMAIN Chunk
    BY DEF Ranks!Neighbors
  <2> QED
    BY <2>1, FS_Subset DEF RankingParameters
<1>6. \A c, d \in S :
         Ahead(c, d) <=>
            \/ root(c) < root(d)
            \/ root(c) = root(d) /\ away(c) < away(d)
            \/ root(c) = root(d) /\ away(c) = away(d) /\ index(c) < index(d)
  OBVIOUS
<1> HIDE DEF o, R, S, root, away, index, Ahead
<1>7. StrictOrder(R, S)
  <2>1. \A x \in S : <<x, x>> \notin R
    BY <1>1, <1>3, <1>6
  <2>2. ASSUME NEW x \in S, NEW y \in S, NEW z \in S, <<x, y>> \in R, <<y, z>> \in R
        PROVE  <<x, z>> \in R
    <3>1. Ahead(x, y) /\ Ahead(y, z)
      BY <1>3, <2>2
    <3>2. Ahead(x, z)
      BY <1>1, <1>6, <3>1
    <3> QED
      BY <1>3, <3>2
  <2>3. \A x, y \in S : x # y => <<x, y>> \in R \/ <<y, x>> \in R
    BY <1>1, <1>2, <1>3, <1>6
  <2> QED
    BY <2>1, <2>2, <2>3 DEF StrictOrder
<1>9. ASSUME NEW k \in 1 .. N, \E x \in S : Cardinality(Preceding(R, S, x)) = k - 1
      PROVE  o[k] \in S /\ Cardinality(Preceding(R, S, o[k])) = k - 1
  <2>1. \A x \in S : Preceding(R, S, x) = {y \in S : Ahead(y, x)}
    BY <1>3 DEF Preceding
  <2>2. o[k] = Chosen(k)
    BY <1>4
  <2> QED
    BY <1>9, <2>1, <2>2
<1>10. o = [k \in 1 .. N |-> o[k]]
  <2> HIDE DEF Chosen
  <2> QED
    BY <1>4
<1>11. ListedBy(o, S, R)
  BY <1>5, <1>7, <1>9, <1>10, ListedInOrder
<1>12. Holds(o, S)
  BY <1>5, <1>7, <1>11, Enumerated
<1> QED
  BY <1>12 DEF o, S

-------------------------------------------------------------------------------

OrderSound ==
    /\ Holds(order, Ranks!Hydrated)
    /\ \A i, j \in 1 .. Len(order) : Ranks!Dominates(order[i], order[j]) => i < j

PrimariesSound ==
    /\ primaries \in Seq(DOMAIN Chunk) /\ Distinct(primaries) /\ Capped(primaries, limit.pool)
    /\ Elements(primaries) = {order[i] : i \in FirstOf(BestPlaces(order), Ranks!PrimaryLimit)}
    /\ Elements(primaries) \subseteq Elements(order)

PoolSound ==
    /\ pool \in Seq(DOMAIN Chunk) /\ Distinct(pool) /\ Capped(pool, limit.pool)
    /\ Elements(pool) \cap lost = {}
    /\ \A c \in Elements(pool) \ Elements(primaries) :
          c \notin Ranks!Found /\ \E root \in Elements(primaries) : Ranks!Near(c, root)

\* The lists are what has been made of what was found, as far as the ranking has come.
RankingInv ==
    /\ hits \in [dense : Dense, sparse : Sparse] /\ limit \in Limits
    /\ ranking \in {"found", "ranked", "capped", "pooled"}
    /\ IF ranking = "found" THEN order = <<>> ELSE OrderSound
    /\ ranking \in {"capped", "pooled"} => PrimariesSound
    /\ ranking = "pooled" => PoolSound

LEMMA OrderStays ==
    ASSUME UNCHANGED <<hits, lost, order>>, OrderSound
    PROVE  OrderSound'
<1>1. Ranks!Hydrated' = Ranks!Hydrated
  BY DEF Ranks!Hydrated, Ranks!Found, Ranks!ToSet
<1>2. \A c, d : Ranks!Dominates(c, d)' <=> Ranks!Dominates(c, d)
  BY DEF Ranks!Dominates, Ranks!Earlier, Ranks!Rank, Ranks!SelectInSeq, Ranks!Min
<1> QED
  BY <1>1, <1>2 DEF OrderSound, Holds, Distinct, Elements

LEMMA PrimariesStay ==
    ASSUME UNCHANGED <<limit, order, primaries>>, PrimariesSound
    PROVE  PrimariesSound'
<1>1. Ranks!PrimaryLimit' = Ranks!PrimaryLimit
  BY DEF Ranks!PrimaryLimit
<1>2. BestPlaces(order)' = BestPlaces(order)
  BY DEF BestPlaces
<1>3. \A x : Ranks!InSection(primaries, x)' = Ranks!InSection(primaries, x)
  BY DEF Ranks!InSection, Ranks!Cardinality, Cardinality
<1>4. FirstOf(BestPlaces(order), Ranks!PrimaryLimit)'
      = FirstOf(BestPlaces(order), Ranks!PrimaryLimit)
  BY <1>1, <1>2 DEF FirstOf
<1>5. {order[i] : i \in FirstOf(BestPlaces(order), Ranks!PrimaryLimit)}'
      = {order[i] : i \in FirstOf(BestPlaces(order), Ranks!PrimaryLimit)}
  BY <1>4
<1>6. Elements(primaries)' = Elements(primaries) /\ Elements(order)' = Elements(order)
  BY DEF Elements
<1>7. /\ (primaries \in Seq(DOMAIN Chunk))' /\ Distinct(primaries)'
      /\ Capped(primaries, limit.pool)'
  BY <1>3 DEF PrimariesSound, Capped, Distinct
<1> QED
  BY <1>5, <1>6, <1>7 DEF PrimariesSound

LEMMA PoolStays ==
    ASSUME UNCHANGED <<hits, lost, limit, primaries, pool>>, PoolSound
    PROVE  PoolSound'
<1>1. Ranks!Found' = Ranks!Found
  BY DEF Ranks!Found, Ranks!ToSet
<1>2. \A c, d : Ranks!Near(c, d)' <=> Ranks!Near(c, d)
  BY DEF Ranks!Near, Ranks!Distance
<1>3. \A x : Ranks!InSection(pool, x)' = Ranks!InSection(pool, x)
  BY DEF Ranks!InSection, Ranks!Cardinality, Cardinality
<1> QED
  BY <1>1, <1>2, <1>3 DEF PoolSound, Capped, Distinct, Elements

\* The limits are positive numbers, and what is kept for neighbours leaves one chunk.
LEMMA LimitsAre ==
    ASSUME RankingParameters, limit \in Limits, NEW C, order \in Seq(C)
    PROVE  /\ limit.section \in Nat /\ limit.pool \in Nat /\ limit.radius \in Nat
           /\ Ranks!PrimaryLimit \in Nat /\ Ranks!PrimaryLimit <= limit.pool
<1> DEFINE k == limit.pool
           quarter == k \div 4
           n == Len(order)
           reserve == IF limit.radius = 0 THEN 0 ELSE IF quarter < n THEN quarter ELSE n
<1>1. limit.section \in Nat /\ k \in Nat \ {0} /\ limit.radius \in Nat /\ n \in Nat
  BY DEF RankingParameters
<1>2. Ranks!PrimaryLimit = IF k - reserve > 1 THEN k - reserve ELSE 1
  BY DEF Ranks!PrimaryLimit
<1> HIDE DEF k, n
<1>3. quarter \in Nat
  BY <1>1
<1> HIDE DEF quarter
<1>4. reserve \in Nat
  BY <1>1, <1>3
<1> HIDE DEF reserve
<1> QED
  BY <1>1, <1>2, <1>4 DEF k

\* _rank_hydrated.
LEMMA FuseSound ==
    ASSUME RankingParameters, RankingInv, Ranks!Fuse
    PROVE  OrderSound'
<1>1. /\ Holds(Ranks!Ranked, Ranks!Hydrated)
      /\ \A i, j \in 1 .. Len(Ranks!Ranked) :
            Ranks!Dominates(Ranks!Ranked[i], Ranks!Ranked[j]) => i < j
  BY RankedSound DEF RankingInv
<1>2. order' = Ranks!Ranked /\ hits' = hits /\ lost' = lost
  BY DEF Ranks!Fuse
<1>3. Ranks!Hydrated' = Ranks!Hydrated
  BY <1>2 DEF Ranks!Hydrated, Ranks!Found, Ranks!ToSet
<1>4. \A c, d : Ranks!Dominates(c, d)' <=> Ranks!Dominates(c, d)
  BY <1>2 DEF Ranks!Dominates, Ranks!Earlier, Ranks!Rank, Ranks!SelectInSeq, Ranks!Min
<1> QED
  BY <1>1, <1>2, <1>3, <1>4 DEF OrderSound, Holds, Distinct, Elements

\* What the ranked list may hold.
LEMMA OrderIs ==
    ASSUME RankingParameters, RankingInv, OrderSound
    PROVE  /\ order \in Seq(DOMAIN Chunk) /\ Distinct(order)
           /\ Elements(order) \subseteq Ranks!Found /\ Elements(order) \cap lost = {}
<1>1. /\ Ranks!Hydrated \subseteq Ranks!Found /\ Ranks!Hydrated \cap lost = {}
      /\ Ranks!Hydrated \subseteq DOMAIN Chunk
  BY HydratedIs DEF RankingInv
<1>2. order \in Seq(Ranks!Hydrated) /\ Distinct(order) /\ Elements(order) = Ranks!Hydrated
  BY DEF OrderSound, Holds
<1>3. order \in Seq(DOMAIN Chunk)
  BY <1>1, <1>2
<1> QED
  BY <1>1, <1>2, <1>3

\* _cap_sections.
LEMMA CapsSound ==
    ASSUME RankingParameters, RankingInv, OrderSound, Ranks!CapSections
    PROVE  PrimariesSound'
<1> DEFINE most == Ranks!PrimaryLimit
           t == Ranks!Filled(<<>>, order, most)
           C == DOMAIN Chunk
<1>1. order \in Seq(C) /\ Distinct(order)
  BY OrderIs
<1>2. limit.section \in Nat /\ most \in Nat /\ limit.pool \in Nat /\ most <= limit.pool
  BY <1>1, LimitsAre DEF RankingInv
<1>3. <<>> \in Seq(C) /\ Capped(<<>>, most) /\ Distinct(<<>>) /\ Elements(<<>>) = {}
  <2>1. \A x : Ranks!InSection(<<>>, x) = 0
    <3> SUFFICES ASSUME NEW x PROVE Ranks!InSection(<<>>, x) = 0
      OBVIOUS
    <3>1. {i \in DOMAIN <<>> : Chunk[<<>>[i]].section = x} = {}
      OBVIOUS
    <3> QED
      BY <3>1, FS_EmptySet DEF Ranks!InSection, Ranks!Cardinality, Cardinality
  <2>2. 0 <= most /\ 0 <= limit.section
    BY <1>2
  <2> HIDE DEF most
  <2> QED
    BY <2>1, <2>2 DEF Capped, Distinct, Elements
<1> HIDE DEF most, C
<1>4. /\ t \in Seq(C) /\ Capped(t, most) /\ Distinct(t)
      /\ Elements(t) \subseteq Elements(<<>>) \cup Elements(order)
  <2> DEFINE s == <<>>
  <2>1. /\ s \in Seq(C) /\ Capped(s, most) /\ Distinct(s)
        /\ Elements(s) \cap Elements(order) = {} /\ t = Ranks!Filled(s, order, most)
    BY <1>3
  <2> HIDE DEF s, t
  <2>2. LET r == Ranks!Filled(s, order, most) IN
        /\ r \in Seq(C) /\ Capped(r, most) /\ Distinct(r)
        /\ Elements(r) \subseteq Elements(s) \cup Elements(order)
    BY <1>1, <1>2, <2>1, FilledKeeps
  <2> QED
    BY <2>1, <2>2 DEF s
<1>5. Elements(t) = {order[i] : i \in FirstOf(BestPlaces(order), most)}
  BY <1>1, <1>2, BestTaken
<1>6. primaries' = t /\ order' = order /\ limit' = limit
  BY DEF Ranks!CapSections, most
<1> HIDE DEF t
<1>7. Capped(t, limit.pool)
  BY <1>2, <1>4 DEF Capped
<1>8. Ranks!PrimaryLimit' = most
  BY <1>6 DEF Ranks!PrimaryLimit, most
<1>9. BestPlaces(order)' = BestPlaces(order)
  BY <1>6 DEF BestPlaces
<1>10. FirstOf(BestPlaces(order), Ranks!PrimaryLimit)' = FirstOf(BestPlaces(order), most)
  BY <1>8, <1>9 DEF FirstOf
<1>11. Elements(primaries)'
       = {order[i] : i \in FirstOf(BestPlaces(order), Ranks!PrimaryLimit)}'
  BY <1>5, <1>6, <1>10 DEF Elements
<1>12. (Elements(primaries) \subseteq Elements(order))'
  BY <1>3, <1>4, <1>6 DEF Elements
<1>13. \A x : Ranks!InSection(primaries, x)' = Ranks!InSection(t, x)
  BY <1>6 DEF Ranks!InSection, Ranks!Cardinality, Cardinality
<1>14. Capped(primaries, limit.pool)' /\ Distinct(primaries)'
  BY <1>4, <1>6, <1>7, <1>13 DEF Capped, Distinct
<1>15. (primaries \in Seq(DOMAIN Chunk))'
  BY <1>4, <1>6 DEF C
<1> QED
  BY <1>11, <1>12, <1>14, <1>15 DEF PrimariesSound

\* _load_neighbors.
LEMMA NeighborsSound ==
    ASSUME RankingParameters, RankingInv, OrderSound, PrimariesSound, Ranks!AddNeighbors
    PROVE  PoolSound'
<1> DEFINE C == DOMAIN Chunk
           more == Ranks!NeighborOrder
           near == Ranks!Neighbors
           t == Ranks!Pool
           most == limit.pool
<1>1. /\ Elements(order) \subseteq Ranks!Found /\ Elements(order) \cap lost = {}
      /\ order \in Seq(C)
  BY OrderIs
<1>2. limit.section \in Nat /\ limit.pool \in Nat
  BY <1>1, LimitsAre DEF RankingInv
<1>3. /\ primaries \in Seq(C) /\ Distinct(primaries) /\ Capped(primaries, most)
      /\ Elements(primaries) \subseteq Elements(order)
  BY DEF PrimariesSound
<1>4. near \subseteq C /\ near \cap (Ranks!Found \cup lost) = {}
      /\ \A c \in near : \E root \in Elements(primaries) : Ranks!Near(c, root)
  <2>1. Ranks!ToSet(primaries) = Elements(primaries)
    BY <1>3 DEF Ranks!ToSet, Elements
  <2> QED
    BY <2>1 DEF Ranks!Neighbors
<1>5. more \in Seq(near) /\ Distinct(more) /\ Elements(more) = near
  BY <1>3, NeighborsListed DEF Holds
<1>6. more \in Seq(C)
  <2> HIDE DEF more, near, C
  <2> QED
    BY <1>4, <1>5
<1>7. t = primaries \/ t = Ranks!Filled(primaries, more, most)
  BY DEF Ranks!Pool
<1> HIDE DEF C, more, near, t, most
<1>8. /\ t \in Seq(C) /\ Capped(t, most) /\ Distinct(t)
      /\ Elements(t) \subseteq Elements(primaries) \cup near
  <2>1. CASE t = primaries
    BY <1>3, <2>1
  <2>2. CASE t = Ranks!Filled(primaries, more, most)
    <3>1. most \in Nat /\ Elements(primaries) \cap Elements(more) = {}
      BY <1>1, <1>2, <1>3, <1>4, <1>5 DEF most
    <3>2. LET r == Ranks!Filled(primaries, more, most) IN
          /\ r \in Seq(C) /\ Capped(r, most) /\ Distinct(r)
          /\ Elements(r) \subseteq Elements(primaries) \cup Elements(more)
      BY <1>2, <1>3, <1>5, <1>6, <3>1, FilledKeeps
    <3> QED
      BY <1>5, <2>2, <3>2
  <2> QED
    BY <1>7, <2>1, <2>2
<1>9. /\ pool' = t /\ hits' = hits /\ lost' = lost /\ limit' = limit /\ primaries' = primaries
  BY DEF Ranks!AddNeighbors, t
<1>10. Elements(t) \cap lost = {}
  BY <1>1, <1>3, <1>4, <1>8
<1>11. \A c \in Elements(t) \ Elements(primaries) :
          c \notin Ranks!Found /\ \E root \in Elements(primaries) : Ranks!Near(c, root)
  BY <1>4, <1>8
<1>12. Ranks!Found' = Ranks!Found
  BY <1>9 DEF Ranks!Found, Ranks!ToSet
<1>13. \A c, d : Ranks!Near(c, d)' <=> Ranks!Near(c, d)
  BY <1>9 DEF Ranks!Near, Ranks!Distance
<1>14. \A x : Ranks!InSection(pool, x)' = Ranks!InSection(t, x)
  BY <1>9 DEF Ranks!InSection, Ranks!Cardinality, Cardinality
<1>15. Elements(pool)' = Elements(t) /\ Elements(primaries)' = Elements(primaries)
  BY <1>9 DEF Elements
<1>16. (pool \in Seq(DOMAIN Chunk))' /\ Distinct(pool)' /\ Capped(pool, limit.pool)'
  BY <1>8, <1>9, <1>14 DEF C, most, Distinct, Capped
<1> QED
  BY <1>9, <1>10, <1>11, <1>12, <1>13, <1>15, <1>16 DEF PoolSound

LEMMA RankingBegin ==
    ASSUME QuestionInit, part = "ranking"
    PROVE  RankingInv
  BY DEF QuestionInit, Ranks!Init, RankingInv

\* Every step of the ranking keeps them so.
LEMMA RankingSteps ==
    ASSUME RankingParameters, part = "ranking", RankingInv, [QuestionNext]_questionVars
    PROVE  RankingInv'
<1>1. CASE UNCHANGED rankingVars
  <2>1. /\ hits' = hits /\ lost' = lost /\ limit' = limit /\ ranking' = ranking
        /\ order' = order /\ primaries' = primaries /\ pool' = pool
    BY <1>1 DEF rankingVars
  <2> QED
    BY <2>1, OrderStays, PrimariesStay, PoolStays DEF RankingInv
<1>2. CASE Ranks!Fuse
  <2>1. /\ ranking = "found" /\ ranking' = "ranked" /\ hits' = hits /\ limit' = limit
    BY <1>2 DEF Ranks!Fuse
  <2>2. OrderSound'
    BY <1>2, FuseSound
  <2> QED
    BY <2>1, <2>2 DEF RankingInv
<1>3. CASE Ranks!CapSections
  <2>1. /\ ranking = "ranked" /\ ranking' = "capped" /\ hits' = hits /\ lost' = lost
        /\ limit' = limit /\ order' = order
    BY <1>3 DEF Ranks!CapSections
  <2>2. OrderSound
    BY <2>1 DEF RankingInv
  <2>3. OrderSound' /\ PrimariesSound'
    BY <1>3, <2>1, <2>2, CapsSound, OrderStays
  <2> QED
    BY <2>1, <2>3 DEF RankingInv
<1>4. CASE Ranks!AddNeighbors
  <2>1. /\ ranking = "capped" /\ ranking' = "pooled" /\ hits' = hits /\ lost' = lost
        /\ limit' = limit /\ order' = order /\ primaries' = primaries
    BY <1>4 DEF Ranks!AddNeighbors
  <2>2. OrderSound /\ PrimariesSound
    BY <2>1 DEF RankingInv
  <2>3. OrderSound' /\ PrimariesSound' /\ PoolSound'
    BY <1>4, <2>1, <2>2, NeighborsSound, OrderStays, PrimariesStay
  <2> QED
    BY <2>1, <2>3 DEF RankingInv
<1> QED
  BY <1>1, <1>2, <1>3, <1>4
  DEF QuestionNext, questionVars, Chatting, Citing, Streaming, Hinting, RankingHits, Selecting,
      Reranking, Calibrating

\* What Ranking promises.
LEMMA RankingHolds ==
    ASSUME RankingParameters, RankingInv
    PROVE  Ranks!PoolIsSound
<1>1. \A i, j \in DOMAIN order : Ranks!Dominates(order[i], order[j]) => i < j
  <2>1. CASE ranking = "found"
    BY <2>1 DEF RankingInv
  <2>2. CASE ranking # "found"
    <3>1. OrderSound
      BY <2>2 DEF RankingInv
    <3>2. DOMAIN order = 1 .. Len(order)
      BY <3>1, OrderIs
    <3> QED
      BY <3>1, <3>2 DEF OrderSound
  <2> QED
    BY <2>1, <2>2
<1>2. ASSUME ranking = "pooled"
      PROVE  /\ LET InBest(i) == Ranks!Cardinality({j \in 1 .. i - 1 :
                       Chunk[order[j]].section = Chunk[order[i]].section}) < limit.section
                    best == {i \in DOMAIN order : InBest(i)}
                IN  Ranks!ToSet(primaries) =
                       {order[i] : i \in {j \in best :
                           Ranks!Cardinality({k \in best : k < j}) < Ranks!PrimaryLimit}}
             /\ Len(pool) <= limit.pool /\ Ranks!IsInjective(pool)
             /\ \A c \in Ranks!ToSet(pool) :
                   Ranks!InSection(pool, Chunk[c].section) <= limit.section
             /\ Ranks!ToSet(pool) \cap lost = {}
             /\ \A c \in Ranks!ToSet(pool) \ Ranks!ToSet(primaries) :
                   c \notin Ranks!Found /\ \E root \in Ranks!ToSet(primaries) : Ranks!Near(c, root)
  <2>1. OrderSound /\ PrimariesSound /\ PoolSound
    BY <1>2 DEF RankingInv
  <2>2. order \in Seq(DOMAIN Chunk)
    BY <2>1, OrderIs
  <2>3. primaries \in Seq(DOMAIN Chunk) /\ pool \in Seq(DOMAIN Chunk)
    BY <2>1 DEF PrimariesSound, PoolSound
  <2>4. Ranks!ToSet(primaries) = Elements(primaries) /\ Ranks!ToSet(pool) = Elements(pool)
    BY <2>3 DEF Ranks!ToSet, Elements
  <2>5. DOMAIN order = 1 .. Len(order)
    BY <2>2
  <2>6. LET InBest(i) == Ranks!Cardinality({j \in 1 .. i - 1 :
               Chunk[order[j]].section = Chunk[order[i]].section}) < limit.section
            best == {i \in DOMAIN order : InBest(i)}
        IN  {order[i] : i \in {j \in best :
                Ranks!Cardinality({k \in best : k < j}) < Ranks!PrimaryLimit}}
            = {order[i] : i \in FirstOf(BestPlaces(order), Ranks!PrimaryLimit)}
    BY <2>5 DEF FirstOf, BestPlaces, Ranks!Cardinality, Cardinality
  <2>7. Ranks!IsInjective(pool)
    BY <2>1, <2>3 DEF PoolSound, Distinct, Ranks!IsInjective
  <2>8. /\ Len(pool) <= limit.pool
        /\ \A c \in Elements(pool) : Ranks!InSection(pool, Chunk[c].section) <= limit.section
    BY <2>1 DEF PoolSound, Capped
  <2>9. /\ Elements(pool) \cap lost = {}
        /\ \A c \in Elements(pool) \ Elements(primaries) :
              c \notin Ranks!Found /\ \E root \in Elements(primaries) : Ranks!Near(c, root)
    BY <2>1 DEF PoolSound
  <2>10. Elements(primaries)
         = {order[i] : i \in FirstOf(BestPlaces(order), Ranks!PrimaryLimit)}
    BY <2>1 DEF PrimariesSound
  <2> QED
    BY <2>4, <2>6, <2>7, <2>8, <2>9, <2>10
<1> QED
  BY <1>1, <1>2 DEF Ranks!PoolIsSound

\* HybridRetriever.retrieve: the better chunk is ranked first, the primaries are the best of
\* every section and of all, and the pool keeps to its caps with its neighbours; and
\* Reranker.rerank: whatever batches are retried and whatever is in the cache, what is
\* returned has the scores of its own model and is in their order.
THEOREM PoolKept ==
    ASSUME RankingParameters, RerankParameters
    PROVE  QuestionSpec => []PoolIsSound
<1> DEFINE Ranked == part = "ranking" => RankingInv
           Reranked == part = "rerank" => RerankInv
           Sound == Ranked /\ Reranked
<1>1. QuestionInit => Sound
  BY RankingBegin, ScoredBegin
<1>2. Sound /\ [QuestionNext]_questionVars => Sound'
  BY RankingSteps, ScoredSteps, PartStays
<1>3. Sound => PoolIsSound
  BY RankingHolds, ScoredSound DEF PoolIsSound
<1> QED
  BY <1>1, <1>2, <1>3, PTL DEF QuestionSpec, questionVars
================================================================================
