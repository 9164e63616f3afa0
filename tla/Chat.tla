---------------------------------- MODULE Chat ----------------------------------
(***************************************************************************)
(* POST /api/chat for one user: ChatCoordinator of                         *)
(* backend/app/chat/orchestrator.py on top of the claims of Idempotency.   *)
(* An attempt is one HTTP request; a client that lost its stream sends the *)
(* same body with the same key again.  accept is one transaction, the      *)
(* stream runs outside of any, _persist and _fail are one transaction      *)
(* each, and nothing ties them together but the key.  Who owns the session *)
(* is left out: an attempt for a session that is gone leaves no trace.     *)
(***************************************************************************)
EXTENDS Idempotency

CONSTANTS
    Keys,        \* Idempotency-Key values
    KeyOf,       \* the key an attempt carries
    RequestOf,   \* the request an attempt carries
    ClientId,    \* the client_request_id of a request
    Question,    \* the session and message of a request
    SlowKeys     \* keys whose streams may outlive IDEMPOTENCY_TTL

ASSUME ChatAssumption ==
    /\ KeyOf \in [Attempts -> Keys]
    /\ RequestOf \in [Attempts -> Requests]
    /\ SlowKeys \subseteq Keys

VARIABLES
    claim,     \* claim[k]: the idempotency row of key k
    asked,     \* requests whose user message is stored
    stored,    \* attempts whose assistant message is stored
    told,      \* pairs of a request and the answer a client got for it
    attempt,   \* attempt[a]: its step, and the answer it is to send
    overdue    \* attempts whose time to live since their claim has passed

vars == <<claim, asked, stored, told, attempt, overdue>>

Attempt ==
    [pc : {"new", "streaming", "failing", "sending", "replaying", "done"},
     answer : Attempts \cup {NoAttempt}]

Init ==
    /\ claim = [k \in Keys |-> NoRow]
    /\ asked = {}
    /\ stored = {}
    /\ told = {}
    /\ attempt = [a \in Attempts |-> [pc |-> "new", answer |-> NoAttempt]]
    /\ overdue = {}

Goto(a, pc) == attempt' = [attempt EXCEPT ![a].pc = pc]

\* accept, while the caller has not decided what to do with the outcome.
OutcomeOf(a) ==
    Outcome(claim[KeyOf[a]], RequestOf[a], claim[KeyOf[a]].claimer \in overdue)

\* Mutant: a message that is already there is always one's own.
MisusedOnlyByOthers(a) ==
    \E q \in asked :
        /\ ClientId[q] = ClientId[RequestOf[a]]
        /\ Question[q] # Question[RequestOf[a]]

\* The client_request_id belongs to a message of another key or question.  Between
\* two attempts that find no message the unique constraint of messages decides.
Misused(a) ==
    \E q \in asked :
        /\ ClientId[q] = ClientId[RequestOf[a]]
        /\ OutcomeOf(a) = "claimed" \/ Question[q] # Question[RequestOf[a]]

\* The claim and the user message are committed together.
Accept(a) ==
    /\ attempt[a].pc = "new"
    /\ OutcomeOf(a) \in Owned
    /\ ~Misused(a)
    /\ claim' = [claim EXCEPT ![KeyOf[a]] = ClaimedRow(RequestOf[a], a)]
    /\ asked' = IF \E q \in asked : ClientId[q] = ClientId[RequestOf[a]]
                THEN asked ELSE asked \cup {RequestOf[a]}
    /\ Goto(a, "streaming")
    /\ UNCHANGED <<stored, told, overdue>>

\* HTTP 409 or 425: everything is rolled back.
TurnAway(a) ==
    /\ attempt[a].pc = "new"
    /\ \/ OutcomeOf(a) \in {"conflict", "in_progress"}
       \/ OutcomeOf(a) \in Owned /\ Misused(a)
    /\ Goto(a, "done")
    /\ UNCHANGED <<claim, asked, stored, told, overdue>>

\* The stored transcript is read here and sent later.
Replay(a) ==
    /\ attempt[a].pc = "new"
    /\ OutcomeOf(a) = "replay"
    /\ attempt' = [attempt EXCEPT
          ![a] = [pc |-> "replaying", answer |-> claim[KeyOf[a]].response]]
    /\ UNCHANGED <<claim, asked, stored, told, overdue>>

\* _persist: the assistant message and the completed claim are committed together.
Persist(a) ==
    /\ attempt[a].pc = "streaming"
    /\ Completable(claim[KeyOf[a]])
    /\ claim' = [claim EXCEPT ![KeyOf[a]] = CompletedRow(@, a)]
    /\ stored' = stored \cup {a}
    /\ attempt' = [attempt EXCEPT ![a] = [pc |-> "sending", answer |-> a]]
    /\ UNCHANGED <<asked, told, overdue>>

\* Retrieval, generation or the database raises, the owner is gone, the client has
\* left, or _persist finds the claim already completed or failed.  In the last case of
\* all _persist has committed, but its acknowledgement is lost.
StreamFails(a) ==
    /\ attempt[a].pc \in {"streaming", "sending"}
    /\ Goto(a, "failing")
    /\ UNCHANGED <<claim, asked, stored, told, overdue>>

\* _fail
Fail(a) ==
    /\ attempt[a].pc = "failing"
    /\ claim' = [claim EXCEPT ![KeyOf[a]] = FailedRow(@)]
    /\ Goto(a, "done")
    /\ UNCHANGED <<asked, stored, told, overdue>>

\* The last events: citations and done with the id of the answer.
Send(a) ==
    /\ attempt[a].pc \in {"sending", "replaying"}
    /\ told' = told \cup {<<RequestOf[a], attempt[a].answer>>}
    /\ Goto(a, "done")
    /\ UNCHANGED <<claim, asked, stored, overdue>>

\* The process dies, the connection breaks, or _fail is itself cancelled or fails.
Cut(a) ==
    /\ attempt[a].pc \in {"streaming", "failing", "sending", "replaying"}
    /\ Goto(a, "done")
    /\ UNCHANGED <<claim, asked, stored, told, overdue>>

\* The stream of a may still complete or fail the claim.
Owns(a) == attempt[a].pc \in {"streaming", "failing", "sending"}

\* The time to live of a claim runs out.
TimeOut(a) ==
    /\ a \notin overdue
    /\ \E k \in Keys : claim[k].claimer = a
    /\ KeyOf[a] \in SlowKeys \/ ~Owns(a)
    /\ overdue' = overdue \cup {a}
    /\ UNCHANGED <<claim, asked, stored, told, attempt>>

\* prune_ephemeral_records, at least a day after the time to live: no stream is that
\* old.
Prune(k) ==
    /\ claim[k].claimer \in overdue
    /\ \A a \in Attempts : KeyOf[a] = k => ~Owns(a)
    /\ claim' = [claim EXCEPT ![k] = NoRow]
    /\ UNCHANGED <<asked, stored, told, attempt, overdue>>

Next ==
    \/ \E a \in Attempts :
          \/ Accept(a) \/ TurnAway(a) \/ Replay(a)
          \/ StreamFails(a) \/ Persist(a) \/ Fail(a)
          \/ Send(a) \/ Cut(a) \/ TimeOut(a)
    \/ \E k \in Keys : Prune(k)

Spec == Init /\ [][Next]_vars

Abstract ==
    INSTANCE Exchange WITH
        Answers <- Attempts,
        answers <- {<<RequestOf[a], a>> : a \in stored}

-------------------------------------------------------------------------------
(* Properties *)

TypeOK ==
    /\ claim \in [Keys -> Row]
    /\ asked \subseteq Requests
    /\ stored \subseteq Attempts
    /\ told \subseteq Requests \X Attempts
    /\ attempt \in [Attempts -> Attempt]
    /\ overdue \subseteq Attempts

\* A row stands for a stored question, and no other row for the same.
RowsAreQuestions ==
    /\ \A k \in Keys : claim[k].status # "absent" => claim[k].hash \in asked
    /\ \A k, l \in Keys :
          k # l /\ claim[k].status # "absent" /\ claim[l].status # "absent" =>
              claim[k].hash # claim[l].hash

\* A row is completed by an answer to its question; until then there is none.
RowsMatchAnswers ==
    \A k \in Keys :
        /\ claim[k].status \in {"in_progress", "failed"} =>
              \A b \in stored : RequestOf[b] # claim[k].hash
        /\ claim[k].status = "completed" =>
              claim[k].response \in stored /\ RequestOf[claim[k].response] = claim[k].hash

\* A question has one answer.
OneAnswerEach ==
    /\ \A b \in stored : RequestOf[b] \in asked
    /\ \A b, c \in stored : RequestOf[b] = RequestOf[c] => b = c

\* A stream works on its own question, also after its claim was taken over; what is
\* sent, or was told, is the stored answer.
AttemptsKeepToTheirQuestion ==
    /\ \A a \in Attempts : Owns(a) =>
          claim[KeyOf[a]].status # "absent" /\ claim[KeyOf[a]].hash = RequestOf[a]
    /\ \A a \in Attempts : attempt[a].pc \in {"sending", "replaying"} =>
          attempt[a].answer \in stored /\ RequestOf[attempt[a].answer] = RequestOf[a]
    /\ \A pair \in told : pair[2] \in stored /\ RequestOf[pair[2]] = pair[1]

\* A stream that is within its time to live still has its claim.
QuickStreamsOwnTheirClaim ==
    /\ \A a \in Attempts : attempt[a].pc = "new" =>
          a \notin overdue /\ \A k \in Keys : claim[k].claimer # a
    /\ \A a \in Attempts : Owns(a) /\ KeyOf[a] \notin SlowKeys =>
          /\ claim[KeyOf[a]].claimer = a
          /\ claim[KeyOf[a]].status \in {"in_progress", "completed"}
          /\ a \notin overdue

\* The inductive invariant of the proofs: the claims, the messages and the attempts at
\* work agree, so a claim can be taken over without a question being answered twice.
ChatInv ==
    /\ TypeOK
    /\ RowsAreQuestions
    /\ RowsMatchAnswers
    /\ OneAnswerEach
    /\ AttemptsKeepToTheirQuestion
    /\ QuickStreamsOwnTheirClaim

\* The endpoint implements Exchange: however often a request is repeated, taken over
\* and cut off, its question is stored once, answered once, and every client that gets
\* an answer gets the stored one (docs/p8-generation.md:29 and 33).
ImplementsExchange == Abstract!Spec

\* "without downgrading a transaction that already committed": a completed claim keeps
\* its answer until it is pruned, whatever becomes of older attempts with its key.
CompletedIsFinal ==
    [][\A k \in Keys : claim[k].status = "completed" => claim'[k] \in {claim[k], NoRow}]_vars

\* As long as no stream outlives its time to live, one attempt at a time works on a key.
OneOwner ==
    \A a, b \in Attempts :
        a # b /\ KeyOf[a] = KeyOf[b] /\ KeyOf[a] \notin SlowKeys =>
            ~(Owns(a) /\ Owns(b))

\* docs/p8-generation.md:30: an active duplicate returns HTTP 425.  Two attempts with
\* the same key are never at work while both are within their time to live.
ActiveDuplicateWaits ==
    \A a, b \in Attempts :
        a # b /\ KeyOf[a] = KeyOf[b] /\ a \notin overdue /\ b \notin overdue =>
            ~(attempt[a].pc = "streaming" /\ attempt[b].pc = "streaming")
================================================================================
