------------------------------ MODULE Idempotency ------------------------------
(***************************************************************************)
(* The durable claims of backend/app/core/idempotency.py: one row for each *)
(* key of a tenant, user and operation.  Each function of the module locks *)
(* the row and decides on it in the caller's transaction, so each is an    *)
(* operator on the row.                                                    *)
(*                                                                         *)
(* expires_at is the time of the last claim plus a fixed time to live.     *)
(* The row holds the claimer in its place, and an action of the module     *)
(* that uses this one says when that time has passed.                      *)
(***************************************************************************)
CONSTANTS
    Attempts,   \* HTTP requests, each with the id of the answer it would store
    Requests,   \* canonical requests, compared by their hash
    NoAttempt,  \* no claimer, no stored response
    NoRequest   \* no request hash

ASSUME ClaimsAssumption == NoAttempt \notin Attempts /\ NoRequest \notin Requests

RowStatus == {"absent", "in_progress", "completed", "failed"}

Row ==
    [status : RowStatus,
     hash : Requests \cup {NoRequest},
     claimer : Attempts \cup {NoAttempt},
     response : Attempts \cup {NoAttempt}]

NoRow ==
    [status |-> "absent", hash |-> NoRequest, claimer |-> NoAttempt, response |-> NoAttempt]

\* Mutant: the canonical request is not compared.
OutcomeForAnyRequest(row, request, expired) ==
    CASE row.status = "absent" -> "claimed"
      [] row.status = "completed" -> "replay"
      [] row.status = "in_progress" /\ ~expired -> "in_progress"
      [] OTHER -> "recovered"

\* Mutant: a live claim is taken over.
OutcomeWithoutExpiry(row, request, expired) ==
    CASE row.status = "absent" -> "claimed"
      [] row.status # "absent" /\ row.hash # request -> "conflict"
      [] row.status = "completed" -> "replay"
      [] OTHER -> "recovered"

\* claim_idempotency: the insert decides whether the row is new.
Outcome(row, request, expired) ==
    CASE row.status = "absent" -> "claimed"
      [] row.status # "absent" /\ row.hash # request -> "conflict"
      [] row.hash = request /\ row.status = "completed" -> "replay"
      [] row.hash = request /\ row.status = "in_progress" /\ ~expired -> "in_progress"
      [] OTHER -> "recovered"

Owned == {"claimed", "recovered"}

ClaimedRow(request, claimer) ==
    [status |-> "in_progress", hash |-> request, claimer |-> claimer, response |-> NoAttempt]

\* complete_idempotency raises unless the claim is in progress; whose claim it is
\* makes no difference.
Completable(row) == row.status = "in_progress"

CompletedRow(row, answer) == [row EXCEPT !.status = "completed", !.response = answer]

\* Mutant: a completed claim is failed, too.
FailedAlways(row) == [row EXCEPT !.status = "failed"]

\* fail_idempotency leaves a completed claim alone; it raises if there is no row.
FailedRow(row) ==
    IF row.status \in {"absent", "completed"} THEN row ELSE [row EXCEPT !.status = "failed"]
================================================================================
