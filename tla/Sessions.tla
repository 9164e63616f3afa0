-------------------------------- MODULE Sessions --------------------------------
(***************************************************************************)
(* What the refresh tokens of a user promise: a session has one current    *)
(* token, a token is current at most once in the life of the system, and a *)
(* session that has been closed is never opened again.                     *)
(***************************************************************************)
CONSTANTS Families, Tokens, NoToken

VARIABLES
    session,   \* session[f] \in {"new", "open", "closed"}
    current,   \* the token that refreshes f, or NoToken
    spent      \* tokens that are or have been current

vars == <<session, current, spent>>

Init ==
    /\ session = [f \in Families |-> "new"]
    /\ current = [f \in Families |-> NoToken]
    /\ spent = {}

Issue(f, t) ==
    /\ t \in Tokens \ spent
    /\ current' = [current EXCEPT ![f] = t]
    /\ spent' = spent \cup {t}

\* A login.
Open(f, t) ==
    /\ session[f] = "new"
    /\ session' = [session EXCEPT ![f] = "open"]
    /\ Issue(f, t)

\* A refresh.
Rotate(f, t) ==
    /\ session[f] = "open"
    /\ UNCHANGED session
    /\ Issue(f, t)

\* A logout, an expiry, a reuse, or an administrator who closes several at once.
Close(S) ==
    /\ S # {}
    /\ \A f \in S : session[f] = "open"
    /\ session' = [f \in Families |-> IF f \in S THEN "closed" ELSE session[f]]
    /\ current' = [f \in Families |-> IF f \in S THEN NoToken ELSE current[f]]
    /\ UNCHANGED spent

Next ==
    \/ \E f \in Families, t \in Tokens : Open(f, t) \/ Rotate(f, t)
    \/ \E S \in SUBSET Families : Close(S)

Spec == Init /\ [][Next]_vars
================================================================================
