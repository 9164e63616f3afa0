-------------------------------- MODULE Exchange --------------------------------
(***************************************************************************)
(* What the chat endpoint promises: a request identifier stands for one    *)
(* question, a question is answered at most once, and whoever asks it      *)
(* again is told that answer and no other.                                 *)
(***************************************************************************)
CONSTANTS Requests, Answers, ClientId

VARIABLES
    asked,     \* the requests whose user message is stored
    answers,   \* pairs of a request and its assistant message
    told       \* pairs of a request and the answer a client got for it

vars == <<asked, answers, told>>

Init ==
    /\ asked = {}
    /\ answers = {}
    /\ told = {}

\* A new question is stored under an identifier nobody has used.
Ask(q) ==
    /\ \A p \in asked : ClientId[p] # ClientId[q]
    /\ asked' = asked \cup {q}
    /\ UNCHANGED <<answers, told>>

\* A stored question gets its answer.
Answer(q, m) ==
    /\ q \in asked
    /\ \A pair \in answers : pair[1] # q
    /\ answers' = answers \cup {<<q, m>>}
    /\ UNCHANGED <<asked, told>>

\* A client gets an answer that is stored.
Tell(pair) ==
    /\ pair \in answers
    /\ told' = told \cup {pair}
    /\ UNCHANGED <<asked, answers>>

Next ==
    \/ \E q \in Requests : Ask(q)
    \/ \E q \in Requests, m \in Answers : Answer(q, m)
    \/ \E pair \in Requests \X Answers : Tell(pair)

Spec == Init /\ [][Next]_vars
================================================================================
