------------------------------ MODULE AnswerStream ------------------------------
(***************************************************************************)
(* One question on its way to the screen: send and consume of the chat     *)
(* page, SSEParser and ChatAccumulator of sse.ts, and the events that      *)
(* ChatCoordinator yields or replays for the page's one Idempotency-Key.   *)
(* Chat models the claims of many keys; here one claim is enough, but the  *)
(* stream of its events may end after any part of any of them.             *)
(***************************************************************************)
EXTENDS Naturals, Sequences

VARIABLES
    claim,      \* the idempotency row of the key
    answerOf,   \* what the latest run, by its number, is to answer
    yielded,    \* how many of its events that run has yielded
    raised,     \* the run has yielded an error event instead of the rest
    link,       \* the response that the page reads
    accumulator, page

vars == <<claim, answerOf, yielded, raised, link, accumulator, page>>

\* The pieces of an answer, <<run, number>>, as they are streamed and as they are stored.
Answers == {"plain", "repaired"}
Piece(run, n) == <<run, n>>
Stored(a) == IF a.text = "plain" THEN <<Piece(a.run, 1), Piece(a.run, 2)>>
             ELSE <<Piece(a.run, 3)>>

Event(name, data) == [event |-> name, data |-> data]

\* The transcript of a run.  Its last two events, citations and done, follow _persist.
Transcript(a) ==
    <<Event("start", <<>>), Event("delta", Piece(a.run, 1)), Event("delta", Piece(a.run, 2))>>
    \o (IF a.text = "repaired" THEN <<Event("replace", Piece(a.run, 3))>> ELSE <<>>)
    \o <<Event("citations", a.run), Event("done", a.run)>>

Persisted(a) == Len(Transcript(a)) - 2

Empty == [answer |-> <<>>, citations |-> 0, message |-> 0, done |-> FALSE, error |-> FALSE]
NoLink == [open |-> FALSE, replay |-> FALSE, got |-> 0]

Init ==
    /\ claim = "none"
    /\ answerOf = [run |-> 0, text |-> "plain"]
    /\ yielded = 0
    /\ raised = FALSE
    /\ link = NoLink
    /\ accumulator = Empty
    /\ page = [at |-> "request", attempt |-> 1]

TypeOK ==
    /\ claim \in {"none", "running", "failed", "completed"}
    /\ answerOf \in [run : 0 .. 2, text : Answers]
    /\ yielded \in 0 .. 6
    /\ raised \in BOOLEAN
    /\ link \in [open : BOOLEAN, replay : BOOLEAN, got : 0 .. 6]
    /\ accumulator.answer \in Seq((1 .. 2) \X (1 .. 3))
    /\ page \in [at : {"request", "reading", "shown", "error"}, attempt : 1 .. 2]

-------------------------------------------------------------------------------
(* The run of a claim goes on when its client is gone, until it is cancelled. *)

Page == UNCHANGED <<link, accumulator, page>>

Yield ==
    /\ claim = "running" /\ yielded < Persisted(answerOf)
    /\ yielded' = yielded + 1
    /\ UNCHANGED <<claim, answerOf, raised>> /\ Page

\* The answer is committed before its last events are yielded.
Persist ==
    /\ claim = "running" /\ yielded = Persisted(answerOf)
    /\ claim' = "completed" /\ yielded' = yielded + 2
    /\ UNCHANGED <<answerOf, raised>> /\ Page

\* A step raises, or the run is cancelled: the claim fails, unless it is completed
\* already and only its acknowledgement was lost.
Raise ==
    /\ ~raised
    /\ \/ claim = "running" /\ claim' = "failed" /\ UNCHANGED yielded
       \/ /\ claim = "running" /\ yielded = Persisted(answerOf)
          /\ claim' = "completed" /\ UNCHANGED yielded
    /\ raised' = TRUE
    /\ UNCHANGED answerOf /\ Page

-------------------------------------------------------------------------------
(* The page *)

Server == UNCHANGED <<claim, answerOf, yielded, raised>>

\* POST /api/chat is accepted: a run of its own, or the stored transcript.
Accepted ==
    /\ page.at = "request"
    /\ \/ /\ claim \in {"none", "failed"}
          /\ claim' = "running"
          /\ \E text \in Answers : answerOf' = [run |-> answerOf.run + 1, text |-> text]
          /\ yielded' = 0 /\ raised' = FALSE
          /\ link' = [NoLink EXCEPT !.open = TRUE]
       \/ /\ claim = "completed"
          /\ link' = [NoLink EXCEPT !.open = TRUE, !.replay = TRUE]
          /\ Server
    /\ page' = [page EXCEPT !.at = "reading"]
    /\ UNCHANGED accumulator

\* consume did not see the end of the answer: the page asks a second time, but not a third.
AskAgain == page' = IF page.attempt = 1 THEN [at |-> "request", attempt |-> 2]
                    ELSE [page EXCEPT !.at = "error"]

\* HTTP 425: after a second consume returns false.
TooEarly ==
    /\ page.at = "request" /\ claim = "running"
    /\ AskAgain
    /\ UNCHANGED <<link, accumulator>> /\ Server

\* fetch or read throws, the status is an error, or the response ends inside a data line,
\* which is then no JSON: there is no second attempt.
Throws ==
    /\ page.at \in {"request", "reading"}
    /\ page' = [page EXCEPT !.at = "error"]
    /\ link' = NoLink
    /\ UNCHANGED accumulator /\ Server

\* ChatAccumulator.apply
AppliedAfterStart(acc, e) ==
    CASE e.event = "delta" -> [acc EXCEPT !.answer = Append(@, e.data)]
      [] e.event = "replace" -> [acc EXCEPT !.answer = <<e.data>>]
      [] e.event = "citations" -> [acc EXCEPT !.citations = e.data]
      [] e.event = "done" -> [acc EXCEPT !.message = e.data, !.done = TRUE]
      [] e.event = "error" -> [acc EXCEPT !.error = TRUE]

\* Mutant: start only says that the stream has begun.
AppliedKeeping(acc, e) == IF e.event = "start" THEN acc ELSE AppliedAfterStart(acc, e)

Applied(acc, e) == IF e.event = "start" THEN Empty ELSE AppliedAfterStart(acc, e)

\* The events that the response has carried, or will.
Coming ==
    IF link.replay THEN Transcript(answerOf)
    ELSE SubSeq(Transcript(answerOf), 1, yielded)
         \o (IF raised THEN <<Event("error", <<>>)>> ELSE <<>>)

NextEvent == Coming[link.got + 1]
HasNext == link.open /\ link.got < Len(Coming)

Ends(acc) == acc.done \/ acc.error
Settled(acc) == [page EXCEPT !.at = IF acc.error THEN "error" ELSE "shown"]

\* The last line of an event, the empty one, arrives.
Receive ==
    /\ page.at = "reading" /\ HasNext
    /\ accumulator' = Applied(accumulator, NextEvent)
    /\ IF Ends(accumulator')
       THEN page' = Settled(accumulator') /\ link' = NoLink
       ELSE link' = [link EXCEPT !.got = @ + 1] /\ UNCHANGED page
    /\ Server

\* The response ends between two events or in an event line, which alone says nothing.
EndsBetween ==
    /\ page.at = "reading"
    /\ AskAgain
    /\ link' = NoLink
    /\ UNCHANGED accumulator /\ Server

\* It ends after a whole data line: the parser dispatches the event all the same.
EndsAfterData ==
    /\ page.at = "reading" /\ HasNext
    /\ accumulator' = Applied(accumulator, NextEvent)
    /\ IF Ends(accumulator') THEN page' = Settled(accumulator') ELSE AskAgain
    /\ link' = NoLink
    /\ Server

Next ==
    \/ Yield \/ Persist \/ Raise
    \/ Accepted \/ TooEarly \/ Throws
    \/ Receive \/ EndsBetween \/ EndsAfterData

Spec == Init /\ [][Next]_vars

-------------------------------------------------------------------------------
(* Properties *)

\* However the first stream ended and whatever the second attempt met, a page that shows
\* an answer without an error shows the stored one, with its citations and its id; and
\* at no time does it show pieces of two answers.
ShownIsStored ==
    /\ TypeOK
    /\ page.at = "shown" =>
          /\ claim = "completed"
          /\ accumulator.answer = Stored(answerOf)
          /\ accumulator.citations = answerOf.run
          /\ accumulator.message = answerOf.run
    /\ \A i, j \in DOMAIN accumulator.answer :
          accumulator.answer[i][1] = accumulator.answer[j][1]
================================================================================
