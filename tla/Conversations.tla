----------------------------- MODULE Conversations -----------------------------
(***************************************************************************)
(* The conversations of one user: sessions/routes.py, the parts of         *)
(* chat/orchestrator.py that write and read messages, and the loading of   *)
(* the chat page, which reads both lists page by page behind a cursor      *)
(* (core/pagination.py, lib/server/pagination.ts).                         *)
(*                                                                         *)
(* Messages are listed upwards by the time of their creation, sessions     *)
(* downwards by the time of their last change, which moves while the pages *)
(* are read.  Both times are taken before the commit that makes them       *)
(* visible, so they may become visible in another order.                   *)
(***************************************************************************)
EXTENDS Naturals, SequencesExt, Ordering

CONSTANTS
    Sessions,
    Asks, SessionOf,                \* questions, and where each is asked
    Limit,                          \* rows of a page
    Turns, Budget, PromptBudget,    \* CHAT_HISTORY_TURNS, and tokens for it and the prompt
    Weight,                         \* the tokens of each question and of its answer
    NoSession

VARIABLES
    clock,
    session,    \* session[s]: when it was changed last, and whether it is deleted
    messages,   \* the committed ones
    ask,        \* ask[a]: its step, the time its transaction has taken, and its prompt
    page        \* the page, which is loaded once; its last three fields only record what
                \* was there when the loading began, and written while sessions were listed

vars == <<clock, session, messages, ask, page>>

Message == [ask : Asks, role : {"user", "assistant"}, at : Nat]

NoPage == [at |-> "idle", requested |-> NoSession, selected |-> NoSession,
           cursor |-> 0, listed |-> <<>>, shown |-> <<>>,
           known |-> {}, gone |-> {}, touched |-> {}]

\* The columns that the lists and the loading of a page read.
ChatSession == [updated : Nat, deleted : BOOLEAN]

TypeOK ==
    /\ clock \in Nat
    /\ session \in [Sessions -> ChatSession]
    /\ messages \subseteq Message
    /\ ask \in [Asks -> [at : {"new", "asking", "asked", "prompted", "answering", "answered",
                               "failed"},
                         time : Nat, prompt : Seq(Message)]]
    /\ page.at \in {"idle", "sessions", "messages", "done", "failed"}
    /\ page.listed \in Seq(Sessions) /\ page.shown \in Seq(Message)

Init ==
    /\ \E created \in [Sessions -> 1..Cardinality(Sessions)] :
          /\ IsInjective(created)
          /\ session = [s \in Sessions |-> [updated |-> created[s], deleted |-> FALSE]]
    /\ clock = Cardinality(Sessions)
    /\ messages = {}
    /\ ask = [a \in Asks |-> [at |-> "new", time |-> 0, prompt |-> <<>>]]
    /\ page = NoPage

Live(s) == ~session[s].deleted

-------------------------------------------------------------------------------
(* A question: accept and _persist take the time, and commit later. *)

Touched(s) == IF page.at = "sessions" THEN [page EXCEPT !.touched = @ \cup {s}] ELSE page

TakesTime(a, from, to) ==
    /\ ask[a].at = from /\ Live(SessionOf[a])
    /\ clock' = clock + 1
    /\ ask' = [ask EXCEPT ![a] = [at |-> to, time |-> clock + 1, prompt |-> <<>>]]
    /\ UNCHANGED <<session, messages, page>>

Commits(a, from, to, role) ==
    /\ ask[a].at = from
    /\ messages' = messages \cup {[ask |-> a, role |-> role, at |-> ask[a].time]}
    /\ session' = [session EXCEPT ![SessionOf[a]].updated = ask[a].time]
    /\ ask' = [ask EXCEPT ![a].at = to, ![a].time = 0]
    /\ page' = Touched(SessionOf[a])
    /\ UNCHANGED clock

Ask(a) == TakesTime(a, "new", "asking")
CommitQuestion(a) == Commits(a, "asking", "asked", "user")
Answer(a) == TakesTime(a, "prompted", "answering")
CommitAnswer(a) == Commits(a, "answering", "answered", "assistant")

Tokens(sequence) == FoldLeft(LAMBDA sum, m : sum + Weight[m.ask][m.role], 0, sequence)
Earlier(m, n) == m.at < n.at

\* The messages of the conversation without one's own question, newest first.
Rows(a) ==
    LET others == {m \in messages : SessionOf[m.ask] = SessionOf[a]
                                    /\ ~(m.ask = a /\ m.role = "user")}
        newest == Ordered(others, LAMBDA m, n : Earlier(n, m))
    IN  SubSeq(newest, 1, IF Len(newest) < 2 * Turns THEN Len(newest) ELSE 2 * Turns)

\* _history: a message that does not fit is skipped, and older ones are still tried.
History(a) ==
    FoldLeft(LAMBDA kept, m : IF Tokens(<<m>> \o kept) > Budget THEN kept ELSE <<m>> \o kept,
             <<>>, Rows(a))

\* _bounded_generation_messages: the oldest go until the question fits with the rest.
Fits(a, history) == Tokens(history) + Weight[a].user <= PromptBudget

\* The rest of history from its i-th message on is the longest that fits.
Prompt(a) ==
    /\ ask[a].at = "asked"
    /\ LET history == History(a)
           rest(i) == SubSeq(history, i, Len(history))
       IN  \E i \in 1 .. Len(history) + 1 :
              /\ Fits(a, rest(i)) /\ \A j \in 1 .. i - 1 : ~Fits(a, rest(j))
              /\ ask' = [ask EXCEPT ![a].at = "prompted", ![a].prompt = rest(i)]
    /\ UNCHANGED <<clock, session, messages, page>>

\* The session is gone, or retrieval or generation fails.
Fail(a) ==
    /\ ask[a].at = "prompted" \/ (ask[a].at = "new" /\ ~Live(SessionOf[a]))
    /\ ask' = [ask EXCEPT ![a].at = "failed", ![a].prompt = <<>>]
    /\ UNCHANGED <<clock, session, messages, page>>

\* delete_session
Delete(s) ==
    /\ Live(s)
    /\ session' = [session EXCEPT ![s].deleted = TRUE]
    /\ page' = Touched(s)
    /\ UNCHANGED <<clock, messages, ask>>

-------------------------------------------------------------------------------
(* The page: all pages of the sessions, then all pages of one conversation. *)

Load(requested) ==
    /\ page.at = "idle"
    /\ page' = [NoPage EXCEPT !.at = "sessions", !.requested = requested, !.cursor = clock + 1,
                              !.known = messages, !.gone = {s \in Sessions : ~Live(s)}]
    /\ UNCHANGED <<clock, session, messages, ask>>

\* Mutant: the cursor is the row that was read only to know that there are more.
LookAheadCursor(rows) == IF Len(rows) > Limit THEN rows[Limit + 1] ELSE Last(rows)

\* The last row of a page, when there are more.
CursorRow(rows) == rows[Limit]
HasMore(rows) == Len(rows) > Limit
Items(rows) == SubSeq(rows, 1, IF HasMore(rows) THEN Limit ELSE Len(rows))

\* list_sessions
SessionRows ==
    Ordered({s \in Sessions : Live(s) /\ session[s].updated < page.cursor},
            LAMBDA s, t : session[s].updated > session[t].updated)

ListSessions ==
    /\ page.at = "sessions"
    /\ page' =
          LET rows == SessionRows
              listed == page.listed \o Items(rows)
          IN  IF HasMore(rows)
              THEN [page EXCEPT !.listed = listed, !.cursor = session[CursorRow(rows)].updated]
              ELSE [page EXCEPT
                        !.listed = listed, !.cursor = 0,
                        !.at = IF listed = <<>> THEN "done" ELSE "messages",
                        !.selected = IF listed = <<>> THEN NoSession
                                     ELSE IF page.requested \in Range(listed) THEN page.requested
                                     ELSE Head(listed)]
    /\ UNCHANGED <<clock, session, messages, ask>>

\* list_messages, of a session that is still there
MessageRows ==
    Ordered({m \in messages : SessionOf[m.ask] = page.selected /\ m.at > page.cursor}, Earlier)

ListMessages ==
    /\ page.at = "messages"
    /\ page' =
          LET rows == MessageRows
              shown == page.shown \o Items(rows)
          IN  IF ~Live(page.selected) THEN [page EXCEPT !.at = "failed"]
              ELSE IF HasMore(rows)
              THEN [page EXCEPT !.shown = shown, !.cursor = CursorRow(rows).at]
              ELSE [page EXCEPT !.shown = shown, !.at = "done"]
    /\ UNCHANGED <<clock, session, messages, ask>>

-------------------------------------------------------------------------------

Asking(a) ==
    Ask(a) \/ CommitQuestion(a) \/ Prompt(a) \/ Answer(a) \/ CommitAnswer(a) \/ Fail(a)

Next ==
    \/ \E a \in Asks : Asking(a)
    \/ \E s \in Sessions : Delete(s) \/ Load(s)
    \/ ListSessions \/ ListMessages

Spec == Init /\ [][Next]_vars

-------------------------------------------------------------------------------
(* Properties *)

Occurrences(x, sequence) == Cardinality({i \in DOMAIN sequence : sequence[i] = x})

\* A session that nobody wrote to while the pages were read is listed once, and the one
\* that was asked for is the one that is shown.  One that was written to may be missed, or
\* be listed twice.
SessionsListed ==
    page.at \in {"messages", "done"} =>
        /\ \A s \in Sessions \ (page.touched \cup page.gone) : Occurrences(s, page.listed) = 1
        /\ page.requested \notin page.touched \cup page.gone => page.selected = page.requested
        /\ page.gone \cap Range(page.listed) = {}

\* A conversation is shown in order, with everything that was there when the page began to
\* load, whatever is written meanwhile.
MessagesShown ==
    page.at = "done" =>
        /\ \A i, j \in DOMAIN page.shown : i < j => Earlier(page.shown[i], page.shown[j])
        /\ {m \in page.known : SessionOf[m.ask] = page.selected} \subseteq Range(page.shown)

\* The model is given messages of the same conversation and of no other, in order and within
\* the budgets, and never the question itself as history.
PromptsSound ==
    \A a \in Asks :
        LET prompt == ask[a].prompt IN
        /\ \A i, j \in DOMAIN prompt : i < j => Earlier(prompt[i], prompt[j])
        /\ \A m \in Range(prompt) : SessionOf[m.ask] = SessionOf[a] /\ m.ask # a
        /\ prompt # <<>> => Tokens(prompt) <= Budget /\ Fits(a, prompt)

\* docs/p3-api.md:14 (a stable chronological order) and what cursors keep of it.
ConversationsShown == TypeOK /\ SessionsListed /\ MessagesShown /\ PromptsSound
================================================================================
