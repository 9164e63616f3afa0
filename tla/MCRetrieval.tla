------------------------------ MODULE MCRetrieval ------------------------------
(* What a question meets outside its own request.  Four parts, each explored by     *)
(* itself; part names the one that runs in a behaviour: the retrieval of documents  *)
(* while the catalogue changes (nothing relates one document to another, so one,    *)
(* with two versions, is enough), the web search beside it, the conversations that  *)
(* questions and answers become, and the links and citations that lead back to the  *)
(* documents, which run over the same catalogue.                                    *)
EXTENDS Retrieval, TLC

CONSTANTS
    d1, v1, v2, c1, q1, q2,
    Parts,                          \* those that are explored
    Urls, Unusable, ResultLimit, Concurrency, MaxRedirects, MaxItems,   \* WebSearch
    Sessions, Questions, SessionOf, Weight,                              \* Conversations
    Limit, Turns, Budget, PromptBudget, NoSession, s1, m1, m2,
    Pages, Texts, Packings, MaxOpens                                    \* FileLinks

MCDocOf == (v1 :> d1) @@ (v2 :> d1)
MCNumber == (v1 :> 1) @@ (v2 :> 2)
MCSymmetry == Permutations(Queries)

\* Both questions of one conversation, of lengths by which the budgets keep two, keep one
\* and drop one.
MCSessionOf == (m1 :> s1) @@ (m2 :> s1)
MCWeight ==
    (m1 :> [user |-> 2, assistant |-> 1]) @@ (m2 :> [user |-> 1, assistant |-> 3])

\* The second version has a page more and shares a text with the first.
MCPages == (v1 :> 1) @@ (v2 :> 2)
MCTexts == (v1 :> <<"same", "old">>) @@ (v2 :> <<"same", "new">>)
MCPackings == {<<>>, <<0>>, <<1>>, <<2, 1>>, <<0, 2>>, <<2, 0>>}

VARIABLES
    part,
    documents, web, hits, fetches, result, answer,
    clock, session, messages, asked, page,
    follow, status, disk, collected, enabled, link, message, dialog, request

webVars == <<documents, web, hits, fetches, result, answer>>
conversationVars == <<clock, session, messages, asked, page>>
linkVars == <<follow, status, disk, collected, enabled, link, message, dialog, request>>

Searching == INSTANCE WebSearch
Talking ==
    INSTANCE Conversations WITH Asks <- Questions, ask <- asked

Leading == INSTANCE FileLinks WITH swept <- collected

PartsInit ==
    /\ part \in Parts
    /\ Init
    /\ IF part = "web" THEN Searching!Init ELSE
          /\ documents = "off" /\ web = "off" /\ hits = "off" /\ fetches = "off"
          /\ result = "off" /\ answer = "off"
    /\ IF part = "conversations" THEN Talking!Init ELSE
          /\ clock = "off" /\ session = "off" /\ messages = "off" /\ asked = "off"
          /\ page = "off"
    /\ IF part = "links" THEN Leading!Init ELSE
          /\ follow = "off" /\ status = "off" /\ disk = "off" /\ collected = "off"
          /\ enabled = "off" /\ link = "off" /\ message = "off" /\ dialog = "off"
          /\ request = "off"

Retrieving == part = "documents" /\ UNCHANGED <<part, webVars, conversationVars, linkVars>>
OnTheWeb == part = "web" /\ UNCHANGED <<part, vars, conversationVars, linkVars>>
InTalk == part = "conversations" /\ UNCHANGED <<part, vars, webVars, linkVars>>
Linking ==
    /\ part = "links"
    /\ UNCHANGED <<part, manifests, swept, collections, query, cache, webVars, conversationVars>>

PartsNext ==
    \/ Retrieving /\ Ingest
    \/ Retrieving /\ \E v \in Versions : Sweep(v)
    \/ Retrieving /\ \E c \in Collections : CollectionRequest(c)
    \/ Retrieving /\ \E q \in Queries : Question(q)
    \/ OnTheWeb /\ Searching!SearchFails
    \/ OnTheWeb /\ \E items \in Searching!Responses : Searching!Search(items)
    \/ OnTheWeb /\ \E r \in Searching!Ranks : Searching!Begin(r)
    \/ OnTheWeb /\ \E r \in Searching!Ranks : Searching!Page(r)
    \/ OnTheWeb /\ \E r \in Searching!Ranks : Searching!Fails(r)
    \/ OnTheWeb /\ \E r \in Searching!Ranks, to \in Urls : Searching!Redirect(r, to)
    \/ OnTheWeb /\ Searching!Gather
    \/ OnTheWeb /\ Searching!DocumentsFound
    \/ OnTheWeb /\ Searching!DocumentsFail
    \/ OnTheWeb /\ Searching!Answer
    \/ InTalk /\ \E m \in Questions : Talking!Ask(m)
    \/ InTalk /\ \E m \in Questions : Talking!CommitQuestion(m)
    \/ InTalk /\ \E m \in Questions : Talking!Prompt(m)
    \/ InTalk /\ \E m \in Questions : Talking!Answer(m)
    \/ InTalk /\ \E m \in Questions : Talking!CommitAnswer(m)
    \/ InTalk /\ \E m \in Questions : Talking!Fail(m)
    \/ InTalk /\ \E s \in Sessions : Talking!Delete(s)
    \/ InTalk /\ \E s \in Sessions : Talking!Load(s)
    \/ InTalk /\ Talking!ListSessions
    \/ InTalk /\ Talking!ListMessages
    \/ Linking /\ \E v \in Versions : Leading!Ready(v)
    \/ Linking /\ \E v \in Versions : Leading!Publish(v)
    \/ Linking /\ \E v \in Versions : Leading!Fails(v)
    \/ Linking /\ \E v \in Versions : Leading!Sweep(v)
    \/ Linking /\ \E v \in Versions : Leading!Damage(v)
    \/ Linking /\ \E d \in Docs : Leading!Retire(d)
    \/ Linking /\ Leading!Disable
    \/ Linking /\ \E v \in Versions \cup {NoVersion}, p \in 0 .. 2 : Leading!Issue(v, p)
    \/ Linking /\ Leading!Expire
    \/ Linking /\ Leading!Read
    \/ Linking /\ Leading!Hash
    \/ Linking /\ Leading!Send
    \/ Linking /\ Leading!Ask
    \/ Linking /\ Leading!Answer
    \/ Linking /\ \E o \in 1 .. MaxOpens, n \in 1 .. 2 : Leading!Open(o, n)
    \/ Linking /\ Leading!Close
    \/ Linking /\ \E o \in 1 .. MaxOpens : Leading!Preview(o)
    \/ Linking /\ \E o \in 1 .. MaxOpens : Leading!Lose(o)
    \/ Linking /\ \E o \in 1 .. MaxOpens : Leading!Arrive(o)

PartsSpec == PartsInit /\ [][PartsNext]_<<part, vars, webVars, conversationVars, linkVars>>

-------------------------------------------------------------------------------
(* The properties of the other parts, each explained in its own module.             *)

\* WebSearch: the web result is whole, and independent of the order of its pages.
WebSound == part = "web" => Searching!WebSound

\* Conversations: what the cursors, the history and the prompt show of a conversation.
ConversationsShown == part = "conversations" => Talking!ConversationsShown

\* FileLinks: a link or a citation leads to what it was made for, or nowhere.
LinksSound == part = "links" => Leading!LinksSound
================================================================================
