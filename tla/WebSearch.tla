------------------------------- MODULE WebSearch -------------------------------
(***************************************************************************)
(* The web branch of a question: rag/web.py beside the document branch in  *)
(* CombinedRetrievalService.retrieve (rag/combined.py), and the redirect   *)
(* chain that the page fetcher of web/fetcher.py follows.                  *)
(*                                                                         *)
(* The pages are fetched side by side and end in any order.  What the web  *)
(* answers is arbitrary, and may differ from one request to the next.      *)
(***************************************************************************)
EXTENDS Naturals, SequencesExt

CONSTANTS
    Urls,
    Unusable,       \* an item of the search response that is not a hit
    ResultLimit, Concurrency, MaxRedirects,
    MaxItems        \* bound on the items of a search response

VARIABLES
    documents,      \* the step of the document task
    web,            \* the step of the web task
    hits,           \* the urls found, by rank
    fetches,        \* fetches[rank]: its step, and the urls visited
    result,         \* the result of the web task: its status, and ranks
    answer          \* what retrieve() returns of it, or that it raises

vars == <<documents, web, hits, fetches, result, answer>>

Ranks == DOMAIN hits
Fetch(at, visited) == [at |-> at, visited |-> visited]
Result(status, candidates, failures) ==
    [status |-> status, candidates |-> candidates, failures |-> failures]
Disabled == Result("disabled", <<>>, <<>>)

TypeOK ==
    /\ documents \in {"running", "done", "failed"}
    /\ web \in {"disabled", "searching", "fetching", "done", "cancelled"}
    /\ hits \in Seq(Urls)
    /\ DOMAIN fetches = Ranks
    /\ \A r \in Ranks :
          /\ fetches[r].at \in {"waiting", "running", "page", "failed"}
          /\ fetches[r].visited \in Seq(Urls)
    /\ result.status \in {"none", "disabled", "empty", "ok", "partial", "failed"}
    /\ answer \in {"none", "given", "raised"}

Init ==
    /\ documents = "running"
    /\ \/ web = "disabled" /\ result = Disabled
       \/ web = "searching" /\ result = Result("none", <<>>, <<>>)
    /\ hits = <<>> /\ fetches = <<>>
    /\ answer = "none"

-------------------------------------------------------------------------------
(* SearxngClient.search *)

\* Items that are malformed or name a url again are passed over and take no rank.
Hits(items) ==
    FoldLeft(LAMBDA found, url :
                IF Len(found) >= ResultLimit \/ url = Unusable \/ url \in Range(found)
                THEN found ELSE Append(found, url),
             <<>>, items)

Ends(with) == web' = "done" /\ result' = with

SearchFails ==
    /\ web = "searching" /\ Ends(Result("failed", <<>>, <<>>))
    /\ UNCHANGED <<documents, hits, fetches, answer>>

Search(items) ==
    /\ web = "searching"
    /\ hits' = Hits(items)
    /\ fetches' = [r \in DOMAIN hits' |-> Fetch("waiting", <<>>)]
    /\ IF hits' = <<>> THEN Ends(Result("empty", <<>>, <<>>))
       ELSE web' = "fetching" /\ UNCHANGED result
    /\ UNCHANGED <<documents, answer>>

-------------------------------------------------------------------------------
(* WebRetriever.retrieve and SafePageFetcher.fetch *)

At(step) == {r \in Ranks : fetches[r].at = step}

\* The semaphore lets the fetches in by rank.
Begin(r) ==
    /\ web = "fetching" /\ r \in At("waiting")
    /\ Cardinality(At("running")) < Concurrency
    /\ \A s \in At("waiting") : r <= s
    /\ fetches' = [fetches EXCEPT ![r] = Fetch("running", <<hits[r]>>)]
    /\ UNCHANGED <<documents, web, hits, result, answer>>

Visiting(r) == web = "fetching" /\ r \in At("running")

\* The url visited last answers with a page.
Page(r) ==
    /\ Visiting(r)
    /\ fetches' = [fetches EXCEPT ![r].at = "page"]
    /\ UNCHANGED <<documents, web, hits, result, answer>>

\* It is refused, unreachable, too slow or no text; or the deadline for the chain passes.
Fails(r) ==
    /\ Visiting(r)
    /\ fetches' = [fetches EXCEPT ![r] = Fetch("failed", <<>>)]
    /\ UNCHANGED <<documents, web, hits, result, answer>>

\* It answers with a redirection: too many of them, or one in a circle, fail.
Redirect(r, to) ==
    /\ Visiting(r)
    /\ LET visited == fetches[r].visited IN
       fetches' = [fetches EXCEPT
          ![r] = IF Len(visited) > MaxRedirects \/ to \in Range(visited)
                 THEN Fetch("failed", <<>>) ELSE Fetch("running", Append(visited, to))]
    /\ UNCHANGED <<documents, web, hits, result, answer>>

FinalUrl(r) == Last(fetches[r].visited)

Status(candidates, failures) ==
    CASE candidates # <<>> /\ failures # <<>> -> "partial"
      [] candidates # <<>> /\ failures = <<>> -> "ok"
      [] candidates = <<>> /\ failures # <<>> -> "failed"
      [] OTHER -> "empty"

\* Mutant: the candidates are told apart by the url that was found.
CollectedByHit ==
    LET candidates == SetToSortSeq(At("page"), <)
        failures == SetToSortSeq(At("failed"), <)
    IN  Result(Status(candidates, failures), candidates, failures)

\* By rank: a page that was reached before, from a better rank, counts as a failure.
Collected ==
    LET split ==
            FoldLeft(LAMBDA sofar, r :
                        IF fetches[r].at = "page"
                           /\ \A c \in Range(sofar[1]) : FinalUrl(c) # FinalUrl(r)
                        THEN <<Append(sofar[1], r), sofar[2]>>
                        ELSE <<sofar[1], Append(sofar[2], r)>>,
                     <<<<>>, <<>>>>, [r \in Ranks |-> r])
    IN  Result(Status(split[1], split[2]), split[1], split[2])

Gather ==
    /\ web = "fetching" /\ At("waiting") \cup At("running") = {}
    /\ Ends(Collected)
    /\ UNCHANGED <<documents, hits, fetches, answer>>

-------------------------------------------------------------------------------
(* CombinedRetrievalService.retrieve *)

DocumentsFound ==
    /\ documents = "running" /\ documents' = "done"
    /\ UNCHANGED <<web, hits, fetches, result, answer>>

\* The web task is cancelled and awaited, and the exception goes on.
DocumentsFail ==
    /\ documents = "running" /\ documents' = "failed"
    /\ web' = IF web \in {"searching", "fetching"} THEN "cancelled" ELSE web
    /\ answer' = "raised"
    /\ UNCHANGED <<hits, fetches, result>>

Answer ==
    /\ documents = "done" /\ web \in {"done", "disabled"} /\ answer = "none"
    /\ answer' = "given"
    /\ UNCHANGED <<documents, web, hits, fetches, result>>

Responses == BoundedSeq(Urls \cup {Unusable}, MaxItems)

Next ==
    \/ \E items \in Responses : Search(items)
    \/ SearchFails
    \/ \E r \in Ranks : Begin(r) \/ Page(r) \/ Fails(r) \/ \E to \in Urls : Redirect(r, to)
    \/ Gather
    \/ DocumentsFound \/ DocumentsFail \/ Answer

Spec == Init /\ [][Next]_vars

-------------------------------------------------------------------------------
(* Properties *)

\* Of the hits that lead to a page, the best ranked one brings it in, whichever ended first.
Bearers ==
    {r \in At("page") : \A s \in At("page") : FinalUrl(s) = FinalUrl(r) => r <= s}

\* Every hit is a candidate or a failure, by rank, and the status says which there are.
ResultSound ==
    web = "done" /\ hits # <<>> =>
        /\ Range(result.candidates) = Bearers
        /\ Range(result.failures) = Ranks \ Bearers
        /\ \A ranks \in {result.candidates, result.failures} :
              \A i, j \in DOMAIN ranks : i < j => ranks[i] < ranks[j]
        /\ result.status = IF Bearers = {} THEN "failed"
                           ELSE IF Bearers = Ranks THEN "ok" ELSE "partial"

\* A chain is short and never returns, and the fetcher is asked for few pages at a time.
FetchesBounded ==
    /\ Len(hits) <= ResultLimit /\ IsInjective(hits)
    /\ Cardinality(At("running")) <= Concurrency
    /\ \A r \in Ranks :
          Len(fetches[r].visited) <= MaxRedirects + 1 /\ IsInjective(fetches[r].visited)

\* WebRetriever.retrieve with CombinedRetrievalService.retrieve, docs/p7-web-retrieval.md:
\* 61-81: a web that fails takes nothing from the documents, and what it found does not
\* depend on the order in which its pages came.  No web task outlives the question.
WebSound ==
    /\ TypeOK /\ ResultSound /\ FetchesBounded
    /\ answer = "given" => documents = "done" /\ result.status # "none"
    /\ answer # "none" => web \notin {"searching", "fetching"}
================================================================================
