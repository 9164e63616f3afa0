--------------------------------- MODULE Gateway ---------------------------------
(***************************************************************************)
(* The SvelteKit gateway of frontend/src/lib/server/api.ts between one     *)
(* browser and RefreshTokens.  The browser keeps one cookie that seals a   *)
(* bundle; its requests run concurrently, each with the bundle the cookie  *)
(* had when it was sent, and each may set or delete the cookie when its    *)
(* response arrives.  The gateway is one process: what it does between two *)
(* awaits is one action.  A request makes at most one call of /auth at a   *)
(* time, so a call has the name of its request.                            *)
(***************************************************************************)
EXTENDS RefreshTokens

VARIABLES
    cookie,      \* the bundle in the browser's cookie, or NoToken
    request,     \* request[r]: what it does, event.locals.session, the cookie it sets
    rotated,     \* rotated[t]: the remembered replacement of bundle t, or NoToken
    accident,    \* something has happened that the gateway cannot hide
    alarm        \* a reuse was detected and ended an open session

gateway == <<cookie, request, rotated, accident, alarm>>
vars == <<backend, gateway>>

Kinds == {"page", "switch", "login", "logout"}

\* sets: the response carries a cookie header, for the bundle out or to delete it.
RequestType ==
    [kind : Kinds, bundle : Tokens \cup {NoToken}, sets : BOOLEAN, out : Tokens \cup {NoToken},
     pc : {"idle", "call", "refresh", "perform", "join", "retry", "login", "logout", "respond"}]

NoRequest == [kind |-> "page", bundle |-> NoToken, sets |-> FALSE, out |-> NoToken, pc |-> "idle"]

TypeOK ==
    /\ BackendTypeOK
    /\ cookie \in Tokens \cup {NoToken}
    /\ request \in [Calls -> RequestType]
    /\ rotated \in [Tokens -> Tokens \cup {NoToken}]
    /\ accident \in BOOLEAN
    /\ alarm \in BOOLEAN

Init ==
    /\ BackendInit
    /\ cookie = NoToken
    /\ request = [r \in Calls |-> NoRequest]
    /\ rotated = [t \in Tokens |-> NoToken]
    /\ accident = FALSE
    /\ alarm = FALSE

Goto(r, pc) == request' = [request EXCEPT ![r].pc = pc]

\* The response is on its way, and only its cookie header matters from now on.
Responding(sets, out) ==
    IF sets THEN [NoRequest EXCEPT !.sets = TRUE, !.out = out, !.pc = "respond"] ELSE NoRequest

Finish(r) == request' = [request EXCEPT ![r] = Responding(request[r].sets, request[r].out)]

\* What follows a call that was accepted: a change of tenant goes on to log in.
Accepted(r) == IF request[r].kind = "switch" THEN Goto(r, "login") ELSE Finish(r)

\* A bundle is still needed: the browser or a request has it, or is about to.
Held(k) ==
    \/ cookie = k
    \/ \E r \in Calls :
        /\ request[r].pc # "idle"
        /\ \/ request[r].bundle = k
           \/ request[r].sets /\ request[r].out = k

-------------------------------------------------------------------------------
(* Requests *)

\* hooks.server.ts opens the cookie.  The login form is shown only without a session;
\* logoutUpstream deletes the cookie before anything else.  A request whose last call is
\* still under way in the backend is not reused (a bound).
Begin(r, kind) ==
    /\ request[r].pc = "idle"
    /\ call[r].pc = "none"
    /\ kind = "login" <=> cookie = NoToken
    /\ cookie # NoToken => token[cookie].status # "expired"
    /\ request' = [request EXCEPT ![r] =
          [kind |-> kind, bundle |-> cookie, sets |-> kind = "logout", out |-> NoToken,
           pc |-> IF kind \in {"login", "logout"} THEN kind ELSE "call"]]
    /\ UNCHANGED <<backend, cookie, rotated, accident, alarm>>

\* A cookie past its hard expiry is no session, and is deleted.
BeginExpired(r) ==
    /\ request[r].pc = "idle"
    /\ cookie # NoToken
    /\ token[cookie].status = "expired"
    /\ request' = [request EXCEPT ![r] = Responding(TRUE, NoToken)]
    /\ UNCHANGED <<backend, cookie, rotated, accident, alarm>>

\* apiRaw: a 401 of the first call, because the version is old or the access token, whose
\* age is not modelled, has expired.
CallDenied(r) ==
    /\ request[r].pc = "call"
    /\ Goto(r, "refresh")
    /\ UNCHANGED <<backend, cookie, rotated, accident, alarm>>

\* apiRaw: the first or the second call is accepted.
CallAccepted(r) ==
    /\ request[r].pc \in {"call", "retry"}
    /\ Usable(request[r].bundle)
    /\ Accepted(r)
    /\ UNCHANGED <<backend, cookie, rotated, accident, alarm>>

\* It times out, or the second is denied as well.
CallFails(r) ==
    /\ request[r].pc \in {"call", "retry"}
    /\ Finish(r)
    /\ UNCHANGED <<backend, cookie, rotated, accident, alarm>>

\* Mutant: nobody looks for a refresh that is under way.
NeverInFlight(k) == FALSE

\* refreshes.has(k).
InFlight(k) == \E q \in Calls : request[q].pc = "perform" /\ request[q].bundle = k

\* refreshToken: the old bundle is remembered.
RefreshRemembered(r) ==
    LET n == rotated[request[r].bundle]
    IN  /\ request[r].pc = "refresh"
        /\ n # NoToken
        /\ request' = [request EXCEPT ![r].pc = "retry", ![r].bundle = n,
                                      ![r].sets = TRUE, ![r].out = n]
        /\ UNCHANGED <<backend, cookie, rotated, accident, alarm>>

\* refreshToken: somebody refreshes it already.
RefreshJoined(r) ==
    /\ request[r].pc = "refresh"
    /\ rotated[request[r].bundle] = NoToken
    /\ InFlight(request[r].bundle)
    /\ Goto(r, "join")
    /\ UNCHANGED <<backend, cookie, rotated, accident, alarm>>

\* performRefresh.
RefreshSent(r) ==
    /\ request[r].pc = "refresh"
    /\ rotated[request[r].bundle] = NoToken
    /\ ~InFlight(request[r].bundle)
    /\ Goto(r, "perform")
    /\ call' = [call EXCEPT ![r] = [NoCall EXCEPT !.pc = "sent", !.token = request[r].bundle]]
    /\ UNCHANGED <<token, user, admin, epoch, raced, cookie, rotated, accident, alarm>>

\* Everybody who waits for the refresh of r.
Waiting(r) ==
    {q \in Calls : \/ q = r
                   \/ request[q].pc = "join" /\ request[q].bundle = request[r].bundle}

\* Mutant: the result is handed out and not remembered.
NotRemembered(k, n) == rotated

\* rotated.set(k, n), before the entry of refreshes goes away.
Remember(k, n) == [rotated EXCEPT ![k] = n]

RefreshAnswered(r) ==
    LET n == call[r].result
    IN  /\ request[r].pc = "perform"
        /\ call[r].pc = "answered"
        /\ n # NoToken
        /\ rotated' = Remember(request[r].bundle, n)
        /\ request' = [q \in Calls |->
              IF q \in Waiting(r)
              THEN [request[q] EXCEPT !.pc = "retry", !.bundle = n, !.sets = TRUE, !.out = n]
              ELSE request[q]]
        /\ call' = [call EXCEPT ![r] = NoCall]
        /\ UNCHANGED <<token, user, admin, epoch, raced, cookie, accident, alarm>>

\* Whatever the reason, everybody who waits is told that the session has expired.
GiveUp(r) ==
    request' = [q \in Calls |->
        IF q \in Waiting(r)
        THEN Responding(TRUE, NoToken)
        ELSE request[q]]

\* A 401 of the service, or a 429 or 503 from in front of it.
RefreshRefused(r) ==
    /\ request[r].pc = "perform"
    /\ \/ call[r].pc = "answered" /\ call[r].result = NoToken
       \/ call[r].pc = "sent"
    /\ GiveUp(r)
    /\ call' = [call EXCEPT ![r] = NoCall]
    /\ UNCHANGED <<token, user, admin, epoch, raced, cookie, rotated, accident, alarm>>

\* REQUEST_TIMEOUT_MS: the backend goes on without anybody listening.
RefreshTimesOut(r) ==
    /\ request[r].pc = "perform"
    /\ ~accident
    /\ GiveUp(r)
    /\ accident' = TRUE
    /\ UNCHANGED <<backend, cookie, rotated, alarm>>

Unheard(r) ==
    /\ request[r].pc \notin {"perform", "login"}
    /\ call[r].pc = "answered"
    /\ call' = [call EXCEPT ![r] = NoCall]
    /\ UNCHANGED <<token, user, admin, epoch, raced, gateway>>

\* loginUpstream, for the login form and for a change of tenant.
LoginSent(r) ==
    /\ request[r].pc = "login"
    /\ LoginStarts(r)
    /\ UNCHANGED gateway

LoginAnswered(r) ==
    /\ request[r].pc = "login"
    /\ call[r].pc = "answered"
    /\ request' = [request EXCEPT ![r] =
          IF request[r].kind = "switch"
          THEN [request[r] EXCEPT !.sets = TRUE, !.out = call[r].result, !.pc = "logout"]
          ELSE Responding(TRUE, call[r].result)]
    /\ call' = [call EXCEPT ![r] = NoCall]
    /\ UNCHANGED <<token, user, admin, epoch, raced, cookie, rotated, accident, alarm>>

LoginRefused(r) ==
    /\ request[r].pc = "login"
    /\ call[r].pc = "none"
    /\ Finish(r)
    /\ UNCHANGED <<backend, cookie, rotated, accident, alarm>>

\* logoutUpstream: best effort.
LogoutSent(r) ==
    /\ request[r].pc = "logout"
    /\ Logout(request[r].bundle)
    /\ Finish(r)
    /\ UNCHANGED <<cookie, rotated, accident, alarm>>

LogoutFails(r) ==
    /\ request[r].pc = "logout"
    /\ Finish(r)
    /\ UNCHANGED <<backend, cookie, rotated, accident, alarm>>

-------------------------------------------------------------------------------
(* Responses, time and accidents.  A bound: at most one accident in a behaviour. *)

Respond(r) ==
    /\ request[r].pc = "respond"
    /\ cookie' = request[r].out
    /\ request' = [request EXCEPT ![r] = NoRequest]
    /\ UNCHANGED <<backend, rotated, accident, alarm>>

\* The browser has gone: a new bundle is lost with the response.
ResponseLost(r) ==
    /\ request[r].pc = "respond"
    /\ ~accident
    /\ request' = [request EXCEPT ![r] = NoRequest]
    /\ accident' = TRUE
    /\ UNCHANGED <<backend, cookie, rotated, alarm>>

\* REFRESH_CACHE_MS or MAX_ROTATED_RESULTS: entries go in the order they came.
Forget(k) ==
    /\ rotated[k] # NoToken
    /\ \A j \in Tokens : rotated[j] # NoToken => rotated[k] <= rotated[j]
    /\ rotated' = [rotated EXCEPT ![k] = NoToken]
    /\ Held(k) => ~accident
    /\ accident' = (accident \/ Held(k))
    /\ UNCHANGED <<backend, cookie, request, alarm>>

\* Both maps live in the memory of the process.
Restart ==
    /\ ~accident
    /\ request' = [r \in Calls |-> NoRequest]
    /\ rotated' = [t \in Tokens |-> NoToken]
    /\ accident' = TRUE
    /\ UNCHANGED <<backend, cookie, alarm>>

BackendStep(r) ==
    /\ Transaction(r)
    /\ alarm' = (alarm \/ /\ call[r].pc = "revoking"
                          /\ \E t \in call[r].targets : token[t].status = "live")
    /\ UNCHANGED <<cookie, request, rotated, accident>>

Request(r) ==
    \/ \E kind \in Kinds : Begin(r, kind)
    \/ BeginExpired(r) \/ CallDenied(r) \/ CallAccepted(r) \/ CallFails(r)
    \/ RefreshRemembered(r) \/ RefreshJoined(r) \/ RefreshSent(r) \/ RefreshAnswered(r)
    \/ RefreshRefused(r) \/ RefreshTimesOut(r) \/ Unheard(r)
    \/ LoginSent(r) \/ LoginAnswered(r) \/ LoginRefused(r)
    \/ LogoutSent(r) \/ LogoutFails(r)
    \/ Respond(r) \/ ResponseLost(r)

Next ==
    \/ \E r \in Calls : Request(r) \/ BackendStep(r)
    \/ \E k \in Tokens : Forget(k)
    \/ Restart
    \/ (Administration \/ TimePasses) /\ UNCHANGED gateway

Spec == Init /\ [][Next]_vars

-------------------------------------------------------------------------------
(* Properties *)

\* Two requests with one refresh token, whether the gateway or the backend keeps them
\* apart, never get a token each.
AccountsInv == TypeOK /\ OneLiveToken

\* However many requests present one cookie, and in whatever order their responses
\* arrive, the gateway never makes the backend end an open session as a reuse, unless a
\* bundle was forgotten or lost while somebody still had it.
AlarmNeedsAccident == alarm => accident

\* Somebody can still exchange the bundle k, or will be handed the live one.
Leads[k \in Tokens] ==
    \/ token[k].status = "live"
    \/ InFlight(k)
    \/ rotated[k] # NoToken /\ Leads[rotated[k]]

\* The cookie of a browser whose session is open leads to its live token.
CookieServes ==
    /\ ~accident
    /\ cookie # NoToken
    /\ SessionOf(token[cookie].family) = "open"
    => Leads[cookie]
================================================================================
