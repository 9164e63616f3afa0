------------------------------ MODULE RefreshTokens ------------------------------
(***************************************************************************)
(* The refresh tokens and the authorization version of one user:           *)
(* AuthService of backend/app/auth/service.py, the check of every request  *)
(* in auth/dependencies.py and the commands of admin_cli.py, as            *)
(* transactions of one database at read committed.                         *)
(*                                                                         *)
(* A refresh locks its token row before it decides and holds it to its     *)
(* commit; the user row is only read.  An UPDATE of several tokens fixes   *)
(* the rows it will look at when it starts, waits for those that are       *)
(* locked, and changes those that still match.  A bundle of an access and  *)
(* a refresh token has the number of its refresh token.                    *)
(***************************************************************************)
EXTENDS Naturals, FiniteSets

CONSTANTS
    Calls,       \* backend calls that may be under way at once
    Admins,      \* runs of admin_cli
    MaxTokens,   \* bound on refresh tokens ever issued
    Budget       \* bound on refresh tokens and commands together

ASSUME RefreshTokensAssumption == MaxTokens \in Nat /\ Budget \in Nat

Tokens == 1 .. MaxTokens
NoToken == 0

VARIABLES
    token,     \* token[t]: the row, and the version in the access token issued with it
    user,      \* users.is_active and users.auth_version, as committed
    admin,     \* admin[a]: progress of a command
    call,      \* call[c]: progress of a login or refresh
    epoch,     \* number of commands that have committed
    raced      \* two commands have overlapped

backend == <<token, user, admin, call, epoch, raced>>

NoRow == [status |-> "none", family |-> NoToken, ver |-> 0, since |-> 0]
NoCall == [pc |-> "none", token |-> NoToken, ver |-> 0, since |-> 0,
           targets |-> {}, result |-> NoToken]
Idle == [pc |-> "idle", kind |-> "revoke", seen |-> [active |-> TRUE, ver |-> 0], targets |-> {}]

Issued == {t \in Tokens : token[t].status # "none"}
Family(t) == {u \in Issued : token[u].family = token[t].family}

\* What revoked_at IS NULL selects; an expired token is among them.
Unrevoked == {t \in Issued : token[t].status \in {"live", "expired"}}

TokenType ==
    [status : {"none", "live", "expired", "dead"}, family : Tokens \cup {NoToken},
     ver : Nat, since : Nat]
UserType == [active : BOOLEAN, ver : Nat]
AdminType ==
    [pc : {"idle", "decided", "updating", "done"},
     kind : {"revoke", "disable", "enable"}, seen : UserType, targets : SUBSET Tokens]
CallType ==
    [pc : {"none", "sent", "rotating", "revoking", "opening", "answered"},
     token : Tokens \cup {NoToken}, ver : Nat, since : Nat,
     targets : SUBSET Tokens, result : Tokens \cup {NoToken}]

BackendTypeOK ==
    /\ token \in [Tokens -> TokenType]
    /\ user \in UserType
    /\ admin \in [Admins -> AdminType]
    /\ call \in [Calls -> CallType]
    /\ epoch \in Nat
    /\ raced \in BOOLEAN

BackendInit ==
    /\ token = [t \in Tokens |-> NoRow]
    /\ user = [active |-> TRUE, ver |-> 1]
    /\ admin = [a \in Admins |-> Idle]
    /\ call = [c \in Calls |-> NoCall]
    /\ epoch = 0
    /\ raced = FALSE

\* Rows inserted by a transaction that has not committed are invisible to the others,
\* so the next number is that of the next commit.
Unissued == Tokens \ Issued
Begun == {a \in Admins : admin[a].pc # "idle"}
WithinBudget == Cardinality(Issued) + Cardinality(Begun) < Budget
Next1 == CHOOSE t \in Unissued : \A u \in Unissued : t <= u

Revoke(S) == [t \in Tokens |->
    IF t \in S THEN [token[t] EXCEPT !.status = "dead"] ELSE token[t]]

-------------------------------------------------------------------------------
(* Calls *)

\* Mutant: the row is read without FOR UPDATE.
LockedUnread(t) == FALSE

\* The row of t is held by a transaction.
Locked(t) == \E c \in Calls : call[c].pc \in {"rotating", "revoking"} /\ call[c].token = t

\* The access token of a bundle passes get_current_principal until it expires.
Usable(t) ==
    /\ t \in Issued
    /\ user.active
    /\ user.ver = token[t].ver

Answer(c, t) == call' = [call EXCEPT ![c] = [NoCall EXCEPT !.pc = "answered", !.result = t]]

\* refresh: a token that was revoked or replaced takes its whole family with it.
RefreshReused(c) ==
    LET t == call[c].token
    IN  /\ call[c].pc = "sent"
        /\ ~Locked(t)
        /\ token[t].status = "dead"
        /\ call' = [call EXCEPT ![c].pc = "revoking", ![c].targets = Unrevoked \cap Family(t)]
        /\ UNCHANGED <<token, user, admin, epoch, raced>>

\* The end of that transaction, once nobody holds the rows it is to change.
RevokeFamily(c) ==
    /\ call[c].pc = "revoking"
    /\ \A t \in call[c].targets : ~Locked(t)
    /\ token' = Revoke(call[c].targets)
    /\ Answer(c, NoToken)
    /\ UNCHANGED <<user, admin, epoch, raced>>

\* refresh: an expired token, or a user who may not have one.  Nobody else can hold
\* the only other rows that are written, those of the token's own family.
RefreshDenied(c) ==
    LET t == call[c].token
    IN  /\ call[c].pc = "sent"
        /\ ~Locked(t)
        /\ \/ token[t].status = "expired"
           \/ token[t].status = "live" /\ ~user.active
        /\ token' = Revoke(IF token[t].status = "expired" THEN {t} ELSE Unrevoked \cap Family(t))
        /\ Answer(c, NoToken)
        /\ UNCHANGED <<user, admin, epoch, raced>>

\* Mutant: a token that was revoked, but not replaced, is exchanged.
RefreshStartsUnchecked(c) ==
    /\ call[c].pc = "sent"
    /\ ~Locked(call[c].token)
    /\ user.active
    /\ call' = [call EXCEPT ![c].pc = "rotating", ![c].ver = user.ver, ![c].since = epoch]
    /\ UNCHANGED <<token, user, admin, epoch, raced>>

\* refresh: the row is locked, the user read.
RefreshStarts(c) ==
    LET t == call[c].token
    IN  /\ call[c].pc = "sent"
        /\ ~Locked(t)
        /\ token[t].status = "live"
        /\ user.active
        /\ call' = [call EXCEPT ![c].pc = "rotating", ![c].ver = user.ver, ![c].since = epoch]
        /\ UNCHANGED <<token, user, admin, epoch, raced>>

\* refresh: the commit.
RefreshCommits(c) ==
    LET t == call[c].token
        n == Next1
    IN  /\ call[c].pc = "rotating"
        /\ Unissued # {} /\ WithinBudget
        /\ token' = [token EXCEPT
              ![t].status = "dead",
              ![n] = [status |-> "live", family |-> token[t].family, ver |-> call[c].ver,
                      since |-> call[c].since]]
        /\ Answer(c, n)
        /\ UNCHANGED <<user, admin, epoch, raced>>

\* login: the user is read, the password verified.
LoginStarts(c) ==
    /\ call[c].pc = "none"
    /\ user.active
    /\ call' = [call EXCEPT ![c] =
          [NoCall EXCEPT !.pc = "opening", !.ver = user.ver, !.since = epoch]]
    /\ UNCHANGED <<token, user, admin, epoch, raced>>

\* login: the commit opens a family.
LoginCommits(c) ==
    LET n == Next1
    IN  /\ call[c].pc = "opening"
        /\ Unissued # {} /\ WithinBudget
        /\ token' = [token EXCEPT ![n] =
              [status |-> "live", family |-> n, ver |-> call[c].ver,
               since |-> call[c].since]]
        /\ Answer(c, n)
        /\ UNCHANGED <<user, admin, epoch, raced>>

\* logout, one short transaction: a token that is revoked already is left alone, and
\* so is the token that replaced it.
Logout(t) ==
    /\ ~Locked(t)
    /\ token' = Revoke({t} \cap Unrevoked)
    /\ UNCHANGED <<user, admin, call, epoch, raced>>

\* REFRESH_TOKEN_TTL.
RefreshExpires(t) ==
    /\ token[t].status = "live"
    /\ ~Locked(t)
    /\ token' = [token EXCEPT ![t].status = "expired"]
    /\ UNCHANGED <<user, admin, call, epoch, raced>>

-------------------------------------------------------------------------------
(* admin_cli *)

\* get_user, without a lock; reset-password then waits for the new password.
AdminReads(a, kind) ==
    /\ admin[a].pc = "idle"
    /\ WithinBudget
    /\ admin' = [admin EXCEPT ![a] =
          [pc |-> "decided", kind |-> kind, seen |-> user, targets |-> {}]]
    /\ raced' = (raced \/ \E b \in Admins \ {a} : admin[b].pc \in {"decided", "updating"})
    /\ UNCHANGED <<token, user, call, epoch>>

\* The flush locks the user row, and _revoke_user_tokens picks its rows.
AdminUpdates(a) ==
    /\ admin[a].pc = "decided"
    /\ \A b \in Admins : admin[b].pc # "updating"
    /\ admin' = [admin EXCEPT ![a].pc = "updating",
                              ![a].targets = IF admin[a].kind = "enable" THEN {} ELSE Unrevoked]
    /\ UNCHANGED <<token, user, call, epoch, raced>>

\* Mutant: revoke-tokens leaves auth_version alone.
BumpedUnlessRevoked(a) == admin[a].seen.ver + (IF admin[a].kind = "revoke" THEN 0 ELSE 1)

\* auth_version += 1 on the value that was read.
Bumped(a) == admin[a].seen.ver + 1

\* is_active is written only where it differs from the value that was read.
Activity(a) ==
    LET wanted == CASE admin[a].kind = "disable" -> FALSE
                    [] admin[a].kind = "enable" -> TRUE
                    [] admin[a].kind = "revoke" -> admin[a].seen.active
    IN  IF wanted = admin[a].seen.active THEN user.active ELSE wanted

AdminCommits(a) ==
    /\ admin[a].pc = "updating"
    /\ \A t \in admin[a].targets : ~Locked(t)
    /\ token' = Revoke(admin[a].targets)
    /\ user' = [active |-> Activity(a), ver |-> Bumped(a)]
    /\ epoch' = epoch + 1
    /\ admin' = [admin EXCEPT ![a] = [Idle EXCEPT !.pc = "done"]]
    /\ UNCHANGED <<call, raced>>

-------------------------------------------------------------------------------

Transaction(c) ==
    \/ RefreshReused(c) \/ RevokeFamily(c) \/ RefreshDenied(c)
    \/ RefreshStarts(c) \/ RefreshCommits(c) \/ LoginCommits(c)

Administration ==
    \E a \in Admins :
        \/ \E kind \in {"revoke", "disable", "enable"} : AdminReads(a, kind)
        \/ AdminUpdates(a)
        \/ AdminCommits(a)

TimePasses == \E t \in Tokens : RefreshExpires(t)

-------------------------------------------------------------------------------
(* Properties *)

\* A family has at most one token that can be exchanged: of two requests with the same
\* token the second waits for the row and then finds it replaced.
OneLiveToken ==
    \A t, u \in Issued :
        /\ token[t].status = "live"
        /\ token[u].status = "live"
        /\ token[t].family = token[u].family
        => t = u

\* When every API request rechecks the user, an access token issued before the last
\* command is refused, unless two commands read the version at the same time.
AccessEndsWithCommand ==
    ~raced => \A t \in Tokens : Usable(t) => token[t].since = epoch

SessionOf(f) ==
    IF token[f].status = "none" \/ token[f].family # f THEN "new"
    ELSE IF \E t \in Family(f) : token[t].status = "live" THEN "open"
    ELSE "closed"

LiveToken(f) ==
    IF SessionOf(f) = "open" THEN CHOOSE t \in Family(f) : token[t].status = "live" ELSE NoToken

Abstract == INSTANCE Sessions WITH
    Families <- Tokens,
    session <- [f \in Tokens |-> SessionOf(f)],
    current <- [f \in Tokens |-> LiveToken(f)],
    spent <- Issued

\* Whatever calls and commands overlap, a closed session stays closed, its tokens are
\* current once, and only the current one is exchanged.
ImplementsSessions == Abstract!Spec
================================================================================
