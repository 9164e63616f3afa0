----------------------------- MODULE GatewayProofs -----------------------------
(***************************************************************************)
(* What the refresh tokens promise whatever calls, commands and requests   *)
(* overlap: one exchangeable token per session, access tokens that end     *)
(* with the next command, and the implementation of Sessions; and what the *)
(* gateway adds, as long as no bundle was lost with a timeout, a response, *)
(* a restart or an entry of rotated that somebody still needed: no reuse   *)
(* is ever detected in an open session, and the cookie of the browser      *)
(* leads to the session's live token.                                      *)
(***************************************************************************)
EXTENDS Gateway, DataLemmas

-------------------------------------------------------------------------------
(* The inductive invariant of the backend *)

Bundles == Issued \cup {NoToken}
Underway == {"sent", "rotating", "revoking"}
Locking == {"rotating", "revoking"}

\* Tokens are numbered in the order of their commits, and a family is named after its first.
RowsLinked ==
    /\ \A t \in Issued :
          /\ token[t].family \in Issued
          /\ token[token[t].family].family = token[t].family
    /\ \A t \in Issued, u \in Tokens : u < t => u \in Issued

\* A token that was replaced is revoked in the same transaction.
OneUnrevoked ==
    \A t, u \in Unrevoked : token[t].family = token[u].family => t = u

\* What a transaction has read still holds for the rows it has locked.
CallsSound ==
    \A c \in Calls :
        /\ call[c].pc \in Underway => call[c].token \in Issued
        /\ call[c].pc = "rotating" => token[call[c].token].status = "live"
        /\ call[c].pc = "revoking" => token[call[c].token].status = "dead"
        /\ call[c].pc = "revoking" =>
              \A u \in call[c].targets : token[u].family = token[call[c].token].family
        /\ call[c].targets \subseteq Issued
        /\ call[c].result \in Bundles

LocksExclusive ==
    \A c, d \in Calls :
        (/\ call[c].pc \in Locking
         /\ call[d].pc \in Locking
         /\ call[c].token = call[d].token)
        => c = d

CommandsSound == \A a \in Admins : admin[a].targets \subseteq Issued

\* As long as no two commands overlap, auth_version counts them.
VersionsCount ==
    ~raced =>
        /\ user.ver = epoch + 1
        /\ \A t \in Issued : token[t].ver = token[t].since + 1
        /\ \A c \in Calls : call[c].pc \in {"rotating", "opening"} =>
              call[c].ver = call[c].since + 1
        /\ \A a \in Admins : admin[a].pc \in {"decided", "updating"} =>
              /\ admin[a].seen.ver = user.ver
              /\ \A b \in Admins \ {a} : admin[b].pc \notin {"decided", "updating"}

BackendInv ==
    /\ BackendTypeOK
    /\ RowsLinked
    /\ OneUnrevoked
    /\ CallsSound
    /\ LocksExclusive
    /\ CommandsSound
    /\ VersionsCount

-------------------------------------------------------------------------------
(* Operators *)

\* A commit takes the least number that nobody has, whatever has been issued.
LEMMA NextToken ==
    ASSUME Unissued # {}
    PROVE  /\ Next1 \in Unissued
           /\ \A t \in Tokens : t < Next1 => t \in Issued
<1>1. Unissued \subseteq Nat
  BY RefreshTokensAssumption DEF Unissued, Tokens
<1>2. Next1 \in Unissued /\ \A u \in Unissued : Next1 <= u
  BY <1>1, LeastNumber DEF Next1
<1>3. ASSUME NEW t \in Tokens, t < Next1, t \notin Issued PROVE FALSE
  <2>1. t \in Unissued
    BY <1>3 DEF Unissued
  <2> QED
    BY <1>1, <1>2, <1>3, <2>1
<1> QED
  BY <1>2, <1>3

\* NoToken is no token.
LEMMA NoTokenOutside == NoToken \notin Tokens /\ Tokens \subseteq Nat /\ Issued \subseteq Tokens
  BY RefreshTokensAssumption DEF NoToken, Tokens, Issued

\* The invariant of the backend holds before anything is issued.
LEMMA BackendInvInit == BackendInit => BackendInv
<1> SUFFICES ASSUME BackendInit PROVE BackendInv
  OBVIOUS
<1>1. Issued = {} /\ Unrevoked = {}
  BY DEF BackendInit, Issued, Unrevoked, NoRow
<1>2. BackendTypeOK
  BY DEF BackendInit, BackendTypeOK, TokenType, UserType, AdminType, CallType, NoRow, Idle, NoCall
<1>3. RowsLinked /\ OneUnrevoked
  BY <1>1 DEF RowsLinked, OneUnrevoked
<1>4. CallsSound /\ LocksExclusive
  BY <1>1 DEF BackendInit, CallsSound, LocksExclusive, Underway, Locking, Bundles, NoCall
<1>5. CommandsSound /\ VersionsCount
  BY <1>1 DEF BackendInit, CommandsSound, VersionsCount, Idle, NoCall
<1> QED
  BY <1>2, <1>3, <1>4, <1>5 DEF BackendInv

-------------------------------------------------------------------------------
(* Steps of one call that leave the tokens alone *)

\* Such a step keeps the invariant when what the call now says of the tokens is true.
LEMMA CallStep ==
    ASSUME BackendInv, NEW c \in Calls, NEW new \in CallType,
           call' = [call EXCEPT ![c] = new],
           UNCHANGED <<token, user, admin, epoch, raced>>,
           new.pc \in Underway => new.token \in Issued,
           new.pc = "rotating" => token[new.token].status = "live",
           new.pc = "revoking" =>
              /\ token[new.token].status = "dead"
              /\ \A u \in new.targets : token[u].family = token[new.token].family,
           new.targets \subseteq Issued,
           new.result \in Bundles,
           new.pc \in Locking => ~ \E d \in Calls \ {c} :
                                     call[d].pc \in Locking /\ call[d].token = new.token,
           new.pc \in {"rotating", "opening"} =>
              \/ new.ver = user.ver /\ new.since = epoch
              \/ call[c].pc = new.pc /\ call[c].ver = new.ver /\ call[c].since = new.since
    PROVE  BackendInv'
<1> USE DEF BackendInv
<1>1. BackendTypeOK'
  BY DEF BackendTypeOK
<1>2. call'[c] = new /\ \A d \in Calls \ {c} : call'[d] = call[d]
  BY DEF BackendTypeOK
<1>3. Issued' = Issued /\ Unrevoked' = Unrevoked /\ Bundles' = Bundles
  BY DEF Issued, Unrevoked, Bundles
<1>5. RowsLinked' /\ OneUnrevoked'
  BY <1>3 DEF RowsLinked, OneUnrevoked
<1>6. CallsSound'
  BY <1>2, <1>3 DEF CallsSound
<1>7. LocksExclusive'
  BY <1>2 DEF LocksExclusive
<1>8. CommandsSound'
  BY <1>3 DEF CommandsSound
<1>9. VersionsCount'
  BY <1>2, <1>3 DEF VersionsCount
<1> QED
  BY <1>1, <1>5, <1>6, <1>7, <1>8, <1>9

-------------------------------------------------------------------------------
(* Steps that end tokens *)

\* The rows of S take the status s.
RowsEnd(S, s) ==
    /\ token' \in [Tokens -> TokenType]
    /\ \A t \in Tokens : /\ token'[t].family = token[t].family
                         /\ token'[t].ver = token[t].ver
                         /\ token'[t].since = token[t].since
    /\ \A t \in Tokens \ S : token'[t].status = token[t].status
    /\ \A t \in S : token'[t].status = s

\* Rows that nobody holds are revoked or expire; a call may end with it.
LEMMA TokensEnd ==
    ASSUME BackendInv, NEW S \in SUBSET Issued, NEW s \in {"expired", "dead"},
           RowsEnd(S, s),
           \A t \in S : ~Locked(t),
           s = "expired" => \A t \in S : token[t].status = "live",
           call' \in [Calls -> CallType],
           \A c \in Calls :
              \/ call'[c] = call[c]
              \/ /\ call'[c].pc = "answered"
                 /\ call'[c].targets = {}
                 /\ call'[c].result = NoToken
    PROVE  /\ Issued' = Issued
           /\ RowsLinked' /\ OneUnrevoked' /\ CallsSound' /\ LocksExclusive'
<1> USE DEF BackendInv
<1>1. /\ \A t \in Tokens : /\ token'[t].family = token[t].family
                           /\ token'[t].ver = token[t].ver
                           /\ token'[t].since = token[t].since
      /\ \A t \in Tokens \ S : token'[t].status = token[t].status
      /\ \A t \in S : token'[t].status = s
  BY DEF RowsEnd
<1>2. Issued' = Issued
  BY <1>1, NoTokenOutside, ZenonT(60) DEF Issued
<1>3. Unrevoked' \subseteq Unrevoked
  BY <1>1, <1>2 DEF Unrevoked, Issued
<1>4. RowsLinked'
  <2>1. ASSUME NEW t \in Issued
        PROVE  token'[t].family \in Issued /\ token'[token'[t].family].family = token'[t].family
    <3>1. /\ t \in Tokens
          /\ token[t].family \in Issued /\ token[t].family \in Tokens
          /\ token[token[t].family].family = token[t].family
      BY NoTokenOutside DEF RowsLinked
    <3> QED
      BY <1>1, <3>1
  <2>2. \A t \in Issued, u \in Tokens : u < t => u \in Issued
    BY DEF RowsLinked
  <2> QED
    BY <1>2, <2>1, <2>2 DEF RowsLinked
<1>5. OneUnrevoked'
  BY <1>1, <1>2, <1>3, NoTokenOutside DEF OneUnrevoked, Unrevoked
<1>6. CallsSound'
  <2> SUFFICES ASSUME NEW c \in Calls
               PROVE  /\ call'[c].pc \in Underway => call'[c].token \in Issued'
                      /\ call'[c].pc = "rotating" => token'[call'[c].token].status = "live"
                      /\ call'[c].pc = "revoking" =>
                            /\ token'[call'[c].token].status = "dead"
                            /\ \A u \in call'[c].targets :
                                  token'[u].family = token'[call'[c].token].family
                      /\ call'[c].targets \subseteq Issued'
                      /\ call'[c].result \in Bundles'
    BY DEF CallsSound
  <2>1. CASE call'[c] = call[c]
    <3>1. call[c].pc \in Locking => Locked(call[c].token)
      BY DEF Locked, Locking
    <3>2. call[c].pc \in Locking =>
             /\ call[c].token \in Issued \ S
             /\ token'[call[c].token].status = token[call[c].token].status
      BY <1>1, <3>1, NoTokenOutside DEF CallsSound, Locking, Underway
    <3>3. \A u \in call[c].targets : token'[u].family = token[u].family
      BY <1>1, NoTokenOutside DEF CallsSound
    <3>4. call[c].token \in Tokens => token'[call[c].token].family = token[call[c].token].family
      BY <1>1
    <3> QED
      BY <1>2, <2>1, <3>2, <3>3, <3>4, NoTokenOutside DEF CallsSound, Locking, Bundles
  <2>2. CASE /\ call'[c].pc = "answered"
             /\ call'[c].targets = {}
             /\ call'[c].result = NoToken
    BY <2>2 DEF Underway, Bundles
  <2> QED
    BY <2>1, <2>2
<1>7. LocksExclusive'
  BY DEF LocksExclusive, Locking
<1> QED
  BY <1>2, <1>4, <1>5, <1>6, <1>7

\* An UPDATE that revokes rows ends exactly those.
LEMMA RevokeEnds ==
    ASSUME BackendInv, NEW S \in SUBSET Issued, token' = Revoke(S)
    PROVE  RowsEnd(S, "dead")
<1>1. token \in [Tokens -> TokenType] /\ S \subseteq Tokens
  BY NoTokenOutside DEF BackendInv, BackendTypeOK
<1> QED
  BY <1>1 DEF Revoke, RowsEnd, TokenType

-------------------------------------------------------------------------------
(* Steps that issue a token *)

\* Row n is inserted by call c, in the family of old if there is one, which is replaced.
RowInserted(c, n, old) ==
    /\ token' \in [Tokens -> TokenType]
    /\ token'[n].status = "live"
    /\ token'[n].family = (IF old = NoToken THEN n ELSE token[old].family)
    /\ token'[n].ver = call[c].ver
    /\ token'[n].since = call[c].since
    /\ \A t \in Tokens \ {n} : /\ token'[t].family = token[t].family
                               /\ token'[t].ver = token[t].ver
                               /\ token'[t].since = token[t].since
    /\ \A t \in Tokens \ {n, old} : token'[t].status = token[t].status
    /\ old # NoToken => token'[old].status = "dead"

\* A commit inserts the next row, of a family of its own or of that of the live token
\* it replaces.
LEMMA TokenIssued ==
    ASSUME BackendInv, NEW c \in Calls, NEW n \in Unissued, NEW old \in Bundles,
           n = Next1,
           IF old = NoToken THEN call[c].pc = "opening"
                            ELSE call[c].pc = "rotating" /\ call[c].token = old,
           RowInserted(c, n, old),
           call' = [call EXCEPT ![c] = [NoCall EXCEPT !.pc = "answered", !.result = n]],
           UNCHANGED <<user, admin, epoch, raced>>
    PROVE  /\ BackendInv'
           /\ Issued' = Issued \cup {n}
           /\ old # NoToken => token[old].status = "live"
<1> USE DEF BackendInv
<1>1. token \in [Tokens -> TokenType] /\ call \in [Calls -> CallType]
  BY DEF BackendTypeOK
<1>2. n \in Tokens \ Issued /\ \A t \in Tokens : t < n => t \in Issued
  BY NextToken DEF Unissued
<1>3. old # NoToken => old \in Issued /\ token[old].status = "live"
  BY DEF Bundles, CallsSound
<1>4. /\ token'[n].status = "live"
      /\ token'[n].family = (IF old = NoToken THEN n ELSE token[old].family)
      /\ token'[n].ver = call[c].ver /\ token'[n].since = call[c].since
  BY DEF RowInserted
<1>5. /\ \A t \in Tokens \ {n, old} : token'[t].status = token[t].status
      /\ old # NoToken => token'[old].status = "dead"
  BY DEF RowInserted
<1>6. \A t \in Issued : /\ token'[t].family = token[t].family
                        /\ token'[t].ver = token[t].ver
                        /\ token'[t].since = token[t].since
  BY <1>2, NoTokenOutside DEF RowInserted
<1>7. Issued' = Issued \cup {n}
  BY <1>2, <1>3, <1>4, <1>5, NoTokenOutside DEF Issued
<1>8. /\ call'[c].pc = "answered" /\ call'[c].targets = {} /\ call'[c].result = n
      /\ \A d \in Calls \ {c} : call'[d] = call[d]
  BY <1>1 DEF NoCall
<1>9. BackendTypeOK'
  <2>1. call' \in [Calls -> CallType]
    BY <1>1, <1>2 DEF CallType, NoCall
  <2> QED
    BY <2>1 DEF BackendTypeOK, RowInserted
<1>10. RowsLinked'
  <2>1. ASSUME NEW t \in Issued'
        PROVE  token'[t].family \in Issued' /\ token'[token'[t].family].family = token'[t].family
    <3>1. CASE t = n /\ old = NoToken
      BY <1>4, <1>7, <3>1
    <3>2. CASE t = n /\ old # NoToken
      BY <1>3, <1>4, <1>6, <1>7, <3>2 DEF RowsLinked
    <3>3. CASE t # n
      BY <1>6, <1>7, <3>3 DEF RowsLinked
    <3> QED
      BY <3>1, <3>2, <3>3
  <2>2. \A t \in Issued', u \in Tokens : u < t => u \in Issued'
    BY <1>2, <1>7 DEF RowsLinked
  <2> QED
    BY <2>1, <2>2 DEF RowsLinked
<1>11. OneUnrevoked'
  <2> SUFFICES ASSUME NEW t \in Unrevoked', NEW u \in Unrevoked',
                      token'[t].family = token'[u].family
               PROVE  t = u
    BY DEF OneUnrevoked
  <2>1. ASSUME NEW v \in Unrevoked', v # n
        PROVE  v \in Unrevoked /\ v # old
    BY <1>3, <1>5, <1>7, <2>1, NoTokenOutside DEF Unrevoked
  <2>2. ASSUME NEW v \in Unrevoked, v # old
        PROVE  token[v].family # token'[n].family
    BY <1>2, <1>3, <1>4, <2>2 DEF OneUnrevoked, Unrevoked, RowsLinked
  <2> QED
    BY <1>6, <2>1, <2>2 DEF OneUnrevoked, Unrevoked
<1>12. LocksExclusive'
  BY <1>8 DEF LocksExclusive, Locking
<1>13. CallsSound'
  <2>1. ASSUME NEW d \in Calls, d # c
        PROVE  /\ call[d].pc \in Underway => call[d].token \in Issued'
               /\ call[d].pc = "rotating" => token'[call[d].token].status = "live"
               /\ call[d].pc = "revoking" =>
                     /\ token'[call[d].token].status = "dead"
                     /\ \A u \in call[d].targets :
                           token'[u].family = token'[call[d].token].family
               /\ call[d].targets \subseteq Issued'
               /\ call[d].result \in Bundles'
    <3>1. call[d].pc \in Locking => call[d].token \in Issued \ {old}
      BY <2>1, NoTokenOutside DEF LocksExclusive, CallsSound, Locking, Underway
    <3>2. call[d].pc \in Locking =>
             token'[call[d].token].status = token[call[d].token].status
      BY <1>2, <1>5, <3>1, NoTokenOutside
    <3> QED
      BY <1>6, <1>7, <3>1, <3>2 DEF CallsSound, Bundles, Locking
  <2>2. ASSUME NEW d \in Calls
        PROVE  /\ call'[d].pc \in Underway => call'[d].token \in Issued'
               /\ call'[d].pc = "rotating" => token'[call'[d].token].status = "live"
               /\ call'[d].pc = "revoking" => token'[call'[d].token].status = "dead"
               /\ call'[d].pc = "revoking" =>
                     \A u \in call'[d].targets :
                        token'[u].family = token'[call'[d].token].family
               /\ call'[d].targets \subseteq Issued'
               /\ call'[d].result \in Bundles'
    <3>1. CASE d = c
      BY <1>7, <1>8, <3>1 DEF Bundles, Underway
    <3>2. CASE d # c
      BY <1>8, <2>1, <3>2
    <3> QED
      BY <3>1, <3>2
  <2> QED
    BY <2>2 DEF CallsSound
<1>14. CommandsSound'
  BY <1>7 DEF CommandsSound
<1>15. VersionsCount'
  BY <1>4, <1>6, <1>7, <1>8 DEF VersionsCount
<1> QED
  BY <1>3, <1>7, <1>9, <1>10, <1>11, <1>12, <1>13, <1>14, <1>15

-------------------------------------------------------------------------------
(* The transactions of AuthService *)

\* A reuse fixes the rows it will revoke, all of one family.
LEMMA RefreshReusedInv ==
    ASSUME BackendInv, NEW c \in Calls, RefreshReused(c) PROVE BackendInv'
<1> DEFINE t == call[c].token
           new == [call[c] EXCEPT !.pc = "revoking", !.targets = Unrevoked \cap Family(t)]
<1>1. call[c] \in CallType /\ t \in Issued /\ call[c].result \in Bundles
  BY DEF BackendInv, BackendTypeOK, RefreshReused, CallsSound, Underway
<1>2. Unrevoked \cap Family(t) \subseteq Issued /\ Issued \subseteq Tokens
  BY NoTokenOutside DEF Unrevoked
<1>3. /\ new \in CallType
      /\ new.pc = "revoking" /\ new.token = t /\ new.targets = Unrevoked \cap Family(t)
      /\ new.result = call[c].result
  BY <1>1, <1>2 DEF CallType
<1>4. call' = [call EXCEPT ![c] = new]
  BY <1>1 DEF RefreshReused, BackendInv, BackendTypeOK, CallType
<1>5. \A u \in new.targets : token[u].family = token[t].family
  BY <1>3 DEF Family
<1>6. ~ \E d \in Calls \ {c} : call[d].pc \in Locking /\ call[d].token = t
  BY DEF RefreshReused, Locked, Locking
<1>7. token[t].status = "dead" /\ UNCHANGED <<token, user, admin, epoch, raced>>
  BY DEF RefreshReused
<1> HIDE DEF new, t
<1> QED
  BY <1>1, <1>2, <1>3, <1>4, <1>5, <1>6, <1>7, CallStep

\* A refresh locks a live row that nobody else holds.
LEMMA RefreshStartsInv ==
    ASSUME BackendInv, NEW c \in Calls, RefreshStarts(c) PROVE BackendInv'
<1> DEFINE new == [call[c] EXCEPT !.pc = "rotating", !.ver = user.ver, !.since = epoch]
<1>1. /\ call[c] \in CallType /\ user.ver \in Nat /\ epoch \in Nat
      /\ call[c].token \in Issued /\ call[c].result \in Bundles /\ call[c].targets \subseteq Issued
  BY DEF BackendInv, BackendTypeOK, UserType, RefreshStarts, CallsSound, Underway
<1>2. /\ new \in CallType
      /\ new.pc = "rotating" /\ new.token = call[c].token /\ new.targets = call[c].targets
      /\ new.result = call[c].result /\ new.ver = user.ver /\ new.since = epoch
  BY <1>1 DEF CallType
<1>3. call' = [call EXCEPT ![c] = new]
  BY DEF RefreshStarts
<1>4. ~ \E d \in Calls \ {c} : call[d].pc \in Locking /\ call[d].token = call[c].token
  BY DEF RefreshStarts, Locked, Locking
<1>5. token[call[c].token].status = "live" /\ UNCHANGED <<token, user, admin, epoch, raced>>
  BY DEF RefreshStarts
<1> HIDE DEF new
<1> QED
  BY <1>1, <1>2, <1>3, <1>4, <1>5, CallStep

\* A login reads the version of the user.
LEMMA LoginStartsInv ==
    ASSUME BackendInv, NEW c \in Calls, LoginStarts(c) PROVE BackendInv'
<1> DEFINE new == [NoCall EXCEPT !.pc = "opening", !.ver = user.ver, !.since = epoch]
<1>1. user.ver \in Nat /\ epoch \in Nat
  BY DEF BackendInv, BackendTypeOK, UserType
<1>2. /\ new \in CallType
      /\ new.pc = "opening" /\ new.targets = {} /\ new.result = NoToken
      /\ new.ver = user.ver /\ new.since = epoch
  BY <1>1 DEF CallType, NoCall
<1>3. call' = [call EXCEPT ![c] = new] /\ UNCHANGED <<token, user, admin, epoch, raced>>
  BY DEF LoginStarts
<1>4. new.pc \notin Underway /\ new.pc \notin Locking /\ new.result \in Bundles
  BY <1>2 DEF Underway, Locking, Bundles
<1> HIDE DEF new
<1> QED
  BY <1>2, <1>3, <1>4, CallStep

\* The gateway hears the answer, or gives the call up before it began.
LEMMA CallDoneInv ==
    ASSUME BackendInv, NEW c \in Calls, call' = [call EXCEPT ![c] = NoCall],
           UNCHANGED <<token, user, admin, epoch, raced>>
    PROVE  BackendInv'
<1>1. /\ NoCall \in CallType /\ NoCall.pc = "none"
      /\ NoCall.targets = {} /\ NoCall.result = NoToken
  BY DEF CallType, NoCall
<1>2. NoCall.pc \notin Underway /\ NoCall.pc \notin Locking /\ NoCall.result \in Bundles
  BY <1>1 DEF Underway, Locking, Bundles
<1> HIDE DEF NoCall
<1> QED
  BY <1>1, <1>2, CallStep

\* The gateway presents a bundle that it has.
LEMMA CallSentInv ==
    ASSUME BackendInv, NEW c \in Calls, NEW t \in Issued,
           call' = [call EXCEPT ![c] = [NoCall EXCEPT !.pc = "sent", !.token = t]],
           UNCHANGED <<token, user, admin, epoch, raced>>
    PROVE  BackendInv'
<1> DEFINE new == [NoCall EXCEPT !.pc = "sent", !.token = t]
<1>1. /\ new \in CallType /\ new.pc = "sent" /\ new.token = t
      /\ new.targets = {} /\ new.result = NoToken
  BY NoTokenOutside DEF CallType, NoCall
<1>2. new.pc \notin Locking /\ new.result \in Bundles
  BY <1>1 DEF Locking, Bundles
<1>3. call' = [call EXCEPT ![c] = new]
  OBVIOUS
<1> HIDE DEF new
<1> QED
  BY <1>1, <1>2, <1>3, CallStep

\* A refresh replaces a live token by the next one, in the same family.
LEMMA RefreshCommitsInv ==
    ASSUME BackendInv, NEW c \in Calls, RefreshCommits(c)
    PROVE  /\ BackendInv'
           /\ call[c].token \in Issued
           /\ token[call[c].token].status = "live"
           /\ Next1 \in Tokens \ Issued
           /\ RowInserted(c, Next1, call[c].token)
           /\ Issued' = Issued \cup {Next1}
<1> DEFINE t == call[c].token
           n == Next1
<1>1. t \in Issued /\ t \in Bundles /\ t # NoToken /\ token[t].family \in Tokens
  BY NoTokenOutside
     DEF RefreshCommits, BackendInv, CallsSound, RowsLinked, Underway, Bundles
<1>2. n \in Tokens \ Issued /\ n \in Unissued
  BY NextToken DEF RefreshCommits, Unissued
<1>3. RowInserted(c, n, t)
  <2>1. token \in [Tokens -> TokenType] /\ call[c].ver \in Nat /\ call[c].since \in Nat
    BY DEF BackendInv, BackendTypeOK, CallType
  <2>2. token' = [token EXCEPT
              ![t].status = "dead",
              ![n] = [status |-> "live", family |-> token[t].family, ver |-> call[c].ver,
                      since |-> call[c].since]]
    BY DEF RefreshCommits
  <2> HIDE DEF t, n
  <2> QED
    BY <1>1, <1>2, <2>1, <2>2, NoTokenOutside DEF RowInserted, TokenType
<1>4. /\ call' = [call EXCEPT ![c] = [NoCall EXCEPT !.pc = "answered", !.result = n]]
      /\ UNCHANGED <<user, admin, epoch, raced>>
  BY DEF RefreshCommits, Answer
<1>5. /\ n = Next1
      /\ IF t = NoToken THEN call[c].pc = "opening"
                        ELSE call[c].pc = "rotating" /\ call[c].token = t
  BY <1>1 DEF RefreshCommits
<1> HIDE DEF n, t
<1>6. BackendInv' /\ Issued' = Issued \cup {n} /\ token[t].status = "live"
  BY <1>1, <1>2, <1>3, <1>4, <1>5, TokenIssued
<1> QED
  BY <1>1, <1>2, <1>3, <1>6 DEF n, t

\* A login opens a family with the next token.
LEMMA LoginCommitsInv ==
    ASSUME BackendInv, NEW c \in Calls, LoginCommits(c)
    PROVE  /\ BackendInv'
           /\ Next1 \in Tokens \ Issued
           /\ RowInserted(c, Next1, NoToken)
           /\ Issued' = Issued \cup {Next1}
<1> DEFINE n == Next1
           none == NoToken
<1>1. n \in Tokens \ Issued /\ n \in Unissued
  BY NextToken DEF LoginCommits, Unissued
<1>2. RowInserted(c, n, none)
  <2>1. token \in [Tokens -> TokenType] /\ call[c].ver \in Nat /\ call[c].since \in Nat
    BY DEF BackendInv, BackendTypeOK, CallType
  <2>2. token' = [token EXCEPT
              ![n] = [status |-> "live", family |-> n, ver |-> call[c].ver,
                      since |-> call[c].since]]
    BY DEF LoginCommits
  <2> HIDE DEF n
  <2> QED
    BY <1>1, <2>1, <2>2, NoTokenOutside DEF RowInserted, TokenType
<1>3. /\ call' = [call EXCEPT ![c] = [NoCall EXCEPT !.pc = "answered", !.result = n]]
      /\ UNCHANGED <<user, admin, epoch, raced>>
  BY DEF LoginCommits, Answer
<1>4. /\ n = Next1 /\ none \in Bundles
      /\ IF none = NoToken THEN call[c].pc = "opening"
                           ELSE call[c].pc = "rotating" /\ call[c].token = none
  BY DEF LoginCommits, Bundles
<1> HIDE DEF n, none
<1>5. BackendInv' /\ Issued' = Issued \cup {n}
  BY <1>1, <1>2, <1>3, <1>4, TokenIssued
<1> QED
  BY <1>1, <1>2, <1>5 DEF n, none

\* The end of a refresh that revokes rows: they fall, and the call is answered.
LEMMA RevokingCallInv ==
    ASSUME BackendInv, NEW c \in Calls, NEW S \in SUBSET Issued,
           token' = Revoke(S), \A t \in S : ~Locked(t),
           Answer(c, NoToken), UNCHANGED <<user, admin, epoch, raced>>
    PROVE  BackendInv' /\ RowsEnd(S, "dead") /\ Issued' = Issued
<1>1. RowsEnd(S, "dead")
  BY RevokeEnds
<1>2. /\ call \in [Calls -> CallType]
      /\ call' = [call EXCEPT ![c] = [NoCall EXCEPT !.pc = "answered", !.result = NoToken]]
  BY DEF Answer, BackendInv, BackendTypeOK
<1>3. /\ call'[c].pc = "answered" /\ call'[c].targets = {} /\ call'[c].result = NoToken
      /\ \A d \in Calls \ {c} : call'[d] = call[d]
  BY <1>2 DEF NoCall
<1>4. call' \in [Calls -> CallType]
  BY <1>2 DEF CallType, NoCall
<1>5. /\ Issued' = Issued
      /\ RowsLinked' /\ OneUnrevoked' /\ CallsSound' /\ LocksExclusive'
  BY <1>1, <1>3, <1>4, TokensEnd
<1>6. BackendTypeOK'
  BY <1>1, <1>4 DEF BackendInv, BackendTypeOK, RowsEnd
<1>7. CommandsSound'
  BY <1>5 DEF BackendInv, CommandsSound
<1>8. VersionsCount'
  BY <1>1, <1>3, <1>5, NoTokenOutside DEF BackendInv, VersionsCount, RowsEnd
<1> QED
  BY <1>1, <1>5, <1>6, <1>7, <1>8 DEF BackendInv

\* The second half of a reuse: the family falls.
LEMMA RevokeFamilyInv ==
    ASSUME BackendInv, NEW c \in Calls, RevokeFamily(c)
    PROVE  BackendInv' /\ RowsEnd(call[c].targets, "dead") /\ Issued' = Issued
  BY RevokingCallInv DEF RevokeFamily, BackendInv, CallsSound

\* The rows of a family that a denied refresh revokes are its token and no other.
LEMMA RefreshDeniedInv ==
    ASSUME BackendInv, NEW c \in Calls, RefreshDenied(c)
    PROVE  /\ BackendInv' /\ Issued' = Issued
           /\ call[c].token \in Unrevoked
           /\ RowsEnd({call[c].token}, "dead")
<1> DEFINE t == call[c].token
<1>1. t \in Unrevoked /\ t \in Issued
  BY DEF RefreshDenied, BackendInv, CallsSound, Underway, Unrevoked
<1>2. Unrevoked \cap Family(t) = {t}
  BY <1>1 DEF BackendInv, OneUnrevoked, Unrevoked, Family
<1>3. token' = Revoke({t}) /\ ~Locked(t)
  BY <1>2 DEF RefreshDenied
<1>4. Answer(c, NoToken) /\ UNCHANGED <<user, admin, epoch, raced>>
  BY DEF RefreshDenied
<1> HIDE DEF t
<1> QED
  BY <1>1, <1>3, <1>4, RevokingCallInv DEF t

\* Every transaction of a login or a refresh keeps the invariant.
LEMMA TransactionInv ==
    ASSUME BackendInv, NEW c \in Calls, Transaction(c) PROVE BackendInv'
  BY RefreshReusedInv, RevokeFamilyInv, RefreshDeniedInv, RefreshStartsInv,
     RefreshCommitsInv, LoginCommitsInv DEF Transaction

\* Rows fall while no call moves.
LEMMA QuietEndInv ==
    ASSUME BackendInv, NEW S \in SUBSET Issued, NEW s \in {"expired", "dead"}, RowsEnd(S, s),
           \A t \in S : ~Locked(t),
           s = "expired" => \A t \in S : token[t].status = "live",
           UNCHANGED <<user, admin, call, epoch, raced>>
    PROVE  BackendInv' /\ Issued' = Issued
<1>1. call \in [Calls -> CallType] /\ call' = call
  BY DEF BackendInv, BackendTypeOK
<1>2. /\ Issued' = Issued
      /\ RowsLinked' /\ OneUnrevoked' /\ CallsSound' /\ LocksExclusive'
  BY <1>1, TokensEnd
<1>3. BackendTypeOK'
  BY DEF BackendInv, BackendTypeOK, RowsEnd
<1>4. CommandsSound'
  BY <1>2 DEF BackendInv, CommandsSound
<1>5. VersionsCount'
  BY <1>1, <1>2, NoTokenOutside DEF BackendInv, VersionsCount, RowsEnd
<1> QED
  BY <1>2, <1>3, <1>4, <1>5 DEF BackendInv

\* A logout revokes at most the one token it presents.
LEMMA LogoutInv ==
    ASSUME BackendInv, NEW t, Logout(t)
    PROVE  BackendInv' /\ Issued' = Issued /\ RowsEnd({t} \cap Unrevoked, "dead")
<1>1. {t} \cap Unrevoked \in SUBSET Issued
  BY DEF Unrevoked
<1>2. RowsEnd({t} \cap Unrevoked, "dead")
  BY <1>1, RevokeEnds DEF Logout
<1>3. \A u \in {t} \cap Unrevoked : ~Locked(u)
  BY DEF Logout
<1> QED
  BY <1>1, <1>2, <1>3, QuietEndInv DEF Logout

\* Time ends a live token that nobody holds.
LEMMA RefreshExpiresInv ==
    ASSUME BackendInv, NEW t \in Tokens, RefreshExpires(t)
    PROVE  BackendInv' /\ Issued' = Issued /\ RowsEnd({t}, "expired")
<1>1. token \in [Tokens -> TokenType]
  BY DEF BackendInv, BackendTypeOK
<1>2. RowsEnd({t}, "expired")
  BY <1>1 DEF RowsEnd, RefreshExpires, TokenType
<1>3. t \in Issued /\ token[t].status = "live" /\ ~Locked(t)
  BY DEF RefreshExpires, Issued
<1> QED
  BY <1>2, <1>3, QuietEndInv DEF RefreshExpires

-------------------------------------------------------------------------------
(* The transactions of admin_cli *)

\* A command reads the user, and may overlap another.
LEMMA AdminReadsInv ==
    ASSUME BackendInv, NEW a \in Admins, NEW kind \in {"revoke", "disable", "enable"},
           AdminReads(a, kind)
    PROVE  BackendInv'
<1> USE DEF BackendInv, AdminReads
<1>1. Issued' = Issued /\ Unrevoked' = Unrevoked /\ Bundles' = Bundles
  BY DEF Issued, Unrevoked, Bundles
<1>2. /\ admin'[a] = [pc |-> "decided", kind |-> kind, seen |-> user, targets |-> {}]
      /\ \A b \in Admins \ {a} : admin'[b] = admin[b]
  BY DEF BackendTypeOK
<1>3. BackendTypeOK'
  <2>1. [pc |-> "decided", kind |-> kind, seen |-> user, targets |-> {}] \in AdminType
    BY DEF BackendTypeOK, AdminType
  <2>2. admin' \in [Admins -> AdminType]
    BY <2>1 DEF BackendTypeOK
  <2>3. raced' \in BOOLEAN
    OBVIOUS
  <2> QED
    BY <2>2, <2>3 DEF BackendTypeOK
<1>4. RowsLinked' /\ OneUnrevoked' /\ CallsSound' /\ LocksExclusive'
  BY <1>1 DEF RowsLinked, OneUnrevoked, CallsSound, LocksExclusive
<1>5. CommandsSound'
  BY <1>1, <1>2 DEF CommandsSound
<1>6. VersionsCount'
  <2> SUFFICES ASSUME ~raced' PROVE VersionsCount'
    BY DEF VersionsCount
  <2>1. ~raced /\ \A b \in Admins \ {a} : admin[b].pc \notin {"decided", "updating"}
    BY DEF BackendTypeOK
  <2>2. /\ admin'[a].seen = user'
        /\ \A b \in Admins \ {a} : admin'[b].pc \notin {"decided", "updating"}
    BY <1>2, <2>1
  <2> QED
    BY <1>1, <2>1, <2>2 DEF VersionsCount
<1> QED
  BY <1>3, <1>4, <1>5, <1>6

\* A command locks the user and fixes the rows it will revoke.
LEMMA AdminUpdatesInv ==
    ASSUME BackendInv, NEW a \in Admins, AdminUpdates(a) PROVE BackendInv'
<1> USE DEF BackendInv, AdminUpdates
<1>1. Issued' = Issued /\ Unrevoked' = Unrevoked /\ Bundles' = Bundles
  BY DEF Issued, Unrevoked, Bundles
<1>2. /\ admin[a] \in AdminType /\ admin[a].pc = "decided"
      /\ admin'[a].pc = "updating" /\ admin'[a].seen = admin[a].seen
      /\ admin'[a].kind = admin[a].kind
      /\ admin'[a].targets \subseteq Issued
      /\ \A b \in Admins \ {a} : admin'[b] = admin[b]
  BY DEF BackendTypeOK, AdminType, Unrevoked
<1>3. BackendTypeOK'
  BY <1>2, NoTokenOutside DEF BackendTypeOK, AdminType, Unrevoked
<1>4. RowsLinked' /\ OneUnrevoked' /\ CallsSound' /\ LocksExclusive'
  BY <1>1 DEF RowsLinked, OneUnrevoked, CallsSound, LocksExclusive
<1>5. CommandsSound'
  BY <1>1, <1>2 DEF CommandsSound
<1>6. VersionsCount'
  <2> SUFFICES ASSUME ~raced' PROVE VersionsCount'
    BY DEF VersionsCount
  <2>1. ~raced /\ UNCHANGED <<token, user, call, epoch>>
    OBVIOUS
  <2>2. /\ user'.ver = epoch' + 1
        /\ \A t \in Issued' : token'[t].ver = token'[t].since + 1
        /\ \A c \in Calls : call'[c].pc \in {"rotating", "opening"} =>
              call'[c].ver = call'[c].since + 1
    BY <1>1, <2>1 DEF VersionsCount
  <2>3. \A b \in Admins :
          /\ admin'[b].pc \in {"decided", "updating"} <=>
                admin[b].pc \in {"decided", "updating"}
          /\ admin'[b].seen = admin[b].seen
    BY <1>2
  <2>4. \A b \in Admins : admin'[b].pc \in {"decided", "updating"} =>
          /\ admin'[b].seen.ver = user'.ver
          /\ \A d \in Admins \ {b} : admin'[d].pc \notin {"decided", "updating"}
    <3>1. \A b \in Admins : admin[b].pc \in {"decided", "updating"} =>
            /\ admin[b].seen.ver = user.ver
            /\ \A d \in Admins \ {b} : admin[d].pc \notin {"decided", "updating"}
      BY <2>1 DEF VersionsCount
    <3> HIDE DEF BackendInv, AdminUpdates
    <3> QED
      BY <2>1, <2>3, <3>1
  <2> QED
    BY <2>2, <2>4 DEF VersionsCount
<1> QED
  BY <1>3, <1>4, <1>5, <1>6

\* No command that read the version before this one is still to commit it, unless two
\* have overlapped.
LEMMA AdminCommitsInv ==
    ASSUME BackendInv, NEW a \in Admins, AdminCommits(a)
    PROVE  BackendInv' /\ Issued' = Issued /\ RowsEnd(admin[a].targets, "dead")
<1> DEFINE S == admin[a].targets
<1>1. S \in SUBSET Issued
  BY DEF BackendInv, CommandsSound
<1>2. RowsEnd(S, "dead") /\ \A t \in S : ~Locked(t)
  BY <1>1, RevokeEnds DEF AdminCommits
<1>3. call' = call /\ call \in [Calls -> CallType]
  BY DEF AdminCommits, BackendInv, BackendTypeOK
<1> HIDE DEF S
<1>4. /\ Issued' = Issued
      /\ RowsLinked' /\ OneUnrevoked' /\ CallsSound' /\ LocksExclusive'
  BY <1>1, <1>2, <1>3, TokensEnd
<1>5. /\ admin[a].pc = "updating" /\ admin[a] \in AdminType
      /\ admin'[a].pc = "done" /\ admin'[a].targets = {} /\ admin'[a] \in AdminType
      /\ \A b \in Admins \ {a} : admin'[b] = admin[b]
  BY DEF AdminCommits, BackendInv, BackendTypeOK, Idle, AdminType, UserType
<1>6. /\ user' = [active |-> Activity(a), ver |-> admin[a].seen.ver + 1]
      /\ epoch' = epoch + 1 /\ raced' = raced
  BY DEF AdminCommits, Bumped
<1>7. BackendTypeOK'
  <2>1. Activity(a) \in BOOLEAN
    BY <1>5 DEF Activity, AdminType, UserType, BackendInv, BackendTypeOK
  <2>2. user' \in UserType
    BY <1>5, <1>6, <2>1 DEF AdminType, UserType
  <2>3. admin' \in [Admins -> AdminType]
    BY <1>5 DEF AdminCommits, BackendInv, BackendTypeOK
  <2> QED
    BY <1>2, <1>3, <1>6, <2>2, <2>3 DEF RowsEnd, BackendInv, BackendTypeOK
<1>8. CommandsSound'
  BY <1>4, <1>5 DEF BackendInv, CommandsSound
<1>9. VersionsCount'
  <2> SUFFICES ASSUME ~raced' PROVE VersionsCount'
    BY DEF VersionsCount
  <2>1. /\ admin[a].seen.ver = user.ver /\ user.ver = epoch + 1
        /\ \A b \in Admins \ {a} : admin[b].pc \notin {"decided", "updating"}
    BY <1>5, <1>6 DEF BackendInv, VersionsCount
  <2>2. user'.ver = epoch' + 1
    BY <1>6, <2>1 DEF BackendInv, BackendTypeOK
  <2>3. \A b \in Admins : admin'[b].pc \notin {"decided", "updating"}
    BY <1>5, <2>1
  <2> QED
    BY <1>2, <1>3, <1>4, <1>6, <2>2, <2>3, NoTokenOutside
       DEF BackendInv, VersionsCount, RowsEnd
<1> QED
  BY <1>2, <1>4, <1>7, <1>8, <1>9 DEF BackendInv, S

\* Every step of admin_cli keeps the invariant.
LEMMA AdministrationInv == BackendInv /\ Administration => BackendInv'
  BY AdminReadsInv, AdminUpdatesInv, AdminCommitsInv DEF Administration

\* Time keeps the invariant.
LEMMA TimePassesInv == BackendInv /\ TimePasses => BackendInv'
  BY RefreshExpiresInv DEF TimePasses

-------------------------------------------------------------------------------
(* Requests: every bundle that the gateway or the browser has was issued *)

Sound(q) ==
    /\ q \in RequestType
    /\ q.bundle \in Bundles
    /\ q.out \in Bundles
    /\ q.pc \in {"call", "refresh", "perform", "join", "retry"} => q.bundle # NoToken

RequestsSound ==
    /\ cookie \in Bundles
    /\ rotated \in [Tokens -> Bundles]
    /\ request \in [Calls -> RequestType]
    /\ \A r \in Calls : Sound(request[r])

\* The inductive invariant of the composition.
GatewayInv ==
    /\ BackendInv
    /\ RequestsSound
    /\ accident \in BOOLEAN
    /\ alarm \in BOOLEAN

\* The invariant of the gateway contains its types.
LEMMA GatewayTypes == GatewayInv => TypeOK
<1> SUFFICES ASSUME GatewayInv PROVE TypeOK
  OBVIOUS
<1>1. Bundles \subseteq Tokens \cup {NoToken}
  BY NoTokenOutside DEF Bundles
<1>2. rotated \in [Tokens -> Tokens \cup {NoToken}]
  BY <1>1 DEF GatewayInv, RequestsSound
<1>3. request \in [Calls -> RequestType]
  BY DEF GatewayInv, RequestsSound, Sound
<1> QED
  BY <1>1, <1>2, <1>3 DEF GatewayInv, BackendInv, TypeOK, RequestsSound

\* A response carries a bundle that was issued, or none.
LEMMA RespondingSound ==
    ASSUME NEW sets \in BOOLEAN, NEW out \in Bundles
    PROVE  Sound(Responding(sets, out))
<1>1. out \in Tokens \cup {NoToken} /\ NoToken \in Bundles
  BY NoTokenOutside DEF Bundles
<1> QED
  BY <1>1 DEF Sound, Responding, NoRequest, RequestType, Kinds

\* The invariant of the gateway holds at the start.
LEMMA GatewayInvInit == Init => GatewayInv
<1> SUFFICES ASSUME Init PROVE GatewayInv
  OBVIOUS
<1>1. BackendInv
  BY BackendInvInit DEF Init
<1>2. NoToken \in Bundles /\ NoRequest \in RequestType /\ Sound(NoRequest)
  BY DEF Bundles, Sound, NoRequest, RequestType, Kinds
<1>3. /\ cookie \in Bundles /\ rotated \in [Tokens -> Bundles]
      /\ request \in [Calls -> RequestType]
  BY <1>2 DEF Init
<1>4. \A r \in Calls : Sound(request[r])
  BY <1>2 DEF Init
<1> QED
  BY <1>1, <1>3, <1>4 DEF Init, GatewayInv, RequestsSound

\* A step of one request that issues nothing.
LEMMA RequestStep ==
    ASSUME GatewayInv, Bundles' = Bundles, NEW r \in Calls, NEW new, Sound(new),
           request' = [request EXCEPT ![r] = new],
           cookie' \in Bundles, UNCHANGED rotated
    PROVE  RequestsSound'
<1>1. request' = [q \in Calls |-> IF q = r THEN new ELSE request[q]]
  <2>1. request \in [Calls -> RequestType]
    BY DEF GatewayInv, RequestsSound
  <2> QED
    BY <2>1
<1>2. \A q \in Calls : Sound(request'[q])
  BY <1>1 DEF GatewayInv, RequestsSound
<1>3. \A q : Sound(q) => /\ q \in RequestType /\ q.bundle \in Bundles' /\ q.out \in Bundles'
                         /\ q.pc \in {"call", "refresh", "perform", "join", "retry"} =>
                               q.bundle # NoToken
  BY DEF Sound
<1>4. \A q \in Calls : Sound(request[q])'
  BY <1>2, <1>3 DEF Sound
<1>5. request' \in [Calls -> RequestType]
  BY <1>1, <1>2 DEF Sound
<1> QED
  BY <1>4, <1>5 DEF GatewayInv, RequestsSound

\* A step that leaves the gateway alone, whatever it issues.
LEMMA GatewayQuiet ==
    ASSUME GatewayInv, Issued \subseteq Issued', UNCHANGED gateway
    PROVE  RequestsSound'
<1>1. Bundles \subseteq Bundles'
  BY DEF Bundles
<1>2. \A r \in Calls : Sound(request[r])'
  BY <1>1 DEF gateway, GatewayInv, RequestsSound, Sound
<1>3. rotated' \in [Tokens -> Bundles']
  BY <1>1 DEF gateway, GatewayInv, RequestsSound
<1>4. cookie' \in Bundles' /\ request' \in [Calls -> RequestType]
  BY <1>1 DEF gateway, GatewayInv, RequestsSound
<1> QED
  BY <1>2, <1>3, <1>4 DEF RequestsSound

\* The steps of a request that neither reach nor hear the backend.
LEMMA RequestAlone ==
    ASSUME GatewayInv, NEW r \in Calls, UNCHANGED <<backend, rotated, alarm>>,
           accident' \in BOOLEAN, cookie' \in Bundles,
           NEW new, Sound(new), request' = [request EXCEPT ![r] = new]
    PROVE  GatewayInv'
<1>1. BackendInv'
  BY DEF GatewayInv, BackendInv, backend, BackendTypeOK, RowsLinked, OneUnrevoked, CallsSound,
         LocksExclusive, CommandsSound, VersionsCount, Issued, Unrevoked, Bundles
<1>2. Bundles' = Bundles
  BY DEF Bundles, Issued, backend
<1>3. RequestsSound'
  BY <1>2, RequestStep
<1> QED
  BY <1>1, <1>3 DEF GatewayInv

\* A request that has a bundle may go on with it.
LEMMA GotoSound ==
    ASSUME GatewayInv, NEW r \in Calls, NEW pc \in {"refresh", "join", "perform", "login"},
           request[r].bundle # NoToken
    PROVE  Sound([request[r] EXCEPT !.pc = pc])
  BY DEF GatewayInv, RequestsSound, Sound, RequestType

\* A request that is over is sound.
LEMMA FinishedSound ==
    ASSUME GatewayInv, NEW r \in Calls
    PROVE  Sound(Responding(request[r].sets, request[r].out))
<1>1. request[r].sets \in BOOLEAN /\ request[r].out \in Bundles
  BY DEF GatewayInv, RequestsSound, Sound, RequestType
<1> QED
  BY <1>1, RespondingSound

\* hooks.server.ts, apiRaw, refreshToken, logoutUpstream and the browser.
LEMMA AloneInv ==
    ASSUME GatewayInv, NEW r \in Calls,
           \/ \E kind \in Kinds : Begin(r, kind)
           \/ BeginExpired(r) \/ CallDenied(r) \/ CallAccepted(r) \/ CallFails(r)
           \/ RefreshRemembered(r) \/ RefreshJoined(r) \/ LoginRefused(r) \/ LogoutFails(r)
           \/ Respond(r) \/ ResponseLost(r)
    PROVE  GatewayInv'
<1> USE DEF GatewayInv, RequestsSound
<1>1. /\ Sound(request[r]) /\ cookie \in Bundles /\ accident \in BOOLEAN
      /\ request[r] \in RequestType /\ NoToken \in Bundles
      /\ Bundles \subseteq Tokens \cup {NoToken}
  BY NoTokenOutside DEF Sound, Bundles
<1>2. ASSUME NEW kind \in Kinds, Begin(r, kind) PROVE GatewayInv'
  <2> DEFINE new == [kind |-> kind, bundle |-> cookie, sets |-> kind = "logout",
                     out |-> NoToken,
                     pc |-> IF kind \in {"login", "logout"} THEN kind ELSE "call"]
  <2>1. new \in RequestType
    BY <1>1 DEF RequestType, Kinds
  <2>2. Sound(new)
    BY <1>1, <1>2, <2>1 DEF Begin, Sound, Kinds
  <2>3. request' = [request EXCEPT ![r] = new] /\ UNCHANGED <<backend, rotated, alarm>>
        /\ UNCHANGED <<cookie, accident>>
    BY <1>2 DEF Begin
  <2> HIDE DEF new
  <2> QED
    BY <1>1, <2>2, <2>3, RequestAlone
<1>3. CASE BeginExpired(r)
  <2>1. Sound(Responding(TRUE, NoToken))
    BY <1>1, RespondingSound
  <2> QED
    BY <1>1, <1>3, <2>1, RequestAlone DEF BeginExpired
<1>4. CASE CallDenied(r)
  <2>1. Sound([request[r] EXCEPT !.pc = "refresh"])
    BY <1>1, <1>4, GotoSound DEF CallDenied, Sound
  <2> QED
    BY <1>1, <1>4, <2>1, RequestAlone DEF CallDenied, Goto
<1>5. CASE CallAccepted(r)
  <2>1. CASE request[r].kind = "switch"
    <3>1. Sound([request[r] EXCEPT !.pc = "login"])
      BY <1>1, <1>5, GotoSound DEF CallAccepted, Sound
    <3> QED
      BY <1>1, <1>5, <2>1, <3>1, RequestAlone DEF CallAccepted, Accepted, Goto
  <2>2. CASE request[r].kind # "switch"
    BY <1>1, <1>5, <2>2, FinishedSound, RequestAlone DEF CallAccepted, Accepted, Finish
  <2> QED
    BY <2>1, <2>2
<1>6. CASE CallFails(r) \/ LoginRefused(r) \/ LogoutFails(r)
  BY <1>1, <1>6, FinishedSound, RequestAlone DEF CallFails, LoginRefused, LogoutFails, Finish
<1>7. CASE RefreshRemembered(r)
  <2> DEFINE n == rotated[request[r].bundle]
             new == [request[r] EXCEPT !.pc = "retry", !.bundle = n, !.sets = TRUE, !.out = n]
  <2>1. request[r].bundle \in Tokens /\ n \in Bundles /\ n # NoToken
    BY <1>1, <1>7 DEF RefreshRemembered, Sound
  <2>2. Sound(new)
    BY <1>1, <2>1 DEF Sound, RequestType
  <2>3. request' = [request EXCEPT ![r] = new]
    BY <1>7 DEF RefreshRemembered
  <2> HIDE DEF new, n
  <2> QED
    BY <1>1, <1>7, <2>2, <2>3, RequestAlone DEF RefreshRemembered
<1>8. CASE RefreshJoined(r)
  <2>1. Sound([request[r] EXCEPT !.pc = "join"])
    BY <1>1, <1>8, GotoSound DEF RefreshJoined, Sound
  <2> QED
    BY <1>1, <1>8, <2>1, RequestAlone DEF RefreshJoined, Goto
<1>9. CASE Respond(r) \/ ResponseLost(r)
  <2>1. Sound(NoRequest)
    BY <1>1 DEF Sound, NoRequest, RequestType, Kinds
  <2>2. request[r].out \in Bundles
    BY <1>1 DEF Sound
  <2> QED
    BY <1>1, <1>9, <2>1, <2>2, RequestAlone DEF Respond, ResponseLost
<1> QED
  BY <1>2, <1>3, <1>4, <1>5, <1>6, <1>7, <1>8, <1>9

\* Several requests are answered at once, with sound answers.
LEMMA RequestsAnswered ==
    ASSUME GatewayInv, Bundles' = Bundles, NEW W \in SUBSET Calls,
           request' \in [Calls -> RequestType],
           \A q \in Calls \ W : request'[q] = request[q],
           \A q \in W : Sound(request'[q]),
           rotated' \in [Tokens -> Bundles], UNCHANGED cookie
    PROVE  RequestsSound'
<1>1. \A q \in Calls : Sound(request'[q])
  BY DEF GatewayInv, RequestsSound
<1>2. \A q : Sound(q) => /\ q \in RequestType /\ q.bundle \in Bundles' /\ q.out \in Bundles'
                         /\ q.pc \in {"call", "refresh", "perform", "join", "retry"} =>
                               q.bundle # NoToken
  BY DEF Sound
<1>3. \A q \in Calls : Sound(request[q])'
  BY <1>1, <1>2 DEF Sound
<1> QED
  BY <1>3 DEF GatewayInv, RequestsSound

\* Everybody who waits is sent to the login.
LEMMA GiveUpSound ==
    ASSUME GatewayInv, Bundles' = Bundles, NEW r \in Calls, GiveUp(r),
           UNCHANGED <<cookie, rotated>>
    PROVE  RequestsSound'
<1>1. Sound(Responding(TRUE, NoToken)) /\ Responding(TRUE, NoToken) \in RequestType
  BY RespondingSound DEF Bundles, Sound
<1>2. Waiting(r) \subseteq Calls
  BY DEF Waiting
<1>3. request \in [Calls -> RequestType] /\ rotated' \in [Tokens -> Bundles]
  BY DEF GatewayInv, RequestsSound
<1>4. request' \in [Calls -> RequestType]
  BY <1>1, <1>3 DEF GiveUp
<1>5. /\ \A q \in Calls \ Waiting(r) : request'[q] = request[q]
      /\ \A q \in Waiting(r) : Sound(request'[q])
  BY <1>1, <1>2 DEF GiveUp
<1> QED
  BY <1>2, <1>3, <1>4, <1>5, RequestsAnswered

\* A new bundle is remembered and handed to everybody who waits.
LEMMA RefreshAnsweredInv ==
    ASSUME GatewayInv, NEW r \in Calls, RefreshAnswered(r) PROVE GatewayInv'
<1> DEFINE n == call[r].result
           k == request[r].bundle
<1>1. BackendInv'
  BY CallDoneInv DEF GatewayInv, RefreshAnswered
<1>2. Bundles' = Bundles
  BY DEF RefreshAnswered, Bundles, Issued
<1>3. n \in Bundles /\ n # NoToken /\ k \in Tokens /\ Bundles \subseteq Tokens \cup {NoToken}
  BY NoTokenOutside
     DEF RefreshAnswered, GatewayInv, BackendInv, CallsSound, RequestsSound, Sound, Bundles
<1>4. request \in [Calls -> RequestType] /\ rotated \in [Tokens -> Bundles]
  BY DEF GatewayInv, RequestsSound
<1>5. /\ rotated' = [rotated EXCEPT ![k] = n]
      /\ request' = [q \in Calls |->
              IF q \in Waiting(r)
              THEN [request[q] EXCEPT !.pc = "retry", !.bundle = n, !.sets = TRUE, !.out = n]
              ELSE request[q]]
      /\ UNCHANGED <<cookie, accident, alarm>>
  BY DEF RefreshAnswered, Remember
<1> HIDE DEF n, k
<1>6. rotated' \in [Tokens -> Bundles]
  BY <1>3, <1>4, <1>5
<1>7. ASSUME NEW q \in Calls
      PROVE  LET new == [request[q] EXCEPT !.pc = "retry", !.bundle = n, !.sets = TRUE, !.out = n]
             IN  new \in RequestType /\ Sound(new)
  BY <1>3, <1>4 DEF RequestType, Sound
<1>8. request' \in [Calls -> RequestType]
  BY <1>4, <1>5, <1>7
<1>9. /\ Waiting(r) \subseteq Calls
      /\ \A q \in Calls \ Waiting(r) : request'[q] = request[q]
      /\ \A q \in Waiting(r) : Sound(request'[q])
  BY <1>5, <1>7 DEF Waiting
<1>10. RequestsSound'
  BY <1>2, <1>5, <1>6, <1>8, <1>9, RequestsAnswered
<1> QED
  BY <1>1, <1>5, <1>10 DEF GatewayInv

\* The steps of a request that begin, hear or give up a call of /auth.
LEMMA CallingInv ==
    ASSUME GatewayInv, NEW r \in Calls,
           \/ RefreshSent(r) \/ RefreshRefused(r) \/ RefreshTimesOut(r) \/ Unheard(r)
           \/ LoginSent(r) \/ LoginAnswered(r) \/ LogoutSent(r)
    PROVE  GatewayInv'
<1>1. /\ Sound(request[r]) /\ request[r] \in RequestType /\ NoToken \in Bundles
      /\ cookie \in Bundles /\ accident \in BOOLEAN /\ alarm \in BOOLEAN
  BY DEF GatewayInv, RequestsSound, Bundles
<1>2. CASE RefreshSent(r)
  <2>1. request[r].bundle \in Issued
    BY <1>1, <1>2 DEF RefreshSent, Sound, Bundles
  <2>2. BackendInv'
    BY <1>2, <2>1, CallSentInv DEF RefreshSent, GatewayInv
  <2>3. Bundles' = Bundles
    BY <1>2 DEF RefreshSent, Bundles, Issued
  <2>4. Sound([request[r] EXCEPT !.pc = "perform"])
    BY <2>1, NoTokenOutside, GotoSound
  <2>5. RequestsSound'
    BY <1>1, <1>2, <2>3, <2>4, RequestStep DEF RefreshSent, Goto
  <2> QED
    BY <1>1, <1>2, <2>2, <2>5 DEF RefreshSent, GatewayInv
<1>3. CASE RefreshRefused(r)
  <2>1. BackendInv' /\ Bundles' = Bundles
    BY <1>3, CallDoneInv DEF RefreshRefused, GatewayInv, Bundles, Issued
  <2>2. RequestsSound'
    BY <1>3, <2>1, GiveUpSound DEF RefreshRefused
  <2> QED
    BY <1>1, <1>3, <2>1, <2>2 DEF RefreshRefused, GatewayInv
<1>4. CASE RefreshTimesOut(r)
  <2>1. BackendInv'
    BY <1>4 DEF RefreshTimesOut, GatewayInv, BackendInv, backend, BackendTypeOK, RowsLinked,
                OneUnrevoked, CallsSound, LocksExclusive, CommandsSound, VersionsCount, Issued,
                Unrevoked, Bundles
  <2>2. Bundles' = Bundles
    BY <1>4 DEF RefreshTimesOut, backend, Bundles, Issued
  <2>3. RequestsSound'
    BY <1>4, <2>2, GiveUpSound DEF RefreshTimesOut
  <2> QED
    BY <1>1, <1>4, <2>1, <2>3 DEF RefreshTimesOut, GatewayInv
<1>5. CASE Unheard(r)
  <2>1. BackendInv' /\ Issued' = Issued
    BY <1>5, CallDoneInv DEF Unheard, GatewayInv, Issued
  <2>2. RequestsSound'
    BY <1>5, <2>1, GatewayQuiet DEF Unheard
  <2> QED
    BY <1>1, <1>5, <2>1, <2>2 DEF Unheard, GatewayInv, gateway
<1>6. CASE LoginSent(r)
  <2>1. BackendInv' /\ Issued' = Issued
    BY <1>6, LoginStartsInv DEF LoginSent, GatewayInv, LoginStarts, Issued
  <2>2. RequestsSound'
    BY <1>6, <2>1, GatewayQuiet DEF LoginSent
  <2> QED
    BY <1>1, <1>6, <2>1, <2>2 DEF LoginSent, GatewayInv, gateway
<1>7. CASE LoginAnswered(r)
  <2>1. BackendInv' /\ Bundles' = Bundles
    BY <1>7, CallDoneInv DEF LoginAnswered, GatewayInv, Bundles, Issued
  <2>2. call[r].result \in Bundles /\ call[r].result \in Tokens \cup {NoToken}
    BY NoTokenOutside DEF GatewayInv, BackendInv, CallsSound, Bundles
  <2>3. Sound([request[r] EXCEPT !.sets = TRUE, !.out = call[r].result, !.pc = "logout"])
    BY <1>1, <2>2 DEF Sound, RequestType
  <2>4. Sound(Responding(TRUE, call[r].result))
    BY <2>2, RespondingSound
  <2>5. RequestsSound'
    <3>1. CASE request[r].kind = "switch"
      BY <1>1, <1>7, <2>1, <2>3, <3>1, RequestStep DEF LoginAnswered
    <3>2. CASE request[r].kind # "switch"
      BY <1>1, <1>7, <2>1, <2>4, <3>2, RequestStep DEF LoginAnswered
    <3> QED
      BY <3>1, <3>2
  <2> QED
    BY <1>1, <1>7, <2>1, <2>5 DEF LoginAnswered, GatewayInv
<1>8. CASE LogoutSent(r)
  <2>1. BackendInv' /\ Issued' = Issued
    BY <1>8, LogoutInv DEF LogoutSent, GatewayInv
  <2>2. RequestsSound'
    BY <1>1, <1>8, <2>1, FinishedSound, RequestStep DEF LogoutSent, Finish, Bundles
  <2> QED
    BY <1>1, <1>8, <2>1, <2>2 DEF LogoutSent, GatewayInv
<1> QED
  BY <1>2, <1>3, <1>4, <1>5, <1>6, <1>7, <1>8

\* A restart of the gateway loses requests and remembered bundles, and invents none.
LEMMA RestartInv == GatewayInv /\ Restart => GatewayInv'
<1> SUFFICES ASSUME GatewayInv, Restart PROVE GatewayInv'
  OBVIOUS
<1>1. BackendInv'
  BY DEF Restart, GatewayInv, BackendInv, backend, BackendTypeOK, RowsLinked, OneUnrevoked,
         CallsSound, LocksExclusive, CommandsSound, VersionsCount, Issued, Unrevoked, Bundles
<1>2. Bundles' = Bundles /\ NoToken \in Bundles
  BY DEF Restart, backend, Bundles, Issued
<1>3. Sound(NoRequest) /\ NoRequest \in RequestType
  BY <1>2 DEF Sound, NoRequest, RequestType, Kinds
<1>4. /\ request' \in [Calls -> RequestType] /\ rotated' \in [Tokens -> Bundles]
      /\ \A r \in Calls : Sound(request'[r])
  BY <1>2, <1>3 DEF Restart
<1>5. RequestsSound'
  BY <1>2, <1>4, RequestsAnswered DEF Restart
<1> QED
  BY <1>1, <1>5 DEF Restart, GatewayInv

\* A remembered bundle may be forgotten at any time.
LEMMA ForgetInv ==
    ASSUME GatewayInv, NEW k \in Tokens, Forget(k) PROVE GatewayInv'
<1>1. BackendInv'
  BY DEF Forget, GatewayInv, BackendInv, backend, BackendTypeOK, RowsLinked, OneUnrevoked,
         CallsSound, LocksExclusive, CommandsSound, VersionsCount, Issued, Unrevoked, Bundles
<1>2. Bundles' = Bundles /\ rotated' \in [Tokens -> Bundles]
  BY DEF Forget, backend, Bundles, Issued, GatewayInv, RequestsSound
<1>3. request' = request /\ request \in [Calls -> RequestType] /\ cookie' = cookie
  BY DEF Forget, GatewayInv, RequestsSound
<1>4. RequestsSound'
  BY <1>2, <1>3, RequestsAnswered DEF GatewayInv, RequestsSound
<1>5. accident' \in BOOLEAN
  BY DEF Forget, GatewayInv, Held
<1> QED
  BY <1>1, <1>4, <1>5 DEF Forget, GatewayInv

\* A step of the backend that the gateway does not see.
LEMMA IssuedGrows ==
    ASSUME BackendInv, NEW c \in Calls, Transaction(c) PROVE Issued \subseteq Issued'
<1>1. CASE RefreshReused(c) \/ RefreshStarts(c)
  BY <1>1 DEF RefreshReused, RefreshStarts, Issued
<1> QED
  BY <1>1, RevokeFamilyInv, RefreshDeniedInv, RefreshCommitsInv, LoginCommitsInv
     DEF Transaction

\* What the backend does keeps the invariant of the gateway.
LEMMA BackendStepInv ==
    ASSUME GatewayInv, NEW r \in Calls, BackendStep(r) PROVE GatewayInv'
<1>1. BackendInv' /\ Issued \subseteq Issued'
  BY TransactionInv, IssuedGrows DEF BackendStep, GatewayInv
<1>2. Bundles \subseteq Bundles'
  BY <1>1 DEF Bundles
<1>3. /\ \A q \in Calls : Sound(request[q])'
      /\ rotated' \in [Tokens -> Bundles'] /\ cookie' \in Bundles'
      /\ request' \in [Calls -> RequestType]
  BY <1>2 DEF BackendStep, GatewayInv, RequestsSound, Sound
<1>4. RequestsSound'
  BY <1>3 DEF RequestsSound
<1>5. alarm' \in BOOLEAN /\ accident' \in BOOLEAN
  BY DEF BackendStep, GatewayInv
<1> QED
  BY <1>1, <1>4, <1>5 DEF GatewayInv

\* So does what happens outside of both.
LEMMA OutsideInv ==
    ASSUME GatewayInv, Administration \/ TimePasses, UNCHANGED gateway PROVE GatewayInv'
<1>1. BackendInv'
  BY AdministrationInv, TimePassesInv DEF GatewayInv
<1>2. Issued' = Issued
  <2>1. CASE Administration
    BY <2>1, AdminCommitsInv DEF Administration, AdminReads, AdminUpdates, Issued, GatewayInv
  <2>2. CASE TimePasses
    BY <2>2, RefreshExpiresInv DEF TimePasses, GatewayInv
  <2> QED
    BY <2>1, <2>2
<1>3. RequestsSound'
  BY <1>2, GatewayQuiet
<1> QED
  BY <1>1, <1>3 DEF GatewayInv, gateway

\* Every step of the system keeps the invariant.
LEMMA GatewayInvStep == GatewayInv /\ [Next]_vars => GatewayInv'
<1> SUFFICES ASSUME GatewayInv, [Next]_vars PROVE GatewayInv'
  OBVIOUS
<1>1. ASSUME NEW r \in Calls, Request(r) PROVE GatewayInv'
  BY <1>1, AloneInv, CallingInv, RefreshAnsweredInv DEF Request
<1>2. ASSUME NEW r \in Calls, BackendStep(r) PROVE GatewayInv'
  BY <1>2, BackendStepInv
<1>3. ASSUME NEW k \in Tokens, Forget(k) PROVE GatewayInv'
  BY <1>3, ForgetInv
<1>4. CASE Restart
  BY <1>4, RestartInv
<1>5. CASE (Administration \/ TimePasses) /\ UNCHANGED gateway
  BY <1>5, OutsideInv
<1>6. CASE UNCHANGED vars
  <2>1. BackendInv' /\ Issued' = Issued
    BY <1>6 DEF vars, GatewayInv, BackendInv, backend, BackendTypeOK, RowsLinked, OneUnrevoked,
                CallsSound, LocksExclusive, CommandsSound, VersionsCount, Issued, Unrevoked,
                Bundles
  <2>2. RequestsSound'
    BY <1>6, <2>1, GatewayQuiet DEF vars
  <2> QED
    BY <1>6, <2>1, <2>2 DEF vars, gateway, GatewayInv
<1> QED
  BY <1>1, <1>2, <1>3, <1>4, <1>5, <1>6 DEF Next

\* The invariant of the gateway and its backend holds whatever happens, accidents included.
THEOREM GatewayInvariant == Spec => []GatewayInv
<1> QED
  BY GatewayInvInit, GatewayInvStep, PTL DEF Spec

\* Whatever requests, calls and commands overlap, no family ever has two tokens that can
\* be exchanged: refresh locks the row before it decides, auth/service.py.
THEOREM AccountsSafe == Spec => []AccountsInv
<1>1. GatewayInv => AccountsInv
  <2> SUFFICES ASSUME GatewayInv PROVE AccountsInv
    OBVIOUS
  <2>1. TypeOK
    BY GatewayTypes
  <2>2. OneLiveToken
    BY DEF GatewayInv, BackendInv, OneUnrevoked, OneLiveToken, Unrevoked
  <2> QED
    BY <2>1, <2>2 DEF AccountsInv
<1> QED
  BY <1>1, GatewayInvariant, PTL

\* An access token issued before the last command of admin_cli is refused, however its
\* login or refresh overlapped that command, unless two commands overlapped each other.
THEOREM AccessEnds == Spec => []AccessEndsWithCommand
<1>1. GatewayInv => AccessEndsWithCommand
  <2> SUFFICES ASSUME GatewayInv, ~raced, NEW t \in Tokens, Usable(t)
               PROVE  token[t].since = epoch
    BY DEF AccessEndsWithCommand
  <2>1. token[t].ver = user.ver /\ user.ver = epoch + 1 /\ token[t].ver = token[t].since + 1
    BY DEF Usable, GatewayInv, BackendInv, VersionsCount
  <2>2. epoch \in Nat /\ token[t].since \in Nat
    BY DEF GatewayInv, BackendInv, BackendTypeOK, TokenType
  <2> QED
    BY <2>1, <2>2
<1> QED
  BY <1>1, GatewayInvariant, PTL

-------------------------------------------------------------------------------
(* The implementation of Sessions *)

\* The live tokens of family f: at most one.
LiveOf(f) == {t \in Issued : token[t].status = "live" /\ token[t].family = f}
Heads == {f \in Issued : token[f].family = f}

\* The session of a family, in terms of its live tokens.
SessionsShown ==
    \A f \in Tokens :
        /\ SessionOf(f) = (IF f \notin Heads THEN "new"
                           ELSE IF LiveOf(f) # {} THEN "open" ELSE "closed")
        /\ LiveOf(f) # {} => f \in Heads
        /\ \A t \in LiveOf(f) : LiveToken(f) = t
        /\ LiveOf(f) = {} => LiveToken(f) = NoToken

\* SessionOf and LiveToken in terms of the set of live tokens, which has at most one member.
LEMMA SessionFacts == BackendInv => SessionsShown
<1> SUFFICES ASSUME BackendInv, NEW f \in Tokens
             PROVE  /\ SessionOf(f) = (IF f \notin Heads THEN "new"
                                       ELSE IF LiveOf(f) # {} THEN "open" ELSE "closed")
                    /\ LiveOf(f) # {} => f \in Heads
                    /\ \A t \in LiveOf(f) : LiveToken(f) = t
                    /\ LiveOf(f) = {} => LiveToken(f) = NoToken
  BY DEF SessionsShown
<1>1. token[f].status = "none" \/ token[f].family # f <=> f \notin Heads
  BY DEF Heads, Issued
<1>2. f \in Heads => LiveOf(f) = {t \in Family(f) : token[t].status = "live"}
  BY DEF Heads, LiveOf, Family
<1>3. LiveOf(f) # {} => f \in Heads
  BY DEF LiveOf, Heads, BackendInv, RowsLinked
<1>4. SessionOf(f) = (IF f \notin Heads THEN "new"
                      ELSE IF LiveOf(f) # {} THEN "open" ELSE "closed")
  BY <1>1, <1>2 DEF SessionOf
<1>5. ASSUME NEW t \in LiveOf(f) PROVE LiveToken(f) = t
  <2>1. f \in Heads /\ SessionOf(f) = "open"
    BY <1>3, <1>4, <1>5
  <2>2. \A u \in LiveOf(f) : u = t
    BY <1>5 DEF LiveOf, BackendInv, OneUnrevoked, Unrevoked
  <2>3. LiveToken(f) = CHOOSE u \in Family(f) : token[u].status = "live"
    BY <2>1 DEF LiveToken
  <2>4. /\ t \in Family(f) /\ token[t].status = "live"
        /\ \A u \in Family(f) : token[u].status = "live" => u = t
    BY <1>2, <1>5, <2>1, <2>2
  <2> QED
    BY <2>3, <2>4
<1>6. LiveOf(f) = {} => LiveToken(f) = NoToken
  BY <1>4 DEF LiveToken
<1> QED
  BY <1>3, <1>4, <1>5, <1>6

\* Nothing that the sessions show has changed.
LEMMA SessionsStutter ==
    ASSUME UNCHANGED token
    PROVE  UNCHANGED Abstract!vars
<1>1. \A f \in Tokens : SessionOf(f)' = SessionOf(f) /\ LiveToken(f)' = LiveToken(f)
  BY DEF SessionOf, LiveToken, Family, Issued
<1> QED
  BY <1>1 DEF Abstract!vars, Issued

\* Whatever ends rows closes the sessions of those that were live, or shows nothing.
LEMMA SessionsClose ==
    ASSUME BackendInv, BackendInv', NEW S, NEW s \in {"expired", "dead"}, RowsEnd(S, s),
           Issued' = Issued
    PROVE  [Abstract!Next]_Abstract!vars
<1> DEFINE C == {f \in Tokens : LiveOf(f) # {} /\ LiveOf(f)' = {}}
<1>1. \A f \in Tokens : LiveOf(f)' \subseteq LiveOf(f)
  BY NoTokenOutside DEF LiveOf, RowsEnd
<1>2. Heads' = Heads
  BY NoTokenOutside DEF Heads, RowsEnd
<1>3. ASSUME NEW f \in Tokens
      PROVE  /\ f \in C => SessionOf(f) = "open" /\ SessionOf(f)' = "closed"
                           /\ LiveToken(f)' = NoToken
             /\ f \notin C => SessionOf(f)' = SessionOf(f) /\ LiveToken(f)' = LiveToken(f)
  <2>1. SessionsShown /\ SessionsShown'
    BY SessionFacts, PTL
  <2>2. /\ SessionOf(f)' = (IF f \notin Heads' THEN "new"
                            ELSE IF LiveOf(f)' # {} THEN "open" ELSE "closed")
        /\ \A t \in LiveOf(f)' : LiveToken(f)' = t
        /\ LiveOf(f)' = {} => LiveToken(f)' = NoToken
    BY <2>1 DEF SessionsShown
  <2>3. /\ SessionOf(f) = (IF f \notin Heads THEN "new"
                           ELSE IF LiveOf(f) # {} THEN "open" ELSE "closed")
        /\ LiveOf(f) # {} => f \in Heads
        /\ \A t \in LiveOf(f) : LiveToken(f) = t
        /\ LiveOf(f) = {} => LiveToken(f) = NoToken
    BY <2>1 DEF SessionsShown
  <2>4. f \notin C => LiveOf(f)' = LiveOf(f)
    <3>1. \A t, u \in LiveOf(f) : t = u
      BY <2>3
    <3> QED
      BY <1>1, <3>1
  <2> QED
    BY <1>2, <2>2, <2>3, <2>4
<1> HIDE DEF C
<1>4. CASE C = {}
  BY <1>3, <1>4 DEF Abstract!vars
<1>5. CASE C # {}
  <2>1. C \in SUBSET Tokens
    BY DEF C
  <2>2. Abstract!Close(C)
    BY <1>3, <1>5, <2>1 DEF Abstract!Close
  <2> QED
    BY <2>1, <2>2 DEF Abstract!Next
<1> QED
  BY <1>4, <1>5

\* A login opens the session of its token, a refresh rotates that of the token it replaces.
LEMMA SessionsIssue ==
    ASSUME BackendInv, BackendInv', NEW c, NEW n \in Tokens \ Issued, NEW old \in Bundles,
           RowInserted(c, n, old), Issued' = Issued \cup {n},
           old # NoToken => token[old].status = "live"
    PROVE  Abstract!Next
<1>0. PICK f \in Tokens : f = IF old = NoToken THEN n ELSE token[old].family
  BY NoTokenOutside DEF Bundles, BackendInv, RowsLinked
<1>1. old # NoToken => old \in LiveOf(f)
  BY <1>0 DEF Bundles, LiveOf
<1>2. SessionsShown /\ SessionsShown'
  BY SessionFacts, PTL
<1>3. \A g \in Tokens : \A t, u \in LiveOf(g) : t = u
  BY <1>2 DEF SessionsShown
<1>4. /\ token'[n].status = "live" /\ token'[n].family = f
      /\ \A t \in Issued : token'[t].family = token[t].family
      /\ \A t \in Issued \ {old} : token'[t].status = token[t].status
      /\ old # NoToken => token'[old].status = "dead"
  BY <1>0, NoTokenOutside DEF RowInserted
<1>5. LiveOf(f)' = {n}
  <2>1. n \in LiveOf(f)'
    BY <1>4 DEF LiveOf
  <2>2. ASSUME NEW t \in LiveOf(f)', t # n PROVE FALSE
    <3>1. /\ t \in Issued /\ t # old /\ token[t].status = "live" /\ token[t].family = f
      BY <1>4, <2>2, NoTokenOutside DEF LiveOf
    <3>2. CASE old = NoToken
      BY <1>0, <3>1, <3>2 DEF BackendInv, RowsLinked
    <3>3. CASE old # NoToken
      BY <1>1, <1>3, <3>1, <3>3 DEF LiveOf
    <3> QED
      BY <3>2, <3>3
  <2> QED
    BY <2>1, <2>2
<1>6. \A g \in Tokens \ {f} : LiveOf(g)' = LiveOf(g)
  <2> SUFFICES ASSUME NEW g \in Tokens \ {f} PROVE LiveOf(g)' = LiveOf(g)
    OBVIOUS
  <2>1. old # NoToken => token[old].family = f
    BY <1>1 DEF LiveOf
  <2> QED
    BY <1>4, <2>1, NoTokenOutside DEF LiveOf, Bundles
<1>7. Heads' = (IF old = NoToken THEN Heads \cup {n} ELSE Heads)
  <2>1. old # NoToken => f # n
    BY <1>1 DEF LiveOf, BackendInv, RowsLinked
  <2>2. old = NoToken => f = n
    BY <1>0
  <2> QED
    BY <1>4, <2>1, <2>2 DEF Heads
<1>8. \A g \in Tokens \ {f} : SessionOf(g)' = SessionOf(g) /\ LiveToken(g)' = LiveToken(g)
  <2> SUFFICES ASSUME NEW g \in Tokens \ {f}
               PROVE  SessionOf(g)' = SessionOf(g) /\ LiveToken(g)' = LiveToken(g)
    OBVIOUS
  <2>1. g \in Heads' <=> g \in Heads
    BY <1>0, <1>7
  <2>2. LiveOf(g)' = LiveOf(g)
    BY <1>6
  <2>3. SessionOf(g)' = SessionOf(g)
    BY <1>2, <2>1, <2>2 DEF SessionsShown
  <2>4. LiveToken(g)' = LiveToken(g)
    <3>1. CASE LiveOf(g) = {}
      BY <1>2, <2>2, <3>1 DEF SessionsShown
    <3>2. CASE LiveOf(g) # {}
      BY <1>2, <2>2, <3>2 DEF SessionsShown
    <3> QED
      BY <3>1, <3>2
  <2> QED
    BY <2>3, <2>4
<1>9. /\ SessionOf(f) = (IF old = NoToken THEN "new" ELSE "open")
      /\ SessionOf(f)' = "open" /\ LiveToken(f)' = n
  <2>1. SessionOf(f)' = "open" /\ LiveToken(f)' = n
    BY <1>1, <1>2, <1>5 DEF SessionsShown
  <2>2. old = NoToken => f \notin Heads
    BY <1>0 DEF Heads
  <2> QED
    BY <1>1, <1>2, <2>1, <2>2 DEF SessionsShown
<1>10. Abstract!Issue(f, n)
  BY <1>1, <1>8, <1>9 DEF Abstract!Issue
<1>11. CASE old = NoToken
  <2>1. Abstract!Open(f, n)
    BY <1>1, <1>8, <1>9, <1>10, <1>11 DEF Abstract!Open
  <2> QED
    BY <1>1, <2>1 DEF Abstract!Next
<1>12. CASE old # NoToken
  <2>1. UNCHANGED [g \in Tokens |-> SessionOf(g)]
    BY <1>8, <1>9, <1>12
  <2>2. Abstract!Rotate(f, n)
    BY <1>1, <1>9, <1>10, <1>12, <2>1 DEF Abstract!Rotate
  <2> QED
    BY <1>1, <2>2 DEF Abstract!Next
<1> QED
  BY <1>11, <1>12

\* Every step of the system is a step of Sessions or leaves the sessions as they are.
LEMMA SessionsStep == GatewayInv /\ [Next]_vars => [Abstract!Next]_Abstract!vars
<1> SUFFICES ASSUME GatewayInv, GatewayInv', [Next]_vars
             PROVE  [Abstract!Next]_Abstract!vars
  BY GatewayInvStep
<1>1. BackendInv /\ BackendInv'
  BY DEF GatewayInv
<1>2. CASE UNCHANGED token
  BY <1>2, SessionsStutter
<1>3. ASSUME NEW r \in Calls, Request(r), ~UNCHANGED token
      PROVE  [Abstract!Next]_Abstract!vars
  <2>1. LogoutSent(r)
    BY <1>3 DEF Request, Begin, BeginExpired, CallDenied, CallAccepted, CallFails,
           RefreshRemembered, RefreshJoined, RefreshSent, RefreshAnswered, RefreshRefused,
           RefreshTimesOut, Unheard, LoginSent, LoginStarts, LoginAnswered, LoginRefused,
           LogoutFails, Respond, ResponseLost, backend
  <2> QED
    BY <1>1, <2>1, LogoutInv, SessionsClose DEF LogoutSent
<1>4. ASSUME NEW r \in Calls, BackendStep(r), ~UNCHANGED token
      PROVE  [Abstract!Next]_Abstract!vars
  <2>1. CASE RevokeFamily(r)
    BY <1>1, <2>1, RevokeFamilyInv, SessionsClose
  <2>2. CASE RefreshDenied(r)
    BY <1>1, <2>2, RefreshDeniedInv, SessionsClose
  <2>3. CASE RefreshCommits(r)
    BY <1>1, <2>3, RefreshCommitsInv, SessionsIssue DEF Bundles
  <2>4. CASE LoginCommits(r)
    <3>1. NoToken \in Bundles
      BY DEF Bundles
    <3> QED
      BY <1>1, <2>4, <3>1, LoginCommitsInv, SessionsIssue
  <2> QED
    BY <1>4, <2>1, <2>2, <2>3, <2>4 DEF BackendStep, Transaction, RefreshReused, RefreshStarts
<1>5. CASE Administration
  <2>1. ASSUME NEW a \in Admins, AdminCommits(a) PROVE [Abstract!Next]_Abstract!vars
    BY <1>1, <2>1, AdminCommitsInv, SessionsClose
  <2> QED
    BY <1>2, <1>5, <2>1 DEF Administration, AdminReads, AdminUpdates
<1>6. CASE TimePasses
  <2>1. ASSUME NEW t \in Tokens, RefreshExpires(t) PROVE [Abstract!Next]_Abstract!vars
    BY <1>1, <2>1, RefreshExpiresInv, SessionsClose
  <2> QED
    BY <1>6, <2>1 DEF TimePasses
<1>7. CASE Restart \/ \E k \in Tokens : Forget(k)
  BY <1>2, <1>7 DEF Restart, Forget, backend
<1> QED
  BY <1>2, <1>3, <1>4, <1>5, <1>6, <1>7 DEF Next, vars, backend

\* The tables of AuthService, under every overlap of requests, calls and commands,
\* implement sessions that have one current token, are rotated by it alone and are never
\* opened again.
THEOREM SessionsImplemented == Spec => ImplementsSessions
<1>1. Init => Abstract!Init
  <2> SUFFICES ASSUME Init PROVE Abstract!Init
    OBVIOUS
  <2>1. Issued = {} /\ BackendInv
    BY BackendInvInit DEF Init, BackendInit, Issued, NoRow
  <2>2. \A f \in Tokens : SessionOf(f) = "new" /\ LiveToken(f) = NoToken
    BY <2>1, SessionFacts DEF SessionsShown, Heads, LiveOf
  <2> QED
    BY <2>1, <2>2 DEF Abstract!Init
<1> QED
  BY <1>1, SessionsStep, GatewayInvariant, PTL DEF Spec, ImplementsSessions, Abstract!Spec

-------------------------------------------------------------------------------
(* The inductive invariant of the gateway while nothing has been lost *)

\* Bundle t is live, or the session of its family is over.
Settled(t) ==
    \A u \in Issued :
        token[u].status = "live" /\ token[u].family = token[t].family => u = t

\* Somebody has bundle t, or will be given it instead of an older one.
Wanted(t) == Held(t) \/ \E k \in Tokens : rotated[k] = t

\* Whoever has bundle t will not present it once it was replaced.
Served(t) == Settled(t) \/ InFlight(t) \/ rotated[t] # NoToken

\* A bundle is remembered with a later one of its own family.
Remembering ==
    \A k \in Tokens : rotated[k] # NoToken =>
        /\ k \in Issued
        /\ k < rotated[k]
        /\ token[rotated[k]].family = token[k].family

OnePerform ==
    \A q, r \in Calls :
        (/\ request[q].pc = "perform"
         /\ request[r].pc = "perform"
         /\ request[q].bundle = request[r].bundle)
        => q = r

\* A request that waits for a call is the one that made it.
CallsHeard ==
    \A c \in Calls :
        /\ call[c].pc \in Underway =>
              request[c].pc = "perform" /\ request[c].bundle = call[c].token
        /\ call[c].pc = "opening" => request[c].pc = "login"
        /\ call[c].pc = "answered" => request[c].pc \in {"perform", "login"}
        /\ request[c].pc = "perform" => call[c].pc \in Underway \cup {"answered"}
        /\ request[c].pc = "perform" /\ call[c].pc = "answered" /\ call[c].result # NoToken =>
              /\ request[c].bundle < call[c].result
              /\ token[call[c].result].family = token[request[c].bundle].family
        /\ request[c].pc = "respond" => request[c].sets

\* An answer that has not been heard is known to nobody else.
ResultsFresh ==
    \A c \in Calls, t \in Issued : call[c].pc = "answered" /\ call[c].result = t =>
        /\ ~Wanted(t)
        /\ rotated[t] = NoToken
        /\ \A d \in Calls \ {c} : call[d].pc = "answered" => call[d].result # t

NothingLost ==
    /\ \A t \in Issued : Wanted(t) => Served(t)
    /\ \A c \in Calls, t \in Issued :
          \/ call[c].pc \in Underway /\ call[c].token = t
          \/ call[c].pc = "answered" /\ call[c].result = t
          \/ /\ request[c].pc = "perform" /\ request[c].bundle = t
             /\ call[c].pc = "answered" /\ call[c].result = NoToken
          => Settled(t)

Calm ==
    /\ Remembering
    /\ OnePerform
    /\ CallsHeard
    /\ ResultsFresh
    /\ NothingLost
    /\ ~alarm

CalmInv == ~accident => Calm

\* Before anything has happened nothing is lost.
LEMMA CalmInit == Init => Calm
<1> SUFFICES ASSUME Init PROVE Calm
  OBVIOUS
<1>1. Issued = {}
  BY DEF Init, BackendInit, Issued, NoRow
<1>2. \A c \in Calls : call[c].pc = "none" /\ request[c].pc = "idle"
  BY DEF Init, BackendInit, NoCall, NoRequest
<1> QED
  BY <1>1, <1>2 DEF Init, Calm, Remembering, OnePerform, CallsHeard, ResultsFresh, NothingLost,
                    Underway

\* Tokens end, and no session opens.
SettledKept ==
    /\ Issued' = Issued
    /\ \A t \in Issued : token'[t].family = token[t].family
    /\ \A t \in Issued : Settled(t) => Settled(t)'

\* When tokens end, a token that was settled stays so.
LEMMA SettledKeptByEnd ==
    ASSUME NEW S, NEW s \in {"expired", "dead"}, RowsEnd(S, s), Issued' = Issued
    PROVE  SettledKept
  BY NoTokenOutside DEF SettledKept, Settled, RowsEnd

\* When no row changes, neither.
LEMMA SettledKeptByStutter == UNCHANGED token => SettledKept
  BY DEF SettledKept, Settled, Issued

\* A request goes on by itself, with a bundle that somebody wanted already.
LEMMA CalmRequest ==
    ASSUME GatewayInv, Calm, SettledKept, NEW r \in Calls, NEW new,
           request' = [request EXCEPT ![r] = new], UNCHANGED <<call, rotated, alarm>>,
           request[r].pc # "perform", new.pc # "perform",
           call[r].pc \notin Underway \cup {"opening", "answered"},
           new.pc = "respond" => new.sets,
           \A t \in Issued : cookie' = t => Wanted(t),
           \A t \in Issued : new.pc # "idle" /\ (new.bundle = t \/ (new.sets /\ new.out = t))
                                 => Wanted(t)
    PROVE  Calm'
<1> USE DEF Calm
<1>1. request'[r] = new /\ \A q \in Calls \ {r} : request'[q] = request[q]
  BY DEF GatewayInv, RequestsSound
<1>2. \A t \in Issued : Wanted(t)' => Wanted(t)
  <2> SUFFICES ASSUME NEW t \in Issued, Wanted(t)' PROVE Wanted(t)
    OBVIOUS
  <2>1. CASE cookie' = t \/ \E k \in Tokens : rotated[k] = t
    BY <2>1 DEF Wanted
  <2>2. ASSUME NEW q \in Calls, request'[q].pc # "idle",
               request'[q].bundle = t \/ (request'[q].sets /\ request'[q].out = t)
        PROVE  Wanted(t)
    BY <1>1, <2>2 DEF Wanted, Held
  <2> QED
    BY <2>1, <2>2 DEF Wanted, Held
<1>3. \A t : InFlight(t)' <=> InFlight(t)
  BY <1>1 DEF InFlight
<1>4. Remembering'
  <2>1. \A k \in Tokens : rotated[k] # NoToken => rotated[k] \in Issued
    BY DEF GatewayInv, RequestsSound, Bundles
  <2> QED
    BY <2>1 DEF Remembering, SettledKept
<1>5. OnePerform'
  BY <1>1 DEF OnePerform
<1>6. CallsHeard'
  <2>1. ASSUME NEW c \in Calls
        PROVE  /\ request[c].pc = "perform" => request[c].bundle \in Issued
               /\ call[c].result # NoToken => call[c].result \in Issued
    BY DEF GatewayInv, RequestsSound, Sound, Bundles, BackendInv, CallsSound
  <2>2. \A c \in Calls \ {r} :
           /\ request'[c] = request[c] /\ call'[c] = call[c]
           /\ request[c].pc = "perform" /\ call[c].result # NoToken =>
                 /\ token'[call[c].result].family = token[call[c].result].family
                 /\ token'[request[c].bundle].family = token[request[c].bundle].family
    BY <1>1, <2>1 DEF SettledKept
  <2> QED
    BY <1>1, <2>2 DEF CallsHeard
<1>7. ResultsFresh'
  BY <1>2 DEF ResultsFresh, SettledKept
<1>8. NothingLost'
  <2>1. ASSUME NEW t \in Issued, Wanted(t)' PROVE Served(t)'
    BY <1>2, <1>3, <2>1 DEF NothingLost, Served, SettledKept
  <2>2. ASSUME NEW c \in Calls, NEW t \in Issued,
               \/ call[c].pc \in Underway /\ call[c].token = t
               \/ call[c].pc = "answered" /\ call[c].result = t
               \/ /\ request'[c].pc = "perform" /\ request'[c].bundle = t
                  /\ call[c].pc = "answered" /\ call[c].result = NoToken
        PROVE  Settled(t)'
    BY <1>1, <2>2 DEF NothingLost, SettledKept
  <2> QED
    BY <2>1, <2>2 DEF NothingLost, SettledKept
<1> QED
  BY <1>4, <1>5, <1>6, <1>7, <1>8

\* Who holds a bundle wants it.
LEMMA HeldWanted ==
    ASSUME NEW t
    PROVE  /\ cookie = t => Wanted(t)
           /\ \A q \in Calls : request[q].pc # "idle" /\ request[q].bundle = t => Wanted(t)
           /\ \A q \in Calls : request[q].pc # "idle" /\ request[q].sets /\ request[q].out = t
                  => Wanted(t)
           /\ \A k \in Tokens : rotated[k] = t => Wanted(t)
  BY DEF Wanted, Held

\* The fields of a response.
LEMMA RespondingFields ==
    ASSUME NEW sets \in BOOLEAN, NEW out
    PROVE  LET q == Responding(sets, out)
           IN  /\ q.pc \in {"idle", "respond"}
               /\ q.bundle = NoToken
               /\ q.pc = "respond" <=> sets
               /\ q.sets = sets
               /\ q.out = (IF sets THEN out ELSE NoToken)
  BY DEF Responding, NoRequest

\* A request that is over keeps no bundle but the one its response sets.
LEMMA CalmResponding ==
    ASSUME GatewayInv, Calm, SettledKept, NEW r \in Calls, NEW sets \in BOOLEAN, NEW out,
           request' = [request EXCEPT ![r] = Responding(sets, out)],
           UNCHANGED <<call, rotated, alarm>>, cookie' = cookie,
           request[r].pc # "perform",
           call[r].pc \notin Underway \cup {"opening", "answered"},
           \/ out = NoToken
           \/ ~sets
           \/ request[r].pc # "idle" /\ request[r].sets /\ request[r].out = out
    PROVE  Calm'
<1> DEFINE new == Responding(sets, out)
<1>1. /\ new.pc # "perform" /\ (new.pc = "respond" => new.sets)
      /\ new.bundle = NoToken /\ (new.sets => new.out = out) /\ new.sets = sets
  BY RespondingFields
<1> HIDE DEF new
<1>2. request' = [request EXCEPT ![r] = new]
  BY DEF new
<1>3. \A t \in Issued : new.pc # "idle" /\ (new.bundle = t \/ (new.sets /\ new.out = t))
                           => Wanted(t)
  BY <1>1, HeldWanted, NoTokenOutside
<1>4. \A t \in Issued : cookie' = t => Wanted(t)
  BY HeldWanted
<1> QED
  BY <1>1, <1>2, <1>3, <1>4, CalmRequest

\* The steps of AloneInv that lose nothing.
LEMMA CalmAlone ==
    ASSUME GatewayInv, Calm, NEW r \in Calls,
           \/ \E kind \in Kinds : Begin(r, kind)
           \/ BeginExpired(r) \/ CallDenied(r) \/ CallAccepted(r) \/ CallFails(r)
           \/ RefreshRemembered(r) \/ RefreshJoined(r) \/ LoginRefused(r) \/ LogoutFails(r)
           \/ Respond(r)
    PROVE  Calm'
<1>1. /\ request[r] \in RequestType /\ request[r].sets \in BOOLEAN
      /\ Sound(request[r])
      /\ NoToken \notin Issued
  BY NoTokenOutside DEF GatewayInv, RequestsSound, RequestType
<1>2. /\ UNCHANGED <<call, rotated, alarm>> /\ UNCHANGED token
      /\ request[r].pc # "perform"
      /\ request[r].pc = "login" => call[r].pc = "none"
  BY DEF Begin, BeginExpired, CallDenied, CallAccepted, CallFails, RefreshRemembered,
         RefreshJoined, LoginRefused, LogoutFails, Respond, backend
<1>3. SettledKept /\ call[r].pc \notin Underway \cup {"opening", "answered"}
  BY <1>2, SettledKeptByStutter DEF Calm, CallsHeard, Underway
<1>4. ASSUME NEW kind \in Kinds, Begin(r, kind) PROVE Calm'
  <2> DEFINE new == [kind |-> kind, bundle |-> cookie, sets |-> kind = "logout",
                     out |-> NoToken,
                     pc |-> IF kind \in {"login", "logout"} THEN kind ELSE "call"]
  <2>1. /\ new.pc \notin {"perform", "respond"}
        /\ new.bundle = cookie /\ new.out = NoToken
    OBVIOUS
  <2>2. request' = [request EXCEPT ![r] = new] /\ cookie' = cookie
    BY <1>4 DEF Begin
  <2> HIDE DEF new
  <2>3. \A t \in Issued : cookie = t => Wanted(t)
    BY HeldWanted
  <2>4. \A t \in Issued : new.pc # "idle" /\ (new.bundle = t \/ (new.sets /\ new.out = t))
                             => Wanted(t)
    BY <1>1, <2>1, <2>3
  <2> QED
    BY <1>2, <1>3, <2>1, <2>2, <2>3, <2>4, CalmRequest
<1>5. ASSUME NEW sets \in BOOLEAN, NEW out,
             request' = [request EXCEPT ![r] = Responding(sets, out)], cookie' = cookie,
             \/ out = NoToken
             \/ request[r].pc # "idle" /\ request[r].sets /\ request[r].out = out
             \/ ~sets
      PROVE  Calm'
  BY <1>2, <1>3, <1>5, CalmResponding
<1>6. CASE BeginExpired(r)
  BY <1>5, <1>6 DEF BeginExpired
<1>7. ASSUME Finish(r), cookie' = cookie, request[r].pc # "idle" PROVE Calm'
  BY <1>1, <1>5, <1>7 DEF Finish
<1>8. ASSUME NEW pc \in {"refresh", "join", "login"}, Goto(r, pc), cookie' = cookie,
             request[r].pc # "idle"
      PROVE  Calm'
  <2> DEFINE new == [request[r] EXCEPT !.pc = pc]
  <2>1. /\ new.pc = pc /\ new.bundle = request[r].bundle /\ new.sets = request[r].sets
        /\ new.out = request[r].out
    BY <1>1 DEF RequestType
  <2>2. request' = [request EXCEPT ![r] = new]
    BY <1>8 DEF Goto
  <2> HIDE DEF new
  <2> QED
    BY <1>2, <1>3, <1>8, <2>1, <2>2, HeldWanted, CalmRequest, ZenonT(60)
<1>9. CASE CallDenied(r) \/ CallAccepted(r) \/ CallFails(r) \/ RefreshJoined(r)
           \/ LoginRefused(r) \/ LogoutFails(r)
  BY <1>7, <1>8, <1>9 DEF CallDenied, CallAccepted, CallFails, RefreshJoined, LoginRefused,
                         LogoutFails, Accepted
<1>10. CASE RefreshRemembered(r)
  <2> DEFINE n == rotated[request[r].bundle]
             new == [request[r] EXCEPT !.pc = "retry", !.bundle = n, !.sets = TRUE, !.out = n]
  <2>1. request[r].bundle \in Tokens
    BY <1>1, <1>10, NoTokenOutside DEF RefreshRemembered, Sound, Bundles
  <2>2. new.pc = "retry" /\ new.bundle = n /\ new.out = n
    BY <1>1 DEF RequestType
  <2>3. request' = [request EXCEPT ![r] = new] /\ cookie' = cookie
    BY <1>10 DEF RefreshRemembered
  <2>4. \A t \in Issued : n = t => Wanted(t)
    BY <2>1, HeldWanted
  <2> HIDE DEF new, n
  <2> QED
    BY <1>2, <1>3, <2>2, <2>3, <2>4, HeldWanted, CalmRequest
<1>11. CASE Respond(r)
  <2>1. NoRequest.pc = "idle"
    BY DEF NoRequest
  <2>2. /\ request' = [request EXCEPT ![r] = NoRequest]
        /\ request[r].pc = "respond" /\ cookie' = request[r].out
    BY <1>11 DEF Respond
  <2>3. request[r].sets
    BY <2>2 DEF Calm, CallsHeard
  <2> HIDE DEF NoRequest
  <2> QED
    BY <1>2, <1>3, <2>1, <2>2, <2>3, HeldWanted, CalmRequest
<1> QED
  BY <1>4, <1>6, <1>9, <1>10, <1>11

\* A logout of the gateway loses nothing: its own bundle is no longer needed.
LEMMA CalmLogout ==
    ASSUME GatewayInv, Calm, NEW r \in Calls, LogoutSent(r) PROVE Calm'
<1>1. SettledKept
  BY LogoutInv, SettledKeptByEnd DEF LogoutSent, GatewayInv
<1>2. /\ UNCHANGED <<call, rotated, alarm>> /\ cookie' = cookie
      /\ request[r].pc = "logout"
      /\ request' = [request EXCEPT ![r] = Responding(request[r].sets, request[r].out)]
  BY DEF LogoutSent, Logout, Finish
<1>3. call[r].pc \notin Underway \cup {"opening", "answered"}
  BY <1>2 DEF Calm, CallsHeard
<1>4. request[r].sets \in BOOLEAN
  BY DEF GatewayInv, RequestsSound, RequestType
<1> QED
  BY <1>1, <1>2, <1>3, <1>4, CalmResponding

\* Tokens that calls and requests name are issued.
LEMMA NamedIssued ==
    ASSUME GatewayInv
    PROVE  /\ \A c \in Calls : request[c].pc = "perform" => request[c].bundle \in Issued
           /\ \A c \in Calls : call[c].pc \in Underway => call[c].token \in Issued
           /\ \A c \in Calls : call[c].result \in Issued \cup {NoToken}
           /\ \A k \in Tokens : rotated[k] \in Issued \cup {NoToken}
           /\ request \in [Calls -> RequestType] /\ call \in [Calls -> CallType]
           /\ rotated \in [Tokens -> Bundles]
           /\ Issued \subseteq Tokens /\ NoToken \notin Issued
  BY NoTokenOutside
     DEF GatewayInv, RequestsSound, Sound, Bundles, BackendInv, BackendTypeOK, CallsSound

\* performRefresh: a bundle is presented that was not replaced.
LEMMA CalmSent ==
    ASSUME GatewayInv, Calm, NEW r \in Calls, RefreshSent(r) PROVE Calm'
<1> USE DEF Calm
<1> DEFINE k == request[r].bundle
<1>1. /\ k \in Issued /\ request[r].pc = "refresh"
      /\ rotated[k] = NoToken /\ ~InFlight(k)
  BY DEF RefreshSent, GatewayInv, RequestsSound, Sound, Bundles
<1>2. Settled(k)
  BY <1>1, HeldWanted DEF NothingLost, Served
<1>3. PICK b \in Issued : b = k
  BY <1>1
<1>4. /\ request'[r].pc = "perform" /\ request'[r].bundle = b
      /\ request'[r].sets = request[r].sets /\ request'[r].out = request[r].out
      /\ \A q \in Calls \ {r} : request'[q] = request[q]
  BY <1>3 DEF RefreshSent, Goto, GatewayInv, RequestsSound, RequestType
<1>5. /\ call'[r].pc = "sent" /\ call'[r].token = b /\ call'[r].result = NoToken
      /\ \A c \in Calls \ {r} : call'[c] = call[c]
  BY <1>3, NamedIssued DEF RefreshSent, NoCall
<1>6. /\ UNCHANGED <<token, cookie, rotated, alarm>>
      /\ Issued' = Issued
      /\ \A t : Settled(t)' <=> Settled(t)
  BY DEF RefreshSent, Issued, Settled
<1> HIDE DEF k
<1>7. \A t : Held(t)' <=> Held(t)
  BY <1>1, <1>3, <1>4, <1>6 DEF k, Held
<1>8. \A t : InFlight(t) => InFlight(t)'
  BY <1>1, <1>4 DEF InFlight
<1>9. Remembering'
  BY <1>6 DEF Remembering
<1>10. OnePerform'
  BY <1>1, <1>3, <1>4 DEF OnePerform, InFlight
<1>11. CallsHeard'
  BY <1>4, <1>5, <1>6 DEF CallsHeard, Underway
<1>12. ResultsFresh'
  BY <1>5, <1>6, <1>7 DEF ResultsFresh, Wanted
<1>13. NothingLost'
  <2>1. ASSUME NEW t \in Issued, Wanted(t)' PROVE Served(t)'
    BY <1>6, <1>7, <1>8, <2>1 DEF NothingLost, Served, Wanted
  <2>2. ASSUME NEW c \in Calls, NEW t \in Issued,
               \/ call'[c].pc \in Underway /\ call'[c].token = t
               \/ call'[c].pc = "answered" /\ call'[c].result = t
               \/ /\ request'[c].pc = "perform" /\ request'[c].bundle = t
                  /\ call'[c].pc = "answered" /\ call'[c].result = NoToken
        PROVE  Settled(t)
    <3>1. CASE c = r
      BY <1>2, <1>3, <1>5, <2>2, <3>1, NoTokenOutside DEF k
    <3>2. CASE c # r
      BY <1>4, <1>5, <2>2, <3>2 DEF NothingLost
    <3> QED
      BY <3>1, <3>2
  <2> QED
    BY <1>6, <2>1, <2>2 DEF NothingLost
<1> QED
  BY <1>6, <1>9, <1>10, <1>11, <1>12, <1>13

\* The call of a request is over, and everybody who waited for it is answered: with a new
\* bundle that is remembered, or without one.
LEMMA CalmWaiters ==
    ASSUME GatewayInv, Calm, NEW r \in Calls, NEW k \in Issued, NEW n,
           request[r].pc = "perform", request[r].bundle = k,
           \/ /\ n = NoToken /\ Settled(k) /\ rotated' = rotated
           \/ /\ call[r].pc = "answered" /\ call[r].result = n /\ n # NoToken
              /\ rotated' = [rotated EXCEPT ![k] = n],
           call' = [call EXCEPT ![r] = NoCall],
           request' \in [Calls -> RequestType],
           \A q \in Calls \ Waiting(r) : request'[q] = request[q],
           \A q \in Waiting(r) :
              /\ request'[q].pc # "perform" /\ (request'[q].pc = "respond" => request'[q].sets)
              /\ request'[q].bundle = n /\ request'[q].out = n,
           UNCHANGED <<token, cookie, alarm>>
    PROVE  Calm'
<1> USE DEF Calm
<1>1. /\ Issued' = Issued /\ \A t : Settled(t)' <=> Settled(t)
  BY DEF Issued, Settled
<1>2. /\ Waiting(r) \subseteq Calls /\ r \in Waiting(r)
      /\ \A q \in Waiting(r) : q = r \/ request[q].pc = "join"
  BY DEF Waiting
<1>3. \A q \in Calls : request'[q].pc = "perform" => request'[q] = request[q] /\ q # r
  BY <1>2
<1>4. /\ call'[r].pc = "none"
      /\ \A c \in Calls \ {r} : call'[c] = call[c]
  BY NamedIssued DEF NoCall
<1>5. n # NoToken => /\ n \in Issued /\ k < n /\ token[n].family = token[k].family
                     /\ Settled(n) /\ rotated[n] = NoToken /\ ~Wanted(n)
                     /\ \A d \in Calls \ {r} : call[d].pc = "answered" => call[d].result # n
  BY NamedIssued DEF CallsHeard, ResultsFresh, NothingLost
<1>6. \A j \in Tokens \ {k} : rotated'[j] = rotated[j]
  BY NamedIssued
<1>7. n # NoToken => rotated'[k] = n
  BY NamedIssued
<1>8. \A t \in Issued : Wanted(t)' => Wanted(t) \/ t = n
  <2> SUFFICES ASSUME NEW t \in Issued, Wanted(t)', t # n PROVE Wanted(t)
    OBVIOUS
  <2>1. CASE cookie' = t
    BY <2>1 DEF Wanted, Held
  <2>2. ASSUME NEW j \in Tokens, rotated'[j] = t PROVE Wanted(t)
    BY <1>6, <1>7, <2>2, NamedIssued DEF Wanted
  <2>3. ASSUME NEW q \in Calls, request'[q].pc # "idle",
               request'[q].bundle = t \/ (request'[q].sets /\ request'[q].out = t)
        PROVE  Wanted(t)
    BY <2>3 DEF Wanted, Held
  <2> QED
    BY <2>1, <2>2, <2>3 DEF Wanted, Held
<1>9. \A t \in Issued \ {k} : InFlight(t) => InFlight(t)'
  <2> SUFFICES ASSUME NEW t \in Issued \ {k}, NEW q \in Calls,
                      request[q].pc = "perform", request[q].bundle = t
               PROVE  InFlight(t)'
    BY DEF InFlight
  <2>1. q \notin Waiting(r)
    BY <1>2
  <2> QED
    BY <2>1 DEF InFlight
<1>10. Remembering'
  <2> SUFFICES ASSUME NEW j \in Tokens, rotated'[j] # NoToken
               PROVE  /\ j \in Issued /\ j < rotated'[j]
                      /\ token[rotated'[j]].family = token[j].family
    BY <1>1 DEF Remembering
  <2>1. CASE rotated'[j] = rotated[j]
    BY <2>1 DEF Remembering
  <2>2. CASE rotated'[j] # rotated[j]
    BY <1>5, <1>6, <1>7, <2>2
  <2> QED
    BY <2>1, <2>2
<1>11. OnePerform'
  BY <1>3 DEF OnePerform
<1>12. CallsHeard'
  <2> SUFFICES ASSUME NEW c \in Calls
               PROVE  /\ call'[c].pc \in Underway =>
                            request'[c].pc = "perform" /\ request'[c].bundle = call'[c].token
                      /\ call'[c].pc = "opening" => request'[c].pc = "login"
                      /\ call'[c].pc = "answered" => request'[c].pc \in {"perform", "login"}
                      /\ request'[c].pc = "perform" => call'[c].pc \in Underway \cup {"answered"}
                      /\ (/\ request'[c].pc = "perform"
                          /\ call'[c].pc = "answered" /\ call'[c].result # NoToken) =>
                            /\ request'[c].bundle < call'[c].result
                            /\ token'[call'[c].result].family = token'[request'[c].bundle].family
                      /\ request'[c].pc = "respond" => request'[c].sets
    BY DEF CallsHeard
  <2>1. CASE c = r
    BY <1>2, <1>4, <2>1 DEF Underway
  <2>2. CASE c \in Waiting(r) \ {r}
    BY <1>2, <1>4, <2>2 DEF CallsHeard, Underway
  <2>3. CASE c \notin Waiting(r)
    BY <1>2, <1>4, <2>3 DEF CallsHeard
  <2> QED
    BY <2>1, <2>2, <2>3
<1>13. ResultsFresh'
  <2> SUFFICES ASSUME NEW c \in Calls, NEW t \in Issued,
                      call'[c].pc = "answered" /\ call'[c].result = t
               PROVE  /\ ~Wanted(t)'
                      /\ rotated'[t] = NoToken
                      /\ \A d \in Calls \ {c} : call'[d].pc = "answered" => call'[d].result # t
    BY <1>1 DEF ResultsFresh
  <2>1. /\ c # r /\ call[c].pc = "answered" /\ call[c].result = t
    BY <1>4
  <2>2. t # n
    BY <1>5, <2>1, NamedIssued
  <2>3. ~Wanted(t) /\ rotated[t] = NoToken
        /\ \A d \in Calls \ {c} : call[d].pc = "answered" => call[d].result # t
    BY <2>1 DEF ResultsFresh
  <2>4. t # k
    BY <2>3, HeldWanted
  <2> QED
    BY <1>4, <1>6, <1>8, <2>2, <2>3, <2>4, NamedIssued
<1>14. NothingLost'
  <2>1. ASSUME NEW t \in Issued, Wanted(t)' PROVE Served(t)'
    <3>1. CASE t = n
      BY <1>1, <1>5, <3>1, NamedIssued DEF Served
    <3>2. CASE t = k
      BY <1>1, <1>7, <3>2 DEF Served
    <3>3. CASE t # n /\ t # k
      <4>1. Wanted(t) /\ Served(t)
        BY <1>8, <2>1, <3>3 DEF NothingLost
      <4>2. rotated'[t] = rotated[t]
        BY <1>6, <3>3, NamedIssued
      <4> QED
        BY <1>1, <1>9, <3>3, <4>1, <4>2 DEF Served
    <3> QED
      BY <3>1, <3>2, <3>3
  <2>2. ASSUME NEW c \in Calls, NEW t \in Issued,
               \/ call'[c].pc \in Underway /\ call'[c].token = t
               \/ call'[c].pc = "answered" /\ call'[c].result = t
               \/ /\ request'[c].pc = "perform" /\ request'[c].bundle = t
                  /\ call'[c].pc = "answered" /\ call'[c].result = NoToken
        PROVE  Settled(t)
    BY <1>3, <1>4, <2>2 DEF NothingLost, Underway
  <2> QED
    BY <1>1, <2>1, <2>2 DEF NothingLost
<1> QED
  BY <1>10, <1>11, <1>12, <1>13, <1>14

\* The new bundle is remembered before the entry of refreshes goes away.
LEMMA CalmAnswered ==
    ASSUME GatewayInv, Calm, NEW r \in Calls, RefreshAnswered(r) PROVE Calm'
<1> DEFINE n == call[r].result
           k == request[r].bundle
<1>1. /\ request[r].pc = "perform" /\ call[r].pc = "answered" /\ n # NoToken
      /\ rotated' = [rotated EXCEPT ![k] = n]
      /\ call' = [call EXCEPT ![r] = NoCall]
      /\ UNCHANGED <<token, cookie, alarm>>
      /\ request' = [q \in Calls |->
              IF q \in Waiting(r)
              THEN [request[q] EXCEPT !.pc = "retry", !.bundle = n, !.sets = TRUE, !.out = n]
              ELSE request[q]]
  BY DEF RefreshAnswered, Remember
<1>2. k \in Issued /\ request \in [Calls -> RequestType] /\ Waiting(r) \subseteq Calls
  BY <1>1, NamedIssued DEF Waiting
<1>3. request' \in [Calls -> RequestType]
  BY RefreshAnsweredInv DEF GatewayInv, RequestsSound
<1>4. /\ \A q \in Calls \ Waiting(r) : request'[q] = request[q]
      /\ \A q \in Waiting(r) :
            /\ request'[q].pc # "perform" /\ (request'[q].pc = "respond" => request'[q].sets)
            /\ request'[q].bundle = n /\ request'[q].out = n
  BY <1>1, <1>2 DEF RequestType
<1> HIDE DEF n, k
<1>5. PICK b \in Issued : b = k
  BY <1>2
<1>9. PICK m : m = n
  OBVIOUS
<1>6. /\ request[r].bundle = b /\ call[r].result = m
      /\ rotated' = [rotated EXCEPT ![b] = m]
      /\ m # NoToken
  BY <1>1, <1>5, <1>9 DEF n, k
<1>7. \A q \in Waiting(r) :
         /\ request'[q].pc # "perform" /\ (request'[q].pc = "respond" => request'[q].sets)
         /\ request'[q].bundle = m /\ request'[q].out = m
  BY <1>4, <1>5, <1>9
<1>8. /\ request[r].pc = "perform" /\ call[r].pc = "answered"
      /\ call' = [call EXCEPT ![r] = NoCall]
      /\ UNCHANGED <<token, cookie, alarm>>
      /\ \A q \in Calls \ Waiting(r) : request'[q] = request[q]
  BY <1>1, <1>4
<1>10. \/ /\ m = NoToken /\ Settled(b) /\ rotated' = rotated
       \/ /\ call[r].pc = "answered" /\ call[r].result = m /\ m # NoToken
          /\ rotated' = [rotated EXCEPT ![b] = m]
  BY <1>6, <1>8
<1>11. request[r].pc = "perform" /\ request[r].bundle = b
  BY <1>6, <1>8
<1> QED
  BY <1>3, <1>7, <1>8, <1>10, <1>11, CalmWaiters, ZenonT(60)

\* A refused refresh sends everybody who waits to the login.
LEMMA CalmRefused ==
    ASSUME GatewayInv, Calm, NEW r \in Calls, RefreshRefused(r) PROVE Calm'
<1> DEFINE k == request[r].bundle
           n == NoToken
<1>1. /\ request[r].pc = "perform"
      /\ call' = [call EXCEPT ![r] = NoCall]
      /\ UNCHANGED <<token, cookie, rotated, alarm>>
      /\ request' = [q \in Calls |->
              IF q \in Waiting(r) THEN Responding(TRUE, NoToken) ELSE request[q]]
  BY DEF RefreshRefused, GiveUp
<1>2. k \in Issued /\ Waiting(r) \subseteq Calls
  BY <1>1, NamedIssued DEF Waiting
<1>3. request' \in [Calls -> RequestType]
  BY CallingInv DEF GatewayInv, RequestsSound
<1>4. /\ \A q \in Calls \ Waiting(r) : request'[q] = request[q]
      /\ \A q \in Waiting(r) :
            /\ request'[q].pc # "perform" /\ (request'[q].pc = "respond" => request'[q].sets)
            /\ request'[q].bundle = n /\ request'[q].out = n
  BY <1>1, <1>2, RespondingFields
<1>5. Settled(k)
  <2>1. PICK t \in Issued : t = k
    BY <1>2
  <2>2. CASE call[r].pc = "sent"
    BY <1>1, <2>1, <2>2 DEF Calm, CallsHeard, NothingLost, Underway
  <2>3. CASE call[r].pc = "answered" /\ call[r].result = NoToken
    BY <1>1, <2>1, <2>3 DEF Calm, NothingLost
  <2> QED
    BY <2>2, <2>3 DEF RefreshRefused
<1> HIDE DEF k
<1>6. request[r].bundle = k /\ n = NoToken
  BY DEF k
<1> QED
  BY <1>1, <1>2, <1>3, <1>4, <1>5, <1>6, CalmWaiters

\* loginUpstream: the request answers with the new bundle.
LEMMA CalmLoginAnswered ==
    ASSUME GatewayInv, Calm, NEW r \in Calls, LoginAnswered(r) PROVE Calm'
<1> USE DEF Calm
<1>1. PICK n : n = call[r].result
  OBVIOUS
<1>2. /\ request[r].pc = "login" /\ call[r].pc = "answered"
      /\ UNCHANGED <<token, cookie, rotated, alarm>>
      /\ n \in Issued \cup {NoToken}
  BY <1>1, NamedIssued DEF LoginAnswered
<1>3. /\ call'[r].pc = "none"
      /\ \A c \in Calls \ {r} : call'[c] = call[c]
  BY NamedIssued DEF LoginAnswered, NoCall
<1>4. /\ request'[r].pc \in {"logout", "respond"} /\ request'[r].sets /\ request'[r].out = n
      /\ request'[r].bundle \in {request[r].bundle, NoToken}
      /\ \A q \in Calls \ {r} : request'[q] = request[q]
  <2>1. /\ request[r] \in RequestType /\ request \in [Calls -> RequestType]
        /\ request' = [request EXCEPT ![r] =
              IF request[r].kind = "switch"
              THEN [request[r] EXCEPT !.sets = TRUE, !.out = n, !.pc = "logout"]
              ELSE Responding(TRUE, n)]
    BY <1>1, NamedIssued DEF LoginAnswered
  <2>2. LET q == Responding(TRUE, n)
        IN  q.pc = "respond" /\ q.bundle = NoToken /\ q.sets /\ q.out = n
    BY DEF Responding, NoRequest
  <2>3. CASE request[r].kind = "switch"
    BY <2>1, <2>3 DEF RequestType
  <2>4. CASE request[r].kind # "switch"
    BY <2>1, <2>2, <2>4
  <2> QED
    BY <2>3, <2>4
<1>5. /\ Issued' = Issued /\ \A t : Settled(t)' <=> Settled(t)
  BY <1>2 DEF Issued, Settled
<1>6. n # NoToken => /\ Settled(n)
                     /\ \A d \in Calls \ {r} : call[d].pc = "answered" => call[d].result # n
  BY <1>1, <1>2 DEF ResultsFresh, NothingLost
<1>7. \A t \in Issued : Wanted(t)' => Wanted(t) \/ t = n
  <2> SUFFICES ASSUME NEW t \in Issued, Wanted(t)', t # n PROVE Wanted(t)
    OBVIOUS
  <2>1. CASE cookie' = t \/ \E j \in Tokens : rotated'[j] = t
    BY <1>2, <2>1 DEF Wanted, Held
  <2>2. ASSUME NEW q \in Calls, request'[q].pc # "idle",
               request'[q].bundle = t \/ (request'[q].sets /\ request'[q].out = t)
        PROVE  Wanted(t)
    BY <1>2, <1>4, <2>2, NamedIssued DEF Wanted, Held
  <2> QED
    BY <2>1, <2>2 DEF Wanted, Held
<1>8. \A t : InFlight(t)' <=> InFlight(t)
  BY <1>2, <1>4 DEF InFlight
<1>9. Remembering' /\ OnePerform'
  BY <1>2, <1>4, <1>5 DEF Remembering, OnePerform
<1>10. CallsHeard'
  BY <1>2, <1>3, <1>4 DEF CallsHeard, Underway
<1>11. ResultsFresh'
  <2> SUFFICES ASSUME NEW c \in Calls, NEW t \in Issued,
                      call'[c].pc = "answered" /\ call'[c].result = t
               PROVE  /\ ~Wanted(t)'
                      /\ rotated'[t] = NoToken
                      /\ \A d \in Calls \ {c} : call'[d].pc = "answered" => call'[d].result # t
    BY <1>5 DEF ResultsFresh
  <2>1. c # r /\ call[c].pc = "answered" /\ call[c].result = t
    BY <1>3
  <2>2. t # n
    BY <1>6, <2>1, NamedIssued
  <2>3. /\ ~Wanted(t) /\ rotated[t] = NoToken
        /\ \A d \in Calls \ {c} : call[d].pc = "answered" => call[d].result # t
    BY <2>1 DEF ResultsFresh
  <2> QED
    BY <1>2, <1>3, <1>7, <2>2, <2>3
<1>12. NothingLost'
  <2>1. ASSUME NEW t \in Issued, Wanted(t)' PROVE Served(t)'
    <3>1. CASE t = n
      BY <1>5, <1>6, <3>1, NamedIssued DEF Served
    <3>2. CASE t # n
      BY <1>2, <1>5, <1>7, <1>8, <2>1, <3>2 DEF NothingLost, Served
    <3> QED
      BY <3>1, <3>2
  <2>2. ASSUME NEW c \in Calls, NEW t \in Issued,
               \/ call'[c].pc \in Underway /\ call'[c].token = t
               \/ call'[c].pc = "answered" /\ call'[c].result = t
               \/ /\ request'[c].pc = "perform" /\ request'[c].bundle = t
                  /\ call'[c].pc = "answered" /\ call'[c].result = NoToken
        PROVE  Settled(t)
    BY <1>3, <1>4, <2>2 DEF NothingLost, Underway
  <2> QED
    BY <1>5, <2>1, <2>2 DEF NothingLost
<1> QED
  BY <1>2, <1>9, <1>10, <1>11, <1>12

\* A remembered bundle is forgotten when nobody has it any more.
LEMMA CalmForget ==
    ASSUME GatewayInv, Calm, NEW k \in Tokens, Forget(k), ~accident' PROVE Calm'
<1> USE DEF Calm
<1>1. ~Held(k) /\ rotated[k] # NoToken
      /\ \A j \in Tokens : rotated[j] # NoToken => rotated[k] <= rotated[j]
  BY DEF Forget
<1>2. /\ UNCHANGED <<token, call, request, cookie, alarm>>
      /\ Issued' = Issued /\ \A t : Settled(t)' <=> Settled(t)
      /\ \A t : (Held(t)' <=> Held(t)) /\ (InFlight(t)' <=> InFlight(t))
  BY DEF Forget, backend, Issued, Settled, Held, InFlight
<1>3. rotated'[k] = NoToken /\ \A j \in Tokens \ {k} : rotated'[j] = rotated[j]
  BY NamedIssued DEF Forget
<1>4. ~Wanted(k)
  <2>1. ASSUME NEW j \in Tokens, rotated[j] = k PROVE FALSE
    <3>1. /\ rotated[j] # NoToken /\ j < rotated[j] /\ rotated[k] \in Issued
          /\ k < rotated[k] /\ rotated[k] <= rotated[j]
      BY <1>1, <2>1, NamedIssued, NoTokenOutside DEF Remembering
    <3>2. k \in Nat /\ rotated[k] \in Nat
      BY <3>1, NoTokenOutside
    <3>3. rotated[k] <= k
      BY <2>1, <3>1
    <3> QED
      BY <3>1, <3>2, <3>3
  <2> QED
    BY <1>1, <2>1 DEF Wanted
<1>5. \A t \in Issued : Wanted(t)' => Wanted(t) /\ t # k
  BY <1>1, <1>2, <1>3, <1>4, NamedIssued DEF Wanted
<1>6. \A t \in Issued \ {k} : rotated'[t] = rotated[t]
  BY <1>3, NamedIssued
<1>7. Remembering'
  BY <1>2, <1>3 DEF Remembering
<1>8. OnePerform' /\ CallsHeard'
  BY <1>2 DEF OnePerform, CallsHeard
<1>9. ResultsFresh'
  <2> SUFFICES ASSUME NEW c \in Calls, NEW t \in Issued,
                      call[c].pc = "answered" /\ call[c].result = t
               PROVE  /\ ~Wanted(t)'
                      /\ rotated'[t] = NoToken
                      /\ \A d \in Calls \ {c} : call[d].pc = "answered" => call[d].result # t
    BY <1>2 DEF ResultsFresh
  <2> QED
    BY <1>3, <1>5, <1>6 DEF ResultsFresh
<1>10. NothingLost'
  <2>1. ASSUME NEW t \in Issued, Wanted(t)' PROVE Served(t)'
    BY <1>2, <1>5, <1>6, <2>1 DEF NothingLost, Served
  <2> QED
    BY <1>2, <2>1 DEF NothingLost
<1> QED
  BY <1>2, <1>7, <1>8, <1>9, <1>10

\* A step of the backend that issues nothing.
LEMMA CalmCall ==
    ASSUME GatewayInv, Calm, SettledKept, NEW r \in Calls, NEW new,
           call' = [call EXCEPT ![r] = new], UNCHANGED <<cookie, request, rotated, alarm>>,
           new.pc \in Underway => call[r].pc \in Underway /\ new.token = call[r].token,
           new.pc = "opening" => request[r].pc = "login",
           new.pc = "answered" => call[r].pc \in Underway /\ new.result = NoToken,
           call[r].pc \in Underway => new.pc \in Underway \cup {"answered"},
           request[r].pc = "perform" => call[r].pc \in Underway
    PROVE  Calm'
<1> USE DEF Calm
<1>1. call'[r] = new /\ \A c \in Calls \ {r} : call'[c] = call[c]
  BY NamedIssued
<1>2. Issued' = Issued /\ \A t \in Issued : token'[t].family = token[t].family
  BY DEF SettledKept
<1>3. \A t : (Wanted(t)' <=> Wanted(t)) /\ (InFlight(t)' <=> InFlight(t))
  BY DEF Wanted, Held, InFlight
<1>4. Remembering' /\ OnePerform'
  BY <1>2, NamedIssued DEF Remembering, OnePerform
<1>5. CallsHeard'
  <2> SUFFICES ASSUME NEW c \in Calls
               PROVE  /\ call'[c].pc \in Underway =>
                            request[c].pc = "perform" /\ request[c].bundle = call'[c].token
                      /\ call'[c].pc = "opening" => request[c].pc = "login"
                      /\ call'[c].pc = "answered" => request[c].pc \in {"perform", "login"}
                      /\ request[c].pc = "perform" => call'[c].pc \in Underway \cup {"answered"}
                      /\ (/\ request[c].pc = "perform"
                          /\ call'[c].pc = "answered" /\ call'[c].result # NoToken) =>
                            /\ request[c].bundle < call'[c].result
                            /\ token'[call'[c].result].family = token'[request[c].bundle].family
                      /\ request[c].pc = "respond" => request[c].sets
    BY DEF CallsHeard
  <2>1. CASE c = r
    BY <1>1, <2>1 DEF CallsHeard
  <2>2. CASE c # r
    BY <1>1, <1>2, <2>2, NamedIssued DEF CallsHeard
  <2> QED
    BY <2>1, <2>2
<1>6. ResultsFresh'
  <2> SUFFICES ASSUME NEW c \in Calls, NEW t \in Issued,
                      call'[c].pc = "answered" /\ call'[c].result = t
               PROVE  /\ ~Wanted(t)
                      /\ rotated[t] = NoToken
                      /\ \A d \in Calls \ {c} : call'[d].pc = "answered" => call'[d].result # t
    BY <1>2, <1>3 DEF ResultsFresh
  <2>1. c # r
    BY <1>1, NamedIssued
  <2> QED
    BY <1>1, <2>1, NamedIssued DEF ResultsFresh
<1>7. NothingLost'
  <2>1. ASSUME NEW t \in Issued, Wanted(t) PROVE Served(t)'
    BY <1>3, <2>1 DEF NothingLost, Served, SettledKept
  <2>2. ASSUME NEW c \in Calls, NEW t \in Issued,
               \/ call'[c].pc \in Underway /\ call'[c].token = t
               \/ call'[c].pc = "answered" /\ call'[c].result = t
               \/ /\ request[c].pc = "perform" /\ request[c].bundle = t
                  /\ call'[c].pc = "answered" /\ call'[c].result = NoToken
        PROVE  Settled(t)
    <3>1. CASE c = r
      BY <1>1, <2>2, <3>1, NamedIssued DEF NothingLost, CallsHeard
    <3>2. CASE c # r
      BY <1>1, <2>2, <3>2 DEF NothingLost
    <3> QED
      BY <3>1, <3>2
  <2> QED
    BY <1>2, <1>3, <2>1, <2>2 DEF NothingLost, SettledKept
<1> QED
  BY <1>4, <1>5, <1>6, <1>7

\* What the steps of the backend know of the tokens of calls: a reuse ends no live token.
LEMMA CalmReuse ==
    ASSUME GatewayInv, Calm, NEW r \in Calls, call[r].pc = "revoking"
    PROVE  \A t \in call[r].targets : token[t].status # "live"
<1> SUFFICES ASSUME NEW t \in call[r].targets, token[t].status = "live" PROVE FALSE
  OBVIOUS
<1>1. PICK k \in Issued : k = call[r].token
  BY NamedIssued DEF Underway
<1>2. t \in Issued /\ token[t].family = token[k].family /\ token[k].status = "dead"
  BY <1>1 DEF GatewayInv, BackendInv, CallsSound
<1>3. Settled(k)
  BY <1>1 DEF Calm, NothingLost, Underway
<1> QED
  BY <1>2, <1>3 DEF Settled

\* The transactions that issue nothing.
LEMMA CalmTransaction ==
    ASSUME GatewayInv, Calm, NEW r \in Calls, BackendStep(r),
           \/ RefreshReused(r) \/ RevokeFamily(r) \/ RefreshDenied(r) \/ RefreshStarts(r)
    PROVE  Calm'
<1>1. UNCHANGED <<cookie, request, rotated, alarm>>
  BY CalmReuse DEF BackendStep, Calm, GatewayInv
<1>2. call[r] \in CallType /\ call[r].pc \in Underway
  BY NamedIssued DEF RefreshReused, RevokeFamily, RefreshDenied, RefreshStarts, Underway
<1>3. CASE RefreshReused(r)
  <2> DEFINE new == [call[r] EXCEPT !.pc = "revoking",
                                    !.targets = Unrevoked \cap Family(call[r].token)]
  <2>1. new.pc = "revoking" /\ new.token = call[r].token
    BY <1>2 DEF CallType
  <2>2. call' = [call EXCEPT ![r] = new] /\ UNCHANGED token
    BY <1>2, <1>3, NamedIssued DEF RefreshReused, CallType
  <2> HIDE DEF new
  <2> QED
    BY <1>1, <1>2, <2>1, <2>2, SettledKeptByStutter, CalmCall DEF Underway
<1>4. CASE RefreshStarts(r)
  <2> DEFINE new == [call[r] EXCEPT !.pc = "rotating", !.ver = user.ver, !.since = epoch]
  <2>1. new.pc = "rotating" /\ new.token = call[r].token
    BY <1>2 DEF CallType
  <2>2. call' = [call EXCEPT ![r] = new] /\ UNCHANGED token
    BY <1>2, <1>4, NamedIssued DEF RefreshStarts, CallType
  <2> HIDE DEF new
  <2> QED
    BY <1>1, <1>2, <2>1, <2>2, SettledKeptByStutter, CalmCall DEF Underway
<1>5. CASE RevokeFamily(r) \/ RefreshDenied(r)
  <2> DEFINE new == [NoCall EXCEPT !.pc = "answered", !.result = NoToken]
  <2>1. new.pc = "answered" /\ new.result = NoToken
    BY DEF NoCall
  <2>2. call' = [call EXCEPT ![r] = new]
    BY <1>5 DEF RevokeFamily, RefreshDenied, Answer
  <2>3. SettledKept
    BY <1>5, RevokeFamilyInv, RefreshDeniedInv, SettledKeptByEnd DEF GatewayInv
  <2> HIDE DEF new
  <2> QED
    BY <1>1, <1>2, <2>1, <2>2, <2>3, CalmCall DEF Underway
<1> QED
  BY <1>3, <1>4, <1>5

\* loginUpstream: its call begins.
LEMMA CalmLoginSent ==
    ASSUME GatewayInv, Calm, NEW r \in Calls, LoginSent(r) PROVE Calm'
<1> DEFINE new == [NoCall EXCEPT !.pc = "opening", !.ver = user.ver, !.since = epoch]
<1>1. new.pc = "opening"
  BY DEF NoCall
<1>2. /\ call' = [call EXCEPT ![r] = new] /\ UNCHANGED token
      /\ request[r].pc = "login" /\ call[r].pc = "none"
      /\ UNCHANGED <<cookie, request, rotated, alarm>>
  BY DEF LoginSent, LoginStarts, gateway
<1> HIDE DEF new
<1> QED
  BY <1>1, <1>2, SettledKeptByStutter, CalmCall DEF Underway

\* Tokens end without a call of the gateway.
LEMMA CalmQuiet ==
    ASSUME GatewayInv, Calm, SettledKept, UNCHANGED <<call, cookie, request, rotated, alarm>>
    PROVE  Calm'
<1> USE DEF Calm
<1>1. Issued' = Issued /\ \A t \in Issued : token'[t].family = token[t].family
  BY DEF SettledKept
<1>2. \A t : (Wanted(t)' <=> Wanted(t)) /\ (InFlight(t)' <=> InFlight(t))
  BY DEF Wanted, Held, InFlight
<1>3. Remembering' /\ OnePerform'
  BY <1>1, NamedIssued DEF Remembering, OnePerform
<1>4. CallsHeard'
  BY <1>1, NamedIssued DEF CallsHeard
<1>5. ResultsFresh'
  BY <1>1, <1>2 DEF ResultsFresh
<1>6. NothingLost'
  <2>1. ASSUME NEW t \in Issued, Wanted(t) PROVE Served(t)'
    BY <1>2, <2>1 DEF NothingLost, Served, SettledKept
  <2> QED
    BY <1>1, <1>2, <2>1 DEF NothingLost, SettledKept
<1> QED
  BY <1>3, <1>4, <1>5, <1>6

\* Commands and time only end tokens.
LEMMA CalmOutside ==
    ASSUME GatewayInv, Calm, Administration \/ TimePasses, UNCHANGED gateway PROVE Calm'
<1>1. UNCHANGED <<call, cookie, request, rotated, alarm>>
  BY DEF Administration, AdminReads, AdminUpdates, AdminCommits, TimePasses, RefreshExpires,
         gateway
<1>2. ASSUME NEW a \in Admins, AdminCommits(a) PROVE SettledKept
  BY <1>2, AdminCommitsInv, SettledKeptByEnd DEF GatewayInv
<1>3. ASSUME NEW t \in Tokens, RefreshExpires(t) PROVE SettledKept
  BY <1>3, RefreshExpiresInv, SettledKeptByEnd DEF GatewayInv
<1>4. ASSUME UNCHANGED token PROVE SettledKept
  BY <1>4, SettledKeptByStutter
<1>5. SettledKept
  BY <1>2, <1>3, <1>4 DEF Administration, AdminReads, AdminUpdates, TimePasses
<1> QED
  BY <1>1, <1>5, CalmQuiet

\* A bundle is new until its request hears of it.
LEMMA CalmIssued ==
    ASSUME GatewayInv, Calm, NEW r \in Calls, NEW n \in Tokens \ Issued, NEW old \in Bundles,
           IF old = NoToken THEN call[r].pc = "opening"
                            ELSE call[r].pc = "rotating" /\ call[r].token = old,
           old # NoToken => old \in Issued /\ token[old].status = "live" /\ old < n,
           RowInserted(r, n, old), Issued' = Issued \cup {n},
           call' = [call EXCEPT ![r] = [NoCall EXCEPT !.pc = "answered", !.result = n]],
           UNCHANGED <<cookie, request, rotated, alarm>>
    PROVE  Calm'
<1> USE DEF Calm
<1>1. /\ call'[r].pc = "answered" /\ call'[r].result = n /\ n # NoToken
      /\ \A c \in Calls \ {r} : call'[c] = call[c]
  BY NamedIssued, NoTokenOutside DEF NoCall
<1>2. /\ \A t \in Issued : token'[t].family = token[t].family
      /\ \A t \in Issued \ {old} : token'[t].status = token[t].status
      /\ token'[n].family = (IF old = NoToken THEN n ELSE token[old].family)
      /\ old # NoToken => token'[old].status = "dead"
  BY NoTokenOutside DEF RowInserted
<1>3. \A t \in Issued : token[t].family \in Issued
  BY DEF GatewayInv, BackendInv, RowsLinked
<1>4. \A t \in Issued \ {old} : Settled(t) => Settled(t)'
  <2> SUFFICES ASSUME NEW t \in Issued \ {old}, Settled(t), NEW u \in Issued \cup {n},
                      token'[u].status = "live", token'[u].family = token'[t].family
               PROVE  u = t
    BY DEF Settled
  <2>1. CASE u = n
    BY <1>2, <1>3, <2>1 DEF Settled
  <2>2. CASE u # n
    <3>1. u # old
      BY <1>2, <2>2, NamedIssued
    <3> QED
      BY <1>2, <2>2, <3>1 DEF Settled
  <2> QED
    BY <2>1, <2>2
<1>5. Settled(n)'
  <2> SUFFICES ASSUME NEW u \in Issued,
                      token'[u].status = "live", token'[u].family = token'[n].family
               PROVE  FALSE
    BY DEF Settled
  <2>1. u # old /\ token[u].status = "live" /\ token[u].family = token'[n].family
    <3>1. u # old
      BY <1>2, NamedIssued
    <3> QED
      BY <1>2, <3>1
  <2>2. CASE old = NoToken
    BY <1>2, <1>3, <2>1, <2>2
  <2>3. CASE old # NoToken
    BY <1>2, <2>1, <2>3 DEF GatewayInv, BackendInv, OneUnrevoked, Unrevoked
  <2> QED
    BY <2>2, <2>3
<1>6. \A t : (Wanted(t)' <=> Wanted(t)) /\ (InFlight(t)' <=> InFlight(t))
  BY DEF Wanted, Held, InFlight
<1>7. ~Wanted(n) /\ rotated[n] = NoToken
  <2>1. n \notin Bundles
    BY <1>1 DEF Bundles
  <2>2. ~Wanted(n)
    BY <2>1 DEF GatewayInv, RequestsSound, Sound, Wanted, Held
  <2> QED
    BY <2>2 DEF Remembering
<1>8. old # NoToken => request[r].pc = "perform" /\ request[r].bundle = old
  BY DEF CallsHeard, Underway
<1>9. Remembering' /\ OnePerform'
  BY <1>2, NamedIssued DEF Remembering, OnePerform
<1>10. CallsHeard'
  <2> SUFFICES ASSUME NEW c \in Calls
               PROVE  /\ call'[c].pc \in Underway =>
                            request[c].pc = "perform" /\ request[c].bundle = call'[c].token
                      /\ call'[c].pc = "opening" => request[c].pc = "login"
                      /\ call'[c].pc = "answered" => request[c].pc \in {"perform", "login"}
                      /\ request[c].pc = "perform" => call'[c].pc \in Underway \cup {"answered"}
                      /\ (/\ request[c].pc = "perform"
                          /\ call'[c].pc = "answered" /\ call'[c].result # NoToken) =>
                            /\ request[c].bundle < call'[c].result
                            /\ token'[call'[c].result].family = token'[request[c].bundle].family
                      /\ request[c].pc = "respond" => request[c].sets
    BY DEF CallsHeard
  <2>1. CASE c = r
    BY <1>1, <1>2, <1>8, <2>1 DEF CallsHeard, Underway
  <2>2. CASE c # r
    BY <1>1, <1>2, <2>2, NamedIssued DEF CallsHeard
  <2> QED
    BY <2>1, <2>2
<1>11. ResultsFresh'
  <2> SUFFICES ASSUME NEW c \in Calls, NEW t \in Issued \cup {n},
                      call'[c].pc = "answered" /\ call'[c].result = t
               PROVE  /\ ~Wanted(t)
                      /\ rotated[t] = NoToken
                      /\ \A d \in Calls \ {c} : call'[d].pc = "answered" => call'[d].result # t
    BY <1>6 DEF ResultsFresh
  <2>1. CASE c = r
    BY <1>1, <1>7, <2>1, NamedIssued
  <2>2. CASE c # r
    BY <1>1, <2>2, NamedIssued DEF ResultsFresh
  <2> QED
    BY <2>1, <2>2
<1>12. NothingLost'
  <2>1. ASSUME NEW t \in Issued \cup {n}, Wanted(t) PROVE Served(t)'
    <3>1. t \in Issued /\ Served(t)
      BY <1>7, <2>1 DEF NothingLost
    <3>2. t = old => InFlight(t)
      BY <1>8, <3>1, NoTokenOutside DEF InFlight
    <3> QED
      BY <1>4, <1>6, <3>1, <3>2 DEF Served
  <2>2. ASSUME NEW c \in Calls, NEW t \in Issued \cup {n},
               \/ call'[c].pc \in Underway /\ call'[c].token = t
               \/ call'[c].pc = "answered" /\ call'[c].result = t
               \/ /\ request[c].pc = "perform" /\ request[c].bundle = t
                  /\ call'[c].pc = "answered" /\ call'[c].result = NoToken
        PROVE  Settled(t)'
    <3>1. CASE c = r
      BY <1>1, <1>5, <2>2, <3>1 DEF Underway
    <3>2. CASE c # r
      <4>1. /\ t \in Issued
            /\ \/ call[c].pc \in Underway /\ call[c].token = t
               \/ call[c].pc = "answered" /\ call[c].result = t
               \/ /\ request[c].pc = "perform" /\ request[c].bundle = t
                  /\ call[c].pc = "answered" /\ call[c].result = NoToken
        BY <1>1, <2>2, <3>2, NamedIssued
      <4>2. Settled(t)
        BY <4>1 DEF NothingLost
      <4>3. t # old
        <5> SUFFICES ASSUME t = old PROVE FALSE
          OBVIOUS
        <5>1. t # NoToken /\ request[r].pc = "perform" /\ request[r].bundle = t
          BY <1>8, <4>1, NoTokenOutside
        <5>2. CASE request[c].pc = "perform" /\ request[c].bundle = t
          BY <3>2, <5>1, <5>2 DEF OnePerform
        <5>3. CASE call[c].pc = "answered" /\ call[c].result = t
          BY <4>1, <5>1, <5>3, HeldWanted DEF ResultsFresh
        <5> QED
          BY <4>1, <5>2, <5>3 DEF CallsHeard
      <4> QED
        BY <1>4, <4>1, <4>2, <4>3
    <3> QED
      BY <3>1, <3>2
  <2> QED
    BY <1>6, <2>1, <2>2 DEF NothingLost
<1> QED
  BY <1>9, <1>10, <1>11, <1>12

\* The two transactions that issue a token.
LEMMA CalmCommits ==
    ASSUME GatewayInv, Calm, NEW r \in Calls, BackendStep(r),
           RefreshCommits(r) \/ LoginCommits(r)
    PROVE  Calm'
<1>1. UNCHANGED <<cookie, request, rotated, alarm>>
  BY DEF BackendStep, Calm, GatewayInv, RefreshCommits, LoginCommits
<1>2. CASE RefreshCommits(r)
  <2>1. PICK n \in Tokens \ Issued, k \in Issued :
           /\ n = Next1 /\ k = call[r].token /\ token[k].status = "live"
           /\ RowInserted(r, n, k) /\ Issued' = Issued \cup {n}
    BY <1>2, RefreshCommitsInv DEF GatewayInv
  <2>2. k # NoToken /\ k \in Bundles
    BY NoTokenOutside DEF Bundles
  <2>3. k < n
    <3>1. k \in Nat /\ n \in Nat /\ k # n
      BY NoTokenOutside
    <3>2. ~ (n < k)
      BY DEF GatewayInv, BackendInv, RowsLinked
    <3> QED
      BY <3>1, <3>2
  <2>4. /\ call' = [call EXCEPT ![r] = [NoCall EXCEPT !.pc = "answered", !.result = n]]
        /\ call[r].pc = "rotating"
    BY <1>2, <2>1 DEF RefreshCommits, Answer
  <2> QED
    BY <1>1, <2>1, <2>2, <2>3, <2>4, CalmIssued
<1>3. CASE LoginCommits(r)
  <2>1. PICK n \in Tokens \ Issued :
           n = Next1 /\ RowInserted(r, n, NoToken) /\ Issued' = Issued \cup {n}
    BY <1>3, LoginCommitsInv DEF GatewayInv
  <2>2. /\ call' = [call EXCEPT ![r] = [NoCall EXCEPT !.pc = "answered", !.result = n]]
        /\ call[r].pc = "opening"
    BY <1>3, <2>1 DEF LoginCommits, Answer
  <2>3. NoToken \in Bundles
    BY DEF Bundles
  <2> QED
    BY <1>1, <2>1, <2>2, <2>3, CalmIssued
<1> QED
  BY <1>2, <1>3

\* Every step of the system loses nothing, or is an accident.
LEMMA CalmInvStep == GatewayInv /\ CalmInv /\ [Next]_vars => CalmInv'
<1> SUFFICES ASSUME GatewayInv, CalmInv, [Next]_vars, ~accident' PROVE Calm'
  BY DEF CalmInv
<1>1. accident => accident'
  BY DEF Next, vars, gateway, Request, BackendStep, Begin, BeginExpired, CallDenied, CallAccepted,
         CallFails, RefreshRemembered, RefreshJoined, RefreshSent, RefreshAnswered,
         RefreshRefused, RefreshTimesOut, Unheard, LoginSent, LoginAnswered, LoginRefused,
         LogoutSent, LogoutFails, Respond, ResponseLost, Forget, Restart
<1>2. Calm
  BY <1>1 DEF CalmInv
<1>3. ASSUME NEW r \in Calls, Request(r) PROVE Calm'
  <2>1. ~ (RefreshTimesOut(r) \/ ResponseLost(r))
    BY DEF RefreshTimesOut, ResponseLost
  <2>2. ~ Unheard(r)
    BY <1>2 DEF Unheard, Calm, CallsHeard
  <2> QED
    BY <1>2, <1>3, <2>1, <2>2, CalmAlone, CalmSent, CalmAnswered, CalmRefused, CalmLoginSent,
       CalmLoginAnswered, CalmLogout DEF Request
<1>4. ASSUME NEW r \in Calls, BackendStep(r) PROVE Calm'
  BY <1>2, <1>4, CalmTransaction, CalmCommits DEF BackendStep, Transaction
<1>5. ASSUME NEW k \in Tokens, Forget(k) PROVE Calm'
  BY <1>2, <1>5, CalmForget
<1>6. ~ Restart
  BY DEF Restart
<1>7. CASE (Administration \/ TimePasses) /\ UNCHANGED gateway
  BY <1>2, <1>7, CalmOutside
<1>8. CASE UNCHANGED vars
  BY <1>2, <1>8, SettledKeptByStutter, CalmQuiet DEF vars, backend, gateway
<1> QED
  BY <1>3, <1>4, <1>5, <1>6, <1>7, <1>8 DEF Next

\* While nothing was lost, whoever has a bundle that was replaced is led to its successor.
THEOREM CalmInvariant == Spec => [](GatewayInv /\ CalmInv)
<1>1. Init => CalmInv
  BY CalmInit DEF CalmInv
<1> QED
  BY <1>1, CalmInvStep, GatewayInvariant, PTL DEF Spec

\* However many requests present one cookie, and in whatever order their responses arrive,
\* performRefresh, refreshToken and rotated of lib/server/api.ts never make the backend end
\* an open session as a reuse, unless a bundle was forgotten or lost.
THEOREM AlarmNeeds == Spec => []AlarmNeedsAccident
<1>1. GatewayInv /\ CalmInv => AlarmNeedsAccident
  BY DEF GatewayInv, CalmInv, Calm, AlarmNeedsAccident
<1> QED
  BY <1>1, CalmInvariant, PTL

-------------------------------------------------------------------------------
(* The cookie of an open session *)

Leading(k) == token[k].status = "live" \/ InFlight(k)

\* What Leads computes, from the set of bundles that every set closed under "is live, in
\* flight, or remembered with a member" contains.
LEMMA LeadsFollows ==
    ASSUME GatewayInv
    PROVE  \A k \in Tokens :
              /\ Leading(k) => Leads[k]
              /\ rotated[k] # NoToken /\ Leads[rotated[k]] => Leads[k]
<1> DEFINE Into(S) == {k \in Tokens : Leading(k) \/ (rotated[k] # NoToken /\ rotated[k] \in S)}
           L == {k \in Tokens : \A S \in SUBSET Tokens : Into(S) \subseteq S => k \in S}
           f == [k \in Tokens |-> k \in L]
<1>1. \A k \in Tokens : rotated[k] # NoToken => rotated[k] \in Tokens
  BY NamedIssued
<1>2. Into(L) \subseteq L
  OBVIOUS
<1>3. Into(Into(L)) \subseteq Into(L)
  BY <1>2
<1>4. L \subseteq Into(L)
  BY <1>3
<1>5. \A k \in Tokens : f[k] <=> (Leading(k) \/ (rotated[k] # NoToken /\ f[rotated[k]]))
  <2> SUFFICES ASSUME NEW k \in Tokens
               PROVE  k \in L <=> (Leading(k) \/ (rotated[k] # NoToken /\ f[rotated[k]]))
    OBVIOUS
  <2>1. k \in L <=> k \in Into(L)
    BY <1>2, <1>4
  <2>2. rotated[k] # NoToken => (f[rotated[k]] <=> rotated[k] \in L)
    BY <1>1
  <2> QED
    BY <2>1, <2>2
<1> HIDE DEF f
<1>6. f = [k \in Tokens |->
             \/ token[k].status = "live"
             \/ InFlight(k)
             \/ rotated[k] # NoToken /\ f[rotated[k]]]
  <2>1. f = [k \in Tokens |-> f[k]] /\ \A k \in Tokens : f[k] \in BOOLEAN
    BY DEF f
  <2> QED
    BY <1>5, <2>1 DEF Leading
<1>7. Leads = [k \in Tokens |->
                 \/ token[k].status = "live"
                 \/ InFlight(k)
                 \/ rotated[k] # NoToken /\ Leads[rotated[k]]]
  BY <1>6 DEF Leads
<1>8. \A k \in Tokens : Leads[k] = (\/ token[k].status = "live"
                                    \/ InFlight(k)
                                    \/ rotated[k] # NoToken /\ Leads[rotated[k]])
  BY <1>7
<1> QED
  BY <1>8 DEF Leading

\* A bundle that somebody has leads to the live token of its session, over bundles of ever
\* higher numbers.
LEMMA WantedLeads ==
    ASSUME GatewayInv, Calm, NEW t \in Issued, Wanted(t),
           NEW u \in Issued, token[u].status = "live", token[u].family = token[t].family
    PROVE  Leads[t]
<1> DEFINE Bad == {k \in Issued : Wanted(k) /\ token[k].family = token[t].family /\ ~Leads[k]}
           Left == {MaxTokens - k : k \in Bad}
<1> SUFFICES ASSUME t \in Bad PROVE FALSE
  OBVIOUS
<1>1. \A k \in Issued : k \in Nat /\ k <= MaxTokens
  BY RefreshTokensAssumption DEF Issued, Tokens
<1>2. Left \subseteq Nat /\ Left # {}
  BY <1>1, RefreshTokensAssumption
<1>3. PICK m \in Left : \A l \in Left : m <= l
  BY <1>2, LeastNumber
<1>4. PICK k \in Bad : m = MaxTokens - k
  BY <1>3
<1>5. \A j \in Bad : j <= k
  <2> SUFFICES ASSUME NEW j \in Bad PROVE j <= k
    OBVIOUS
  <2>1. MaxTokens - k <= MaxTokens - j
    BY <1>3, <1>4
  <2> QED
    BY <1>1, <2>1, RefreshTokensAssumption
<1>6. k \in Tokens /\ ~Leading(k) /\ Served(k)
  BY NoTokenOutside, LeadsFollows DEF Calm, NothingLost
<1>7. ~Settled(k)
  BY <1>6 DEF Settled, Leading
<1>8. rotated[k] # NoToken
  BY <1>6, <1>7 DEF Served, Leading
<1>9. PICK j \in Issued : j = rotated[k]
  BY <1>6, <1>8, NamedIssued
<1>10. Wanted(j) /\ k < j /\ token[j].family = token[k].family
  BY <1>6, <1>8, <1>9, HeldWanted DEF Calm, Remembering
<1>11. ~Leads[j]
  BY <1>6, <1>8, <1>9, LeadsFollows
<1>12. j <= k
  BY <1>5, <1>10, <1>11
<1> QED
  BY <1>1, <1>10, <1>12

\* The cookie of a browser whose session is open leads to its live token, whatever requests
\* of the browser are under way and whichever of them the gateway answers last.
THEOREM CookieLeads == Spec => []CookieServes
<1>1. ASSUME GatewayInv, CalmInv PROVE CookieServes
  <2> SUFFICES ASSUME ~accident, cookie # NoToken,
                      SessionOf(token[cookie].family) = "open"
               PROVE  Leads[cookie]
    BY DEF CookieServes
  <2>1. PICK k \in Issued : k = cookie
    BY <1>1 DEF GatewayInv, RequestsSound, Bundles
  <2>2. PICK f \in Issued : f = token[k].family /\ token[f].family = f
    BY <1>1 DEF GatewayInv, BackendInv, RowsLinked
  <2>3. \E u \in Family(f) : token[u].status = "live"
    BY <2>1, <2>2 DEF SessionOf
  <2>4. PICK u \in Issued : token[u].status = "live" /\ token[u].family = token[k].family
    BY <2>2, <2>3 DEF Family
  <2> QED
    BY <1>1, <2>1, <2>4, HeldWanted, WantedLeads DEF CalmInv
<1> QED
  BY <1>1, CalmInvariant, PTL
================================================================================
