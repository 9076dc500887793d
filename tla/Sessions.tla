------------------------------ MODULE Sessions ------------------------------
(***************************************************************************)
(* Sessions: login, refresh, the bearer-token gate and logout, served      *)
(* concurrently by handler goroutines that share the users table           *)
(* (PostgreSQL) and the token blacklist (Redis).                           *)
(*                                                                         *)
(* A request is a slot of Reqs.  Between two of its steps anything else    *)
(* may happen: every database or Redis call, and every reading of the      *)
(* clock, is a step of its own.  A Redis call may succeed, fail without    *)
(* effect (outage, dial or pool timeout, cancelled context) or take effect *)
(* and lose its reply (read timeout).                                      *)
(***************************************************************************)
EXTENDS Integers, FiniteSets, Tokens

CONSTANTS
    Reqs,      \* concurrent requests
    NoToken,   \* "" or a string that is no token of this server
    Ops,       \* bound: what each slot may ask for
    Calm,      \* bound: from this time on no outage begins and no row is edited
    MaxIssued, \* bound: no login or refresh once so many tokens are out
    MaxTime    \* bound: the clock stops here

ASSUME NonEmptyAssumption == Users # {} /\ Roles # {}
ASSUME NoTokenAssumption == NoToken \notin Claims
ASSUME BoundsAssumption == MaxTime \in Nat /\ MaxIssued \in Nat /\ Calm \in Nat

VARIABLES
    now,        \* the clock, in whole seconds
    row,        \* users table: the columns the sessions read
    redisUp,    \* Redis is reachable
    blacklist,  \* keys "blacklist:<token>" and the time each one vanishes
    issued,     \* tokens handed to clients so far
    pc,         \* where each request stands
    req,        \* what each request asks for
    loc,        \* local variables of the handler goroutine
    hist        \* history: what held at some time since the request began

vars == <<now, row, redisUp, blacklist, issued, pc, req, loc, hist>>

Forever == -1   \* a key without TTL

Op == {"login", "refresh", "profile", "logout"}

ASSUME OpsAssumption == Ops \in [Reqs -> SUBSET Op]

Row == [role : Roles, active : BOOLEAN]

Key == [tok : Claims, until : Nat \cup {Forever}]

Request == [op : Op, sub : Users, tok : Claims \cup {NoToken}, ref : Claims \cup {NoToken}]

Locals == [role : Roles, ttl : Int]

History == [late : BOOLEAN, up : BOOLEAN, roles : SUBSET Roles, err : BOOLEAN]

PC == {"idle", "login_find", "login_issue",
       "refresh_check", "refresh_validate", "refresh_find", "refresh_ttl",
       "refresh_set", "refresh_issue",
       "gate_check", "gate_validate",
       "logout_body", "logout_access", "logout_access_ttl", "logout_access_set",
       "logout_refresh", "logout_refresh_ttl", "logout_refresh_set",
       "ok", "denied"}

NoReq == [op |-> "login", sub |-> CHOOSE u \in Users : TRUE,
          tok |-> NoToken, ref |-> NoToken]

NoLoc == [role |-> CHOOSE x \in Roles : TRUE, ttl |-> 0]

NoHist == [late |-> FALSE, up |-> FALSE, roles |-> {}, err |-> FALSE]

-----------------------------------------------------------------------------
(* The blacklist in Redis.                                                 *)

\* Mutation: the key is the subject instead of the token.
ListedBySubject(t) == \E k \in blacklist : k.tok.sub = t.sub /\ k.tok.type = t.type

Listed(t) == \E k \in blacklist : k.tok = t

\* A token nobody can use any more: its key is there, or it has expired.
Dead(t) == now >= t.exp \/ Listed(t)

\* Mutations: the TTL is rounded down; it is the same for both kinds of tokens; it is
\* converted to a coarser unit, in which a short one is zero.
SetKeyRounded(t, ttl) ==
    blacklist' = {k \in blacklist : k.tok # t}
                    \cup {[tok |-> t, until |-> IF ttl > 1 THEN now + ttl - 1 ELSE now]}
SetKeySameTTL(t, ttl) ==
    blacklist' = {k \in blacklist : k.tok # t} \cup {[tok |-> t, until |-> now + AccessTTL]}
SetKeyCoarse(t, ttl) ==
    blacklist' = {k \in blacklist : k.tok # t}
                    \cup {[tok |-> t, until |-> IF ttl > 1 THEN now + ttl ELSE Forever]}

\* SET "blacklist:<t>" EX ttl overwrites the key.  The client sends no TTL when
\* the duration is not positive: such a key never vanishes.
SetKey(t, ttl) ==
    blacklist' = {k \in blacklist : k.tok # t}
                    \cup {[tok |-> t, until |-> IF ttl > 0 THEN now + ttl ELSE Forever]}

\* Keys that are gone once the clock reads time.
Unexpired(time) == {k \in blacklist : k.until = Forever \/ time < k.until}

-----------------------------------------------------------------------------
Init ==
    /\ now = 0
    /\ row \in [Users -> [role : Roles, active : {TRUE}]]
    /\ redisUp = TRUE
    /\ blacklist = {}
    /\ issued = {}
    /\ pc = [r \in Reqs |-> "idle"]
    /\ req = [r \in Reqs |-> NoReq]
    /\ loc = [r \in Reqs |-> NoLoc]
    /\ hist = [r \in Reqs |-> NoHist]

-----------------------------------------------------------------------------
(* The environment.                                                        *)

Tick ==
    /\ now < MaxTime
    /\ now' = now + 1
    /\ blacklist' = Unexpired(now + 1)
    /\ UNCHANGED <<row, redisUp, issued, pc, req, loc, hist>>

\* An administrator changes a role, or an operator (de)activates an account in
\* the database.  Requests under way for this user see one row or the other.
RowEdit(u) ==
    \E new \in Row :
       /\ now < Calm
       /\ new # row[u]
       /\ row' = [row EXCEPT ![u] = new]
       /\ hist' = [r \in Reqs |->
                     IF pc[r] # "idle" /\ req[r].sub = u /\ new.active
                     THEN [hist[r] EXCEPT !.roles = @ \cup {new.role}]
                     ELSE hist[r]]
       /\ UNCHANGED <<now, redisUp, blacklist, issued, pc, req, loc>>

RedisDown ==
    /\ now < Calm
    /\ redisUp
    /\ redisUp' = FALSE
    /\ UNCHANGED <<now, row, blacklist, issued, pc, req, loc, hist>>

RedisBack ==
    /\ ~redisUp
    /\ redisUp' = TRUE
    /\ hist' = [r \in Reqs |-> IF pc[r] = "idle" THEN hist[r]
                               ELSE [hist[r] EXCEPT !.up = TRUE]]
    /\ UNCHANGED <<now, row, blacklist, issued, pc, req, loc>>

-----------------------------------------------------------------------------
(* A request arrives and is answered.                                      *)

\* The first step of the handler chain each operation runs through.
Entry(op) == CASE op = "login" -> "login_find"
               [] op = "refresh" -> "refresh_check"
               [] OTHER -> "gate_check"

Begin(r, op, sub, tok, ref) ==
    /\ op \in Ops[r]
    /\ pc[r] = "idle"
    /\ pc' = [pc EXCEPT ![r] = Entry(op)]
    /\ req' = [req EXCEPT ![r] = [op |-> op, sub |-> sub, tok |-> tok, ref |-> ref]]
    /\ hist' = [hist EXCEPT ![r] =
                  [late |-> tok # NoToken /\ Dead(tok),
                   up |-> redisUp,
                   roles |-> IF row[sub].active THEN {row[sub].role} ELSE {},
                   err |-> FALSE]]
    /\ UNCHANGED <<now, row, redisUp, blacklist, issued, loc>>

Login(r) ==
    /\ Cardinality(issued) < MaxIssued
    /\ \E u \in Users : Begin(r, "login", u, NoToken, NoToken)

Refresh(r) ==
    /\ Cardinality(issued) < MaxIssued
    /\ \E t \in issued : Begin(r, "refresh", t.sub, t, NoToken)

Profile(r) == \E t \in issued : Begin(r, "profile", t.sub, t, NoToken)

Logout(r) == \E t \in issued : Begin(r, "logout", t.sub, t, NoToken)

\* The handler of logout reads the body, behind the gate; it comes when the client sends
\* it, perhaps never.  No body, a broken one, and a string that is no token are one.
LogoutBody(r) ==
    /\ pc[r] = "logout_body"
    /\ pc' = [pc EXCEPT ![r] = "logout_access"]
    /\ \E ref \in issued \cup {NoToken} : req' = [req EXCEPT ![r].ref = ref]
    /\ UNCHANGED <<now, row, redisUp, blacklist, issued, loc, hist>>

\* The client has the response; the goroutine and its variables are gone.
Finish(r) ==
    /\ pc[r] \in {"ok", "denied"}
    /\ pc' = [pc EXCEPT ![r] = "idle"]
    /\ req' = [req EXCEPT ![r] = NoReq]
    /\ loc' = [loc EXCEPT ![r] = NoLoc]
    /\ hist' = [hist EXCEPT ![r] = NoHist]
    /\ UNCHANGED <<now, row, redisUp, blacklist, issued>>

-----------------------------------------------------------------------------
(* Steps the handlers are made of.                                         *)

Goto(r, from, to) == pc[r] = from /\ pc' = [pc EXCEPT ![r] = to]

\* Mutation: an error counts as "not blacklisted".
CheckBlacklistFailOpen(r, from, to) ==
    /\ \/ Goto(r, from, to) /\ redisUp /\ ~Listed(req[r].tok)
       \/ Goto(r, from, "denied") /\ redisUp /\ Listed(req[r].tok)
       \/ Goto(r, from, to)
    /\ UNCHANGED <<now, row, redisUp, blacklist, issued, req, loc, hist>>

\* isTokenBlacklisted: an error counts as "blacklisted".
CheckBlacklist(r, from, to) ==
    /\ \/ Goto(r, from, to) /\ redisUp /\ ~Listed(req[r].tok)
       \/ Goto(r, from, "denied") /\ redisUp /\ Listed(req[r].tok)
       \/ Goto(r, from, "denied")                              \* the call failed
    /\ UNCHANGED <<now, row, redisUp, blacklist, issued, req, loc, hist>>

\* userRepo.FindByEmail / FindByID, then the Active check.
FindActive(r, from, to) ==
    /\ \/ /\ row[req[r].sub].active
          /\ Goto(r, from, to)
          /\ loc' = [loc EXCEPT ![r].role = row[req[r].sub].role]
       \/ /\ ~row[req[r].sub].active
          /\ Goto(r, from, "denied")
          /\ UNCHANGED loc
       \/ Goto(r, from, "denied") /\ UNCHANGED loc             \* the query failed
    /\ UNCHANGED <<now, row, redisUp, blacklist, issued, req, hist>>

\* time.Until(claims.ExpiresAt)
ReadTTL(r, t, from, to) ==
    /\ Goto(r, from, to)
    /\ loc' = [loc EXCEPT ![r].ttl = t.exp - now]
    /\ UNCHANGED <<now, row, redisUp, blacklist, issued, req, hist>>

\* blacklistToken: an error is logged and nothing else.
BlacklistToken(r, t, from, to) ==
    /\ Goto(r, from, to)
    /\ \/ redisUp /\ SetKey(t, loc[r].ttl) /\ UNCHANGED hist
       \/ /\ UNCHANGED blacklist                               \* the call failed
          /\ hist' = [hist EXCEPT ![r].err = TRUE]
       \/ /\ redisUp /\ SetKey(t, loc[r].ttl)                  \* the reply is lost
          /\ hist' = [hist EXCEPT ![r].err = TRUE]
    /\ UNCHANGED <<now, row, redisUp, issued, req, loc>>

Issue(r, from) ==
    /\ Goto(r, from, "ok")
    /\ issued' = issued \cup GenerateTokenPair(req[r].sub, loc[r].role, now)
    /\ UNCHANGED <<now, row, redisUp, blacklist, req, loc, hist>>

\* ValidateToken of one of the request's tokens, and where to go from there.
Validate(r, t, type, from, valid, invalid) ==
    /\ Goto(r, from, IF t # NoToken /\ ValidateToken(t, type, now) THEN valid ELSE invalid)
    /\ UNCHANGED <<now, row, redisUp, blacklist, issued, req, loc, hist>>

-----------------------------------------------------------------------------
(* POST /auth/login                                                        *)

LoginFind(r) == FindActive(r, "login_find", "login_issue")

LoginWrongPassword(r) ==
    /\ Goto(r, "login_issue", "denied")
    /\ UNCHANGED <<now, row, redisUp, blacklist, issued, req, loc, hist>>

\* Register ends the same way: it issues a pair from the row it has just inserted, as
\* this does from the row it has just read.
LoginIssue(r) == Issue(r, "login_issue")

(* POST /auth/refresh                                                      *)

RefreshCheck(r) == CheckBlacklist(r, "refresh_check", "refresh_validate")

RefreshValidate(r) ==
    Validate(r, req[r].tok, "refresh", "refresh_validate", "refresh_find", "denied")

\* Mutation: the role is copied from the old token.
RefreshFindClaims(r) ==
    /\ row[req[r].sub].active
    /\ Goto(r, "refresh_find", "refresh_ttl")
    /\ loc' = [loc EXCEPT ![r].role = req[r].tok.role]
    /\ UNCHANGED <<now, row, redisUp, blacklist, issued, req, hist>>

RefreshFind(r) == FindActive(r, "refresh_find", "refresh_ttl")

RefreshUntil(r) == ReadTTL(r, req[r].tok, "refresh_ttl", "refresh_set")

RefreshRevoke(r) == BlacklistToken(r, req[r].tok, "refresh_set", "refresh_issue")

RefreshIssue(r) == Issue(r, "refresh_issue")

(* AuthRequired, in front of every protected route                         *)

GateCheck(r) == CheckBlacklist(r, "gate_check", "gate_validate")

GateValidate(r) ==
    Validate(r, req[r].tok, "access", "gate_validate",
             IF req[r].op = "logout" THEN "logout_body" ELSE "ok", "denied")

(* POST /auth/logout, behind the gate                                      *)

LogoutAccess(r) ==
    Validate(r, req[r].tok, "access", "logout_access", "logout_access_ttl", "logout_refresh")

LogoutAccessUntil(r) == ReadTTL(r, req[r].tok, "logout_access_ttl", "logout_access_set")

LogoutAccessRevoke(r) ==
    BlacklistToken(r, req[r].tok, "logout_access_set", "logout_refresh")

\* Mutation: the refresh token is validated as an access token.
LogoutRefreshAsAccess(r) ==
    Validate(r, req[r].ref, "access", "logout_refresh", "logout_refresh_ttl", "ok")

LogoutRefresh(r) ==
    Validate(r, req[r].ref, "refresh", "logout_refresh", "logout_refresh_ttl", "ok")

LogoutRefreshUntil(r) == ReadTTL(r, req[r].ref, "logout_refresh_ttl", "logout_refresh_set")

LogoutRefreshRevoke(r) == BlacklistToken(r, req[r].ref, "logout_refresh_set", "ok")

-----------------------------------------------------------------------------
\* What comes from a client.
Arrive(r) == Login(r) \/ Refresh(r) \/ Profile(r) \/ Logout(r) \/ LogoutBody(r)

Serve(r) ==
    \/ LoginFind(r) \/ LoginWrongPassword(r) \/ LoginIssue(r)
    \/ RefreshCheck(r) \/ RefreshValidate(r) \/ RefreshFind(r)
    \/ RefreshUntil(r) \/ RefreshRevoke(r) \/ RefreshIssue(r)
    \/ GateCheck(r) \/ GateValidate(r)
    \/ LogoutAccess(r) \/ LogoutAccessUntil(r) \/ LogoutAccessRevoke(r)
    \/ LogoutRefresh(r) \/ LogoutRefreshUntil(r) \/ LogoutRefreshRevoke(r)

Environment == Tick \/ RedisDown \/ RedisBack \/ \E u \in Users : RowEdit(u)

Next == Environment \/ \E r \in Reqs : Arrive(r) \/ Serve(r) \/ Finish(r)

Spec == Init /\ [][Next]_vars

-----------------------------------------------------------------------------
(* Properties.                                                             *)

\* Every variable stays in its range.
TypeOK ==
    /\ now \in Nat
    /\ row \in [Users -> Row]
    /\ redisUp \in BOOLEAN
    /\ blacklist \subseteq Key
    /\ issued \subseteq Claims
    /\ pc \in [Reqs -> PC]
    /\ req \in [Reqs -> Request]
    /\ loc \in [Reqs -> Locals]
    /\ hist \in [Reqs -> History]

\* Where a request stands once its token has been accepted.
Accepted(r) ==
    \/ pc[r] \in {"refresh_find", "refresh_ttl", "refresh_set", "refresh_issue",
                  "logout_body", "logout_access", "logout_access_ttl", "logout_access_set",
                  "logout_refresh", "logout_refresh_ttl", "logout_refresh_set"}
    \/ pc[r] = "ok" /\ req[r].op # "login"

\* A token that was revoked or expired when the request carrying it arrived is not
\* accepted, whatever else is in flight: the blacklist is read before the expiry
\* is checked and never after, so a key that vanishes between the two must not
\* let its token through.  (isTokenBlacklisted, AuthRequired, RefreshTokens)
NoLateGrant == \A r \in Reqs : Accepted(r) => ~hist[r].late

\* A key outlives the token it revokes, although its TTL is computed before the
\* call that sets it and may be set twice.  (blacklistToken, time.Until)
KeyOutlivesToken ==
    \A k \in blacklist : k.until = Forever \/ k.tok.exp <= k.until

\* The other end of the TTL: only a token that has expired between its validation
\* and the call gets a key without TTL, which Redis keeps for ever.
ForeverOnlyIfExpired ==
    \A k \in blacklist : (k.until = Forever) => k.tok.exp <= now

\* A refresh or a logout that was answered with success, and whose Redis calls
\* reported no error, has left the presented tokens unusable.
SuccessRevokes ==
    \A r \in Reqs :
       (pc[r] = "ok" /\ ~hist[r].err) =>
          /\ (req[r].op \in {"refresh", "logout"}) => Dead(req[r].tok)
          /\ (/\ req[r].op = "logout"
              /\ req[r].ref # NoToken
              /\ req[r].ref.type = "refresh") => Dead(req[r].ref)

\* No token is accepted while Redis is out of reach: it was reachable at some
\* moment of every request whose token was accepted.
OutageDenies == \A r \in Reqs : Accepted(r) => hist[r].up

\* A token handed out for the first time carries a role that the user's row held,
\* active, at some moment of the request that obtained it.  After a change of role no
\* refresh that begins later hands out the old role again, although the token it is
\* asked with still says so.
NewTokenReflectsRow ==
    [][\A t \in issued' \ issued :
          \E r \in Reqs :
             /\ pc[r] \in {"login_issue", "refresh_issue"} /\ pc'[r] = "ok"
             /\ req[r].sub = t.sub
             /\ t.role \in hist[r].roles]_vars

\* A token that nobody held before is not already revoked: revoking one session
\* of a user leaves the ones opened later alone.
NewTokenNotListed == [][\A t \in issued' \ issued : ~Listed(t)']_vars

-----------------------------------------------------------------------------
(* The promise of the gate (RevocationGate), and what its state is here.   *)

GateDead == {t \in issued : Dead(t)}

GateState(r) ==
    IF pc[r] = "idle" \/ req[r].op = "login" THEN "idle"
    ELSE IF Accepted(r) THEN "granted"
    ELSE IF pc[r] = "denied" THEN "refused" ELSE "asked"

GateAsk ==
    [r \in Reqs |->
       IF GateState(r) = "idle" THEN [state |-> "idle", tok |-> NoToken, alive |-> FALSE]
       ELSE [state |-> GateState(r), tok |-> req[r].tok, alive |-> ~hist[r].late]]

Gate == INSTANCE RevocationGate WITH Tokens <- Claims, dead <- GateDead, ask <- GateAsk

\* Sessions implements the gate: dead tokens never come back to life (no key
\* vanishes before its token expires, and none is overwritten by a shorter one)
\* and only requests that arrived with a live token are accepted.
ImplementsGate == Gate!Spec

-----------------------------------------------------------------------------
(* What the repository says and the code does not do.                      *)

\* handlers/auth.go: "Get a new token pair using a valid refresh token".  The pair
\* is not revoked at the moment it is handed out.
FreshPairUsable ==
    [][\A r \in Reqs :
          (pc[r] = "refresh_issue" /\ pc'[r] = "ok") =>
             \A t \in GenerateTokenPair(req[r].sub, loc[r].role, now) : ~Dead(t)]_vars
=============================================================================
