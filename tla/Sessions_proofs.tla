--------------------------- MODULE Sessions_proofs ---------------------------
(***************************************************************************)
(* Proofs about Sessions, for any number of users, roles and concurrent    *)
(* requests, any token lifetimes, and with every operation and event.      *)
(***************************************************************************)
EXTENDS SessionsInv, TLAPS

USE DEF Op, PC, Forever

\* The dummies a request slot holds while it is idle are in range.
LEMMA Dummies == NoReq \in Request /\ NoLoc \in Locals /\ NoHist \in History
  <1>1. (CHOOSE u \in Users : TRUE) \in Users
    BY NonEmptyAssumption
  <1>2. (CHOOSE x \in Roles : TRUE) \in Roles
    BY NonEmptyAssumption
  <1>3. QED  BY <1>1, <1>2 DEF NoReq, NoLoc, NoHist, Request, Locals, History

\* A pair is two tokens of the user, whatever the clock reads.
LEMMA PairType ==
    ASSUME NEW u \in Users, NEW x \in Roles, NEW t \in Nat
    PROVE  /\ GenerateTokenPair(u, x, t) \subseteq Claims
           /\ \A k \in GenerateTokenPair(u, x, t) : k.sub = u /\ k.role = x
  BY TTLAssumption DEF GenerateTokenPair, generateToken, Claims, TokenType

\* A key set by a handler is a key, and the other keys stay.
LEMMA SetKeyType ==
    ASSUME blacklist \subseteq Key, now \in Nat,
           NEW t \in Claims, NEW ttl \in Int, SetKey(t, ttl)
    PROVE  blacklist' \subseteq Key
  BY DEF SetKey, Key

LEMMA TypeInit == Init => TypeOK
  <1> SUFFICES ASSUME Init PROVE TypeOK
    OBVIOUS
  <1>1. row \in [Users -> Row]
    BY DEF Init, Row
  <1>2. QED  BY <1>1, Dummies DEF Init, TypeOK

LEMMA TypeNext == TypeOK /\ (\A r \in Reqs : Shape(r)) /\ [Next]_vars => TypeOK'
<1> SUFFICES ASSUME TypeOK, \A r \in Reqs : Shape(r), [Next]_vars
             PROVE  TypeOK'
  OBVIOUS
<1> USE DEF TypeOK
<1>1. CASE Tick
  BY <1>1 DEF Tick, Unexpired
<1>2. CASE RedisDown
  BY <1>2 DEF RedisDown
<1>3. CASE RedisBack
  BY <1>3 DEF RedisBack, History
<1>4. ASSUME NEW u \in Users, RowEdit(u) PROVE TypeOK'
  BY <1>4 DEF RowEdit, History, Row
<1>5. ASSUME NEW r \in Reqs, Arrive(r) PROVE TypeOK'
  <2>1. ASSUME NEW op \in Op, NEW u \in Users, NEW t \in Claims \cup {NoToken},
               NEW ref \in Claims \cup {NoToken}, Begin(r, op, u, t, ref)
        PROVE  TypeOK'
    <3>1. Entry(op) \in PC
      BY DEF Entry
    <3>2. hist' \in [Reqs -> History]
      BY <2>1 DEF Begin, History, Row, Dead
    <3>3. req' \in [Reqs -> Request]
      BY <2>1 DEF Begin, Request
    <3>4. QED  BY <2>1, <3>1, <3>2, <3>3 DEF Begin
  <2>2. \A t \in issued : t.sub \in Users
    BY DEF Claims
  <2>3. CASE Login(r)
    BY <2>1, <2>3 DEF Login
  <2>4. CASE Refresh(r)
    BY <2>1, <2>2, <2>4 DEF Refresh
  <2>5. CASE Profile(r)
    BY <2>1, <2>2, <2>5 DEF Profile
  <2>6. CASE Logout(r)
    BY <2>1, <2>2, <2>6 DEF Logout
  <2>7. CASE LogoutBody(r)
    <3>1. PICK ref \in issued \cup {NoToken} : req' = [req EXCEPT ![r].ref = ref]
      BY <2>7 DEF LogoutBody
    <3>2. req' \in [Reqs -> Request]
      BY <3>1 DEF Request
    <3>3. QED  BY <2>7, <3>2 DEF LogoutBody
  <2>8. QED  BY <1>5, <2>3, <2>4, <2>5, <2>6, <2>7 DEF Arrive
<1>6. ASSUME NEW r \in Reqs, Finish(r) PROVE TypeOK'
  BY <1>6, Dummies DEF Finish
<1>7. ASSUME NEW r \in Reqs, Serve(r) PROVE TypeOK'
  <2>1. CASE LoginFind(r) \/ RefreshFind(r)
    <3>1. req[r].sub \in Users /\ row[req[r].sub].role \in Roles
      BY DEF Request, Row
    <3>2. loc' \in [Reqs -> Locals]
      BY <2>1, <3>1 DEF LoginFind, RefreshFind, FindActive, Locals
    <3>3. QED  BY <2>1, <3>2 DEF LoginFind, RefreshFind, FindActive, Goto
  <2>2. CASE LoginWrongPassword(r)
    BY <2>2 DEF LoginWrongPassword, Goto
  <2>3. CASE LoginIssue(r) \/ RefreshIssue(r)
    <3>1. req[r].sub \in Users /\ loc[r].role \in Roles
      BY DEF Request, Locals
    <3>2. QED  BY <2>3, <3>1, PairType DEF LoginIssue, RefreshIssue, Issue, Goto
  <2>4. CASE RefreshCheck(r) \/ GateCheck(r)
    BY <2>4 DEF RefreshCheck, GateCheck, CheckBlacklist, Goto
  <2>5. CASE RefreshValidate(r) \/ GateValidate(r) \/ LogoutAccess(r) \/ LogoutRefresh(r)
    BY <2>5 DEF RefreshValidate, GateValidate, LogoutAccess, LogoutRefresh, Validate, Goto
  <2>6. ASSUME NEW t \in Claims, NEW from \in PC, NEW to \in PC, ReadTTL(r, t, from, to)
        PROVE  TypeOK'
    BY <2>6 DEF ReadTTL, Goto, Locals, Claims
  <2>7. ASSUME NEW t \in Claims, NEW from \in PC, NEW to \in PC,
               BlacklistToken(r, t, from, to)
        PROVE  TypeOK'
    <3>1. loc[r].ttl \in Int
      BY DEF Locals
    <3>2. blacklist' \subseteq Key
      BY <2>7, <3>1, SetKeyType DEF BlacklistToken
    <3>3. QED  BY <2>7, <3>2 DEF BlacklistToken, Goto, History
  <2>8. CASE RefreshUntil(r) \/ LogoutAccessUntil(r) \/ LogoutRefreshUntil(r)
    <3>1. CASE RefreshUntil(r)
      BY <2>6, <3>1 DEF RefreshUntil, Shape, ReadTTL, Goto
    <3>2. CASE LogoutAccessUntil(r)
      BY <2>6, <3>2 DEF LogoutAccessUntil, Shape, ReadTTL, Goto
    <3>3. CASE LogoutRefreshUntil(r)
      BY <2>6, <3>3 DEF LogoutRefreshUntil, Shape, ReadTTL, Goto
    <3>4. QED  BY <2>8, <3>1, <3>2, <3>3
  <2>9. CASE RefreshRevoke(r) \/ LogoutAccessRevoke(r) \/ LogoutRefreshRevoke(r)
    <3>1. CASE RefreshRevoke(r)
      BY <2>7, <3>1 DEF RefreshRevoke, Shape, BlacklistToken, Goto
    <3>2. CASE LogoutAccessRevoke(r)
      BY <2>7, <3>2 DEF LogoutAccessRevoke, Shape, BlacklistToken, Goto
    <3>3. CASE LogoutRefreshRevoke(r)
      BY <2>7, <3>3 DEF LogoutRefreshRevoke, Shape, BlacklistToken, Goto
    <3>4. QED  BY <2>9, <3>1, <3>2, <3>3
  <2>10. QED
    BY <1>7, <2>1, <2>2, <2>3, <2>4, <2>5, <2>8, <2>9 DEF Serve
<1>8. CASE UNCHANGED vars
  BY <1>8 DEF vars
<1>9. QED
  BY <1>1, <1>2, <1>3, <1>4, <1>5, <1>6, <1>7, <1>8 DEF Next, Environment

-----------------------------------------------------------------------------
(* What a step leaves alone.                                               *)

\* A step of one request does not touch another one, nor the environment.
LEMMA Frame ==
    ASSUME TypeOK, NEW r \in Reqs, NEW q \in Reqs, q # r,
           Arrive(q) \/ Serve(q) \/ Finish(q)
    PROVE  /\ pc'[r] = pc[r] /\ req'[r] = req[r]
           /\ loc'[r] = loc[r] /\ hist'[r] = hist[r]
           /\ now' = now /\ row' = row /\ redisUp' = redisUp
           /\ issued \subseteq issued'
<1> USE DEF TypeOK, Goto
<1>1. CASE Arrive(q)
  BY <1>1 DEF Arrive, Login, Refresh, Profile, Logout, LogoutBody, Begin
<1>2. CASE Finish(q)
  BY <1>2 DEF Finish
<1>3. CASE Serve(q)
  <2>1. CASE LoginFind(q) \/ RefreshFind(q)
    BY <2>1 DEF LoginFind, RefreshFind, FindActive
  <2>2. CASE LoginWrongPassword(q)
    BY <2>2 DEF LoginWrongPassword
  <2>3. CASE LoginIssue(q) \/ RefreshIssue(q)
    BY <2>3 DEF LoginIssue, RefreshIssue, Issue
  <2>4. CASE RefreshCheck(q) \/ GateCheck(q)
    BY <2>4 DEF RefreshCheck, GateCheck, CheckBlacklist
  <2>5. CASE RefreshValidate(q) \/ GateValidate(q) \/ LogoutAccess(q) \/ LogoutRefresh(q)
    BY <2>5 DEF RefreshValidate, GateValidate, LogoutAccess, LogoutRefresh, Validate
  <2>6. CASE RefreshUntil(q) \/ LogoutAccessUntil(q) \/ LogoutRefreshUntil(q)
    BY <2>6 DEF RefreshUntil, LogoutAccessUntil, LogoutRefreshUntil, ReadTTL
  <2>7. CASE RefreshRevoke(q) \/ LogoutAccessRevoke(q) \/ LogoutRefreshRevoke(q)
    BY <2>7 DEF RefreshRevoke, LogoutAccessRevoke, LogoutRefreshRevoke, BlacklistToken
  <2>8. QED
    BY <1>3, <2>1, <2>2, <2>3, <2>4, <2>5, <2>6, <2>7 DEF Serve
<1>4. QED  BY <1>1, <1>2, <1>3

\* The blacklist changes when a key is set and when the clock moves.
LEMMA BlacklistSteps ==
    ASSUME TypeOK, \A r \in Reqs : Shape(r), \A r \in Reqs : TTLSound(r), [Next]_vars
    PROVE  \/ UNCHANGED <<blacklist, now>>
           \/ Tick
           \/ /\ now' = now
              /\ \E t \in issued, ttl \in Int : t.exp - now <= ttl /\ SetKey(t, ttl)
<1> USE DEF TypeOK, Goto
<1>1. CASE Environment
  BY <1>1 DEF Environment, RedisDown, RedisBack, RowEdit
<1>2. ASSUME NEW r \in Reqs, Arrive(r) PROVE UNCHANGED <<blacklist, now>>
  BY <1>2 DEF Arrive, Login, Refresh, Profile, Logout, LogoutBody, Begin
<1>3. ASSUME NEW r \in Reqs, Finish(r) PROVE UNCHANGED <<blacklist, now>>
  BY <1>3 DEF Finish
<1>4. ASSUME NEW r \in Reqs, Serve(r)
      PROVE  \/ UNCHANGED <<blacklist, now>>
             \/ /\ now' = now
                /\ \E t \in issued, ttl \in Int : t.exp - now <= ttl /\ SetKey(t, ttl)
  <2>0. loc[r].ttl \in Int
    BY DEF Locals
  <2>1. CASE LoginFind(r) \/ RefreshFind(r)
    BY <2>1 DEF LoginFind, RefreshFind, FindActive
  <2>2. CASE LoginWrongPassword(r)
    BY <2>2 DEF LoginWrongPassword
  <2>3. CASE LoginIssue(r) \/ RefreshIssue(r)
    BY <2>3 DEF LoginIssue, RefreshIssue, Issue
  <2>4. CASE RefreshCheck(r) \/ GateCheck(r)
    BY <2>4 DEF RefreshCheck, GateCheck, CheckBlacklist
  <2>5. CASE RefreshValidate(r) \/ GateValidate(r) \/ LogoutAccess(r) \/ LogoutRefresh(r)
    BY <2>5 DEF RefreshValidate, GateValidate, LogoutAccess, LogoutRefresh, Validate
  <2>6. CASE RefreshUntil(r) \/ LogoutAccessUntil(r) \/ LogoutRefreshUntil(r)
    BY <2>6 DEF RefreshUntil, LogoutAccessUntil, LogoutRefreshUntil, ReadTTL
  <2>7. CASE RefreshRevoke(r)
    <3>1. req[r].tok \in issued /\ req[r].tok.exp - now <= loc[r].ttl
      BY <2>7 DEF RefreshRevoke, BlacklistToken, Shape, TTLSound
    <3>2. QED  BY <2>0, <2>7, <3>1 DEF RefreshRevoke, BlacklistToken
  <2>8. CASE LogoutAccessRevoke(r)
    <3>1. req[r].tok \in issued /\ req[r].tok.exp - now <= loc[r].ttl
      BY <2>8 DEF LogoutAccessRevoke, BlacklistToken, Shape, TTLSound
    <3>2. QED  BY <2>0, <2>8, <3>1 DEF LogoutAccessRevoke, BlacklistToken
  <2>9. CASE LogoutRefreshRevoke(r)
    <3>1. req[r].ref \in issued /\ req[r].ref.exp - now <= loc[r].ttl
      BY <2>9 DEF LogoutRefreshRevoke, BlacklistToken, Shape, TTLSound
    <3>2. QED  BY <2>0, <2>9, <3>1 DEF LogoutRefreshRevoke, BlacklistToken
  <2>10. QED
    BY <1>4, <2>1, <2>2, <2>3, <2>4, <2>5, <2>6, <2>7, <2>8, <2>9 DEF Serve
<1>5. CASE UNCHANGED vars
  BY <1>5 DEF vars
<1>6. QED  BY <1>1, <1>2, <1>3, <1>4, <1>5 DEF Next

\* Revocation and expiry are for ever: a dead token stays dead.  The TTL of every
\* key set is at least what is left of its token's life, so the key is still there
\* when the token expires.
LEMMA DeadMono ==
    ASSUME TypeOK, KeysSound, \A r \in Reqs : Shape(r), \A r \in Reqs : TTLSound(r),
           [Next]_vars, NEW t \in Claims, Dead(t)
    PROVE  Dead(t)'
<1> USE DEF TypeOK
<1>1. CASE UNCHANGED <<blacklist, now>>
  BY <1>1 DEF Dead, Listed
<1>2. CASE Tick
  <2>1. CASE now >= t.exp
    BY <1>2, <2>1 DEF Tick, Dead, Claims
  <2>2. ASSUME NEW k \in blacklist, k.tok = t PROVE Dead(t)'
    <3>1. k \in blacklist' \/ (k.until # Forever /\ k.until <= now + 1)
      BY <1>2 DEF Tick, Unexpired, Key
    <3>2. CASE k \in blacklist'
      BY <2>2, <3>2 DEF Dead, Listed
    <3>3. CASE k.until # Forever /\ k.until <= now + 1
      BY <1>2, <2>2, <3>3 DEF Tick, KeysSound, Dead, Key, Claims
    <3>4. QED  BY <3>1, <3>2, <3>3
  <2>3. QED  BY <2>1, <2>2 DEF Dead, Listed
<1>3. ASSUME NEW s \in issued, NEW ttl \in Int, SetKey(s, ttl), now' = now
      PROVE  Dead(t)'
  <2>1. CASE t = s
    <3> DEFINE new == [tok |-> s, until |-> IF ttl > 0 THEN now + ttl ELSE Forever]
    <3>1. new \in blacklist' /\ new.tok = s
      BY <1>3 DEF SetKey
    <3>2. QED  BY <2>1, <3>1 DEF Dead, Listed
  <2>2. CASE t # s /\ Listed(t)
    <3>1. PICK k \in blacklist : k.tok = t
      BY <2>2 DEF Listed
    <3>2. k \in blacklist'
      BY <1>3, <2>2, <3>1 DEF SetKey
    <3>3. QED  BY <3>1, <3>2 DEF Dead, Listed
  <2>3. CASE ~Listed(t)
    BY <1>3, <2>3 DEF Dead
  <2>4. QED  BY <2>1, <2>2, <2>3
<1>4. QED  BY <1>1, <1>2, <1>3, BlacklistSteps

\* KeysSound is preserved.
LEMMA KeysNext ==
    ASSUME TypeOK, KeysSound, \A r \in Reqs : Shape(r), \A r \in Reqs : TTLSound(r),
           [Next]_vars, issued \subseteq issued'
    PROVE  KeysSound'
<1> USE DEF TypeOK, Claims, Key
<1>1. CASE UNCHANGED <<blacklist, now>>
  BY <1>1 DEF KeysSound
<1>2. CASE Tick
  BY <1>2 DEF Tick, Unexpired, KeysSound
<1>3. ASSUME NEW s \in issued, NEW ttl \in Int, s.exp - now <= ttl,
             SetKey(s, ttl), now' = now
      PROVE  KeysSound'
  BY <1>3 DEF SetKey, KeysSound
<1>4. QED  BY <1>1, <1>2, <1>3, BlacklistSteps

-----------------------------------------------------------------------------
(* The conjuncts of the invariant about one request, kept by its own steps. *)

\* A step of the environment, as seen from a request.
LEMMA EnvFrame ==
    ASSUME TypeOK, Environment \/ UNCHANGED vars, NEW r \in Reqs
    PROVE  /\ pc' = pc /\ req' = req /\ loc' = loc /\ issued' = issued
           /\ hist'[r].late = hist[r].late /\ hist'[r].err = hist[r].err
           /\ hist[r].up => hist'[r].up
           /\ hist[r].roles \subseteq hist'[r].roles
<1> USE DEF TypeOK, History
<1>1. CASE Tick \/ RedisDown \/ UNCHANGED vars
  BY <1>1 DEF Tick, RedisDown, vars
<1>2. CASE RedisBack
  BY <1>2 DEF RedisBack
<1>3. ASSUME NEW u \in Users, RowEdit(u)
      PROVE  /\ pc' = pc /\ req' = req /\ loc' = loc /\ issued' = issued
             /\ hist'[r].late = hist[r].late /\ hist'[r].err = hist[r].err
             /\ hist[r].up => hist'[r].up
             /\ hist[r].roles \subseteq hist'[r].roles
  BY <1>3 DEF RowEdit
<1>4. QED  BY <1>1, <1>2, <1>3 DEF Environment

\* No step takes back a token that was handed out.
LEMMA IssuedGrows == ASSUME TypeOK, [Next]_vars PROVE issued \subseteq issued'
<1>1. CASE Environment \/ UNCHANGED vars
  BY <1>1 DEF Environment, Tick, RedisDown, RedisBack, RowEdit, vars
<1>2. ASSUME NEW q \in Reqs, Arrive(q) \/ Serve(q) \/ Finish(q)
      PROVE  issued \subseteq issued'
  BY <1>2 DEF Arrive, Login, Refresh, Profile, Logout, LogoutBody, Begin, Finish,
       Serve, LoginFind, RefreshFind, FindActive, LoginWrongPassword,
       LoginIssue, RefreshIssue, Issue, RefreshCheck, GateCheck, CheckBlacklist,
       RefreshValidate, GateValidate, LogoutAccess, LogoutRefresh, Validate,
       RefreshUntil, LogoutAccessUntil, LogoutRefreshUntil, ReadTTL,
       RefreshRevoke, LogoutAccessRevoke, LogoutRefreshRevoke, BlacklistToken
<1>3. QED  BY <1>1, <1>2 DEF Next

LEMMA ShapeStep ==
    ASSUME TypeOK, NEW r \in Reqs, Shape(r), issued \subseteq issued',
           Arrive(r) \/ Serve(r) \/ Finish(r)
    PROVE  Shape(r)'
<1> USE DEF TypeOK, Goto
<1>1. CASE Arrive(r)
  <2>1. CASE Login(r)
    BY <2>1 DEF Login, Begin, Entry, Shape
  <2>2. CASE Refresh(r)
    BY <2>2 DEF Refresh, Begin, Entry, Shape
  <2>3. CASE Profile(r)
    BY <2>3 DEF Profile, Begin, Entry, Shape
  <2>4. CASE Logout(r)
    BY <2>4 DEF Logout, Begin, Entry, Shape
  <2>5. CASE LogoutBody(r)
    BY <2>5 DEF LogoutBody, Shape
  <2>6. QED  BY <1>1, <2>1, <2>2, <2>3, <2>4, <2>5 DEF Arrive
<1>2. CASE Finish(r)
  BY <1>2 DEF Finish, NoReq, Shape
<1>3. CASE Serve(r)
  <2>1. CASE LoginFind(r) \/ RefreshFind(r)
    BY <2>1 DEF LoginFind, RefreshFind, FindActive, Shape
  <2>2. CASE LoginWrongPassword(r)
    BY <2>2 DEF LoginWrongPassword, Shape
  <2>3. CASE LoginIssue(r) \/ RefreshIssue(r)
    BY <2>3 DEF LoginIssue, RefreshIssue, Issue, Shape
  <2>4. CASE RefreshCheck(r) \/ GateCheck(r)
    BY <2>4 DEF RefreshCheck, GateCheck, CheckBlacklist, Shape
  <2>5. CASE RefreshValidate(r)
    BY <2>5 DEF RefreshValidate, Validate, Shape
  <2>6. CASE GateValidate(r)
    BY <2>6 DEF GateValidate, Validate, ValidateToken, Shape
  <2>7. CASE LogoutAccess(r)
    BY <2>7 DEF LogoutAccess, Validate, Shape
  <2>8. CASE LogoutRefresh(r)
    BY <2>8 DEF LogoutRefresh, Validate, Shape
  <2>9. CASE RefreshUntil(r) \/ LogoutAccessUntil(r) \/ LogoutRefreshUntil(r)
    BY <2>9 DEF RefreshUntil, LogoutAccessUntil, LogoutRefreshUntil, ReadTTL, Shape
  <2>10. CASE RefreshRevoke(r) \/ LogoutAccessRevoke(r) \/ LogoutRefreshRevoke(r)
    BY <2>10 DEF RefreshRevoke, LogoutAccessRevoke, LogoutRefreshRevoke,
         BlacklistToken, Shape
  <2>11. QED
    BY <1>3, <2>1, <2>2, <2>3, <2>4, <2>5, <2>6, <2>7, <2>8, <2>9, <2>10 DEF Serve
<1>4. QED  BY <1>1, <1>2, <1>3

LEMMA TTLStep ==
    ASSUME TypeOK, NEW r \in Reqs, Shape(r), TTLSound(r),
           Arrive(r) \/ Serve(r) \/ Finish(r)
    PROVE  TTLSound(r)'
<1> USE DEF TypeOK, Goto, TTLSound
<1>1. CASE Arrive(r)
  BY <1>1 DEF Arrive, Login, Refresh, Profile, Logout, LogoutBody, Begin, Entry
<1>2. CASE Finish(r)
  BY <1>2 DEF Finish
<1>3. CASE Serve(r)
  <2>1. CASE LoginFind(r) \/ RefreshFind(r)
    BY <2>1 DEF LoginFind, RefreshFind, FindActive
  <2>2. CASE LoginWrongPassword(r)
    BY <2>2 DEF LoginWrongPassword
  <2>3. CASE LoginIssue(r) \/ RefreshIssue(r)
    BY <2>3 DEF LoginIssue, RefreshIssue, Issue
  <2>4. CASE RefreshCheck(r) \/ GateCheck(r)
    BY <2>4 DEF RefreshCheck, GateCheck, CheckBlacklist
  <2>5. CASE RefreshValidate(r) \/ GateValidate(r) \/ LogoutAccess(r) \/ LogoutRefresh(r)
    BY <2>5 DEF RefreshValidate, GateValidate, LogoutAccess, LogoutRefresh, Validate
  <2>6. CASE RefreshUntil(r)
    BY <2>6 DEF RefreshUntil, ReadTTL, Shape, Locals, Claims
  <2>7. CASE LogoutAccessUntil(r)
    BY <2>7 DEF LogoutAccessUntil, ReadTTL, Shape, Locals, Claims
  <2>8. CASE LogoutRefreshUntil(r)
    BY <2>8 DEF LogoutRefreshUntil, ReadTTL, Shape, Locals, Claims
  <2>9. CASE RefreshRevoke(r) \/ LogoutAccessRevoke(r) \/ LogoutRefreshRevoke(r)
    BY <2>9 DEF RefreshRevoke, LogoutAccessRevoke, LogoutRefreshRevoke, BlacklistToken
  <2>10. QED
    BY <1>3, <2>1, <2>2, <2>3, <2>4, <2>5, <2>6, <2>7, <2>8, <2>9 DEF Serve
<1>4. QED  BY <1>1, <1>2, <1>3

\* The blacklist says no only about tokens that are not listed, so a token that was
\* dead on arrival and passes the check is past its expiry: the validation that
\* follows refuses it.
LEMMA LateStep ==
    ASSUME TypeOK, NEW r \in Reqs, Shape(r), LateSound(r),
           \A t \in Claims : Dead(t) => Dead(t)',
           Arrive(r) \/ Serve(r) \/ Finish(r)
    PROVE  LateSound(r)'
<1> USE DEF TypeOK, Goto, LateSound, Accepted
<1>1. CASE Arrive(r)
  <2>1. CASE Login(r)
    BY <2>1 DEF Login, Begin, History
  <2>2. ASSUME NEW t \in issued, NEW op \in Op \ {"login"},
               NEW ref \in issued \cup {NoToken}, Begin(r, op, t.sub, t, ref)
        PROVE  LateSound(r)'
    <3>1. /\ pc'[r] \in {"refresh_check", "gate_check"}
          /\ req'[r].tok = t /\ req'[r].op = op
          /\ hist'[r].late => Dead(t)
      BY <2>2 DEF Begin, Entry
    <3>2. QED  BY <3>1 DEF Claims
  <2>3. CASE Refresh(r) \/ Profile(r) \/ Logout(r)
    BY <2>2, <2>3 DEF Refresh, Profile, Logout
  <2>4. CASE LogoutBody(r)
    BY <2>4 DEF LogoutBody
  <2>5. QED  BY <1>1, <2>1, <2>3, <2>4 DEF Arrive
<1>2. CASE Finish(r)
  BY <1>2 DEF Finish, NoHist
<1>3. CASE Serve(r)
  <2>0. /\ req'[r] = req[r] /\ hist'[r].late = hist[r].late
    BY <1>3 DEF Serve, LoginFind, RefreshFind, FindActive, LoginWrongPassword,
       LoginIssue, RefreshIssue, Issue, RefreshCheck, GateCheck, CheckBlacklist,
       RefreshValidate, GateValidate, LogoutAccess, LogoutRefresh, Validate,
       RefreshUntil, LogoutAccessUntil, LogoutRefreshUntil, ReadTTL,
       RefreshRevoke, LogoutAccessRevoke, LogoutRefreshRevoke, BlacklistToken, History
  <2> SUFFICES ASSUME hist[r].late
               PROVE  /\ pc'[r] # "idle" /\ ~Accepted(r)'
                      /\ (pc'[r] \in {"refresh_validate", "gate_validate"}) =>
                            req[r].tok.exp <= now'
    BY <2>0, <1>3 DEF Shape, Serve
  <2>1. CASE LoginFind(r) \/ RefreshFind(r)
    BY <2>0, <2>1 DEF LoginFind, RefreshFind, FindActive, Shape
  <2>2. CASE LoginWrongPassword(r)
    BY <2>0, <2>2 DEF LoginWrongPassword
  <2>3. CASE LoginIssue(r) \/ RefreshIssue(r)
    BY <2>0, <2>3 DEF LoginIssue, RefreshIssue, Issue, Shape
  <2>4. CASE RefreshCheck(r) \/ GateCheck(r)
    BY <2>0, <2>4 DEF RefreshCheck, GateCheck, CheckBlacklist, Dead, Shape, Claims
  <2>5. CASE RefreshValidate(r)
    BY <2>0, <2>5 DEF RefreshValidate, Validate, ValidateToken, Shape, Claims
  <2>6. CASE GateValidate(r)
    BY <2>0, <2>6 DEF GateValidate, Validate, ValidateToken, Shape, Claims
  <2>7. CASE LogoutAccess(r) \/ LogoutRefresh(r)
    BY <2>7 DEF LogoutAccess, LogoutRefresh, Validate
  <2>8. CASE RefreshUntil(r) \/ LogoutAccessUntil(r) \/ LogoutRefreshUntil(r)
    BY <2>8 DEF RefreshUntil, LogoutAccessUntil, LogoutRefreshUntil, ReadTTL
  <2>9. CASE RefreshRevoke(r) \/ LogoutAccessRevoke(r) \/ LogoutRefreshRevoke(r)
    BY <2>9 DEF RefreshRevoke, LogoutAccessRevoke, LogoutRefreshRevoke, BlacklistToken
  <2>10. QED
    BY <1>3, <2>1, <2>2, <2>3, <2>4, <2>5, <2>6, <2>7, <2>8, <2>9 DEF Serve
<1>4. QED  BY <1>1, <1>2, <1>3

\* What setting a key is for.
LEMMA SetKeyKills ==
    ASSUME NEW t, NEW ttl, SetKey(t, ttl)
    PROVE  Dead(t)'
<1> DEFINE new == [tok |-> t, until |-> IF ttl > 0 THEN now + ttl ELSE Forever]
<1>1. new \in blacklist' /\ new.tok = t
  BY DEF SetKey
<1>2. QED  BY <1>1 DEF Dead, Listed

LEMMA RevokeStep ==
    ASSUME TypeOK, NEW r \in Reqs, Shape(r), RevokeSound(r),
           \A t \in Claims : Dead(t) => Dead(t)',
           Arrive(r) \/ Serve(r) \/ Finish(r)
    PROVE  RevokeSound(r)'
<1> USE DEF TypeOK, Goto
<1>1. CASE Arrive(r)
  BY <1>1 DEF Arrive, Login, Refresh, Profile, Logout, LogoutBody, Begin, Entry, RevokeSound
<1>2. CASE Finish(r)
  BY <1>2 DEF Finish, RevokeSound
<1>3. CASE Serve(r)
  <2>0. req'[r] = req[r]
    BY <1>3 DEF Serve, LoginFind, RefreshFind, FindActive, LoginWrongPassword,
       LoginIssue, RefreshIssue, Issue, RefreshCheck, GateCheck, CheckBlacklist,
       RefreshValidate, GateValidate, LogoutAccess, LogoutRefresh, Validate,
       RefreshUntil, LogoutAccessUntil, LogoutRefreshUntil, ReadTTL,
       RefreshRevoke, LogoutAccessRevoke, LogoutRefreshRevoke, BlacklistToken
  <2>1. CASE LoginFind(r) \/ RefreshFind(r)
    BY <2>1 DEF LoginFind, RefreshFind, FindActive, RevokeSound
  <2>2. CASE LoginWrongPassword(r)
    BY <2>2 DEF LoginWrongPassword, RevokeSound
  <2>3. CASE LoginIssue(r)
    BY <2>0, <2>3 DEF LoginIssue, Issue, RevokeSound, Shape
  <2>4. CASE RefreshIssue(r)
    BY <2>0, <2>4 DEF RefreshIssue, Issue, RevokeSound, Shape
  <2>5. CASE RefreshCheck(r) \/ GateCheck(r)
    BY <2>5 DEF RefreshCheck, GateCheck, CheckBlacklist, RevokeSound
  <2>6. CASE RefreshValidate(r)
    BY <2>6 DEF RefreshValidate, Validate, RevokeSound
  <2>7. CASE GateValidate(r)
    BY <2>7 DEF GateValidate, Validate, RevokeSound, Shape
  <2>8. CASE LogoutAccess(r)
    <3>1. req[r].tok \in Claims /\ req[r].tok # NoToken /\ req[r].tok.type = "access"
      BY <2>8, NoTokenAssumption DEF LogoutAccess, Validate, Shape
    <3>2. CASE pc'[r] = "logout_refresh"
      <4>1. Dead(req[r].tok)
        BY <2>8, <3>1, <3>2 DEF LogoutAccess, Validate, ValidateToken, Dead, Claims
      <4>2. QED  BY <2>0, <3>1, <3>2, <4>1 DEF RevokeSound
    <3>3. CASE pc'[r] = "logout_access_ttl"
      BY <3>3 DEF RevokeSound
    <3>4. QED  BY <2>8, <3>2, <3>3 DEF LogoutAccess, Validate
  <2>9. CASE LogoutRefresh(r)
    BY <2>0, <2>9 DEF LogoutRefresh, Validate, ValidateToken, RevokeSound, Shape, Dead, Claims
  <2>10. CASE RefreshUntil(r) \/ LogoutAccessUntil(r) \/ LogoutRefreshUntil(r)
    BY <2>10, <2>0 DEF RefreshUntil, LogoutAccessUntil, LogoutRefreshUntil, ReadTTL,
       RevokeSound, Shape
  <2>11. CASE RefreshRevoke(r)
    BY <2>0, <2>11, SetKeyKills DEF RefreshRevoke, BlacklistToken, RevokeSound, Shape, History
  <2>12. CASE LogoutAccessRevoke(r)
    BY <2>0, <2>12, SetKeyKills DEF LogoutAccessRevoke, BlacklistToken, RevokeSound, Shape, History
  <2>13. CASE LogoutRefreshRevoke(r)
    BY <2>0, <2>13, SetKeyKills DEF LogoutRefreshRevoke, BlacklistToken, RevokeSound, Shape, History
  <2>14. QED
    BY <1>3, <2>1, <2>2, <2>3, <2>4, <2>5, <2>6, <2>7, <2>8, <2>9, <2>10, <2>11,
       <2>12, <2>13 DEF Serve
<1>4. QED  BY <1>1, <1>2, <1>3

LEMMA OutageStep ==
    ASSUME TypeOK, NEW r \in Reqs, Shape(r), OutageSound(r),
           Arrive(r) \/ Serve(r) \/ Finish(r)
    PROVE  OutageSound(r)'
<1> USE DEF TypeOK, Goto, OutageSound, Accepted
<1>1. CASE Arrive(r)
  <2>1. ASSUME NEW op \in Op, NEW u, NEW t, NEW ref, Begin(r, op, u, t, ref)
        PROVE  OutageSound(r)'
    <3>1. pc'[r] \in {"login_find", "refresh_check", "gate_check"}
      BY <2>1 DEF Begin, Entry
    <3>2. hist'[r].up = redisUp /\ redisUp' = redisUp
      BY <2>1 DEF Begin
    <3>3. QED  BY <3>1, <3>2
  <2>2. CASE LogoutBody(r)
    BY <2>2 DEF LogoutBody
  <2>3. QED  BY <1>1, <2>1, <2>2 DEF Arrive, Login, Refresh, Profile, Logout
<1>2. CASE Finish(r)
  BY <1>2 DEF Finish
<1>3. CASE Serve(r)
  <2>0. /\ req'[r] = req[r] /\ hist'[r].up = hist[r].up /\ redisUp' = redisUp
        /\ pc[r] # "idle"
    BY <1>3 DEF Serve, LoginFind, RefreshFind, FindActive, LoginWrongPassword,
       LoginIssue, RefreshIssue, Issue, RefreshCheck, GateCheck, CheckBlacklist,
       RefreshValidate, GateValidate, LogoutAccess, LogoutRefresh, Validate,
       RefreshUntil, LogoutAccessUntil, LogoutRefreshUntil, ReadTTL,
       RefreshRevoke, LogoutAccessRevoke, LogoutRefreshRevoke, BlacklistToken, History
  <2> SUFFICES ASSUME pc'[r] \in {"refresh_validate", "gate_validate"} \/ Accepted(r)'
               PROVE  hist[r].up
    BY <2>0
  <2>1. CASE LoginFind(r) \/ RefreshFind(r)
    BY <2>0, <2>1 DEF LoginFind, RefreshFind, FindActive, Shape
  <2>2. CASE LoginWrongPassword(r)
    BY <2>0, <2>2 DEF LoginWrongPassword
  <2>3. CASE LoginIssue(r) \/ RefreshIssue(r)
    BY <2>0, <2>3 DEF LoginIssue, RefreshIssue, Issue, Shape
  <2>4. CASE RefreshCheck(r) \/ GateCheck(r)
    BY <2>0, <2>4 DEF RefreshCheck, GateCheck, CheckBlacklist
  <2>5. CASE RefreshValidate(r)
    BY <2>0, <2>5 DEF RefreshValidate, Validate
  <2>6. CASE GateValidate(r)
    BY <2>0, <2>6 DEF GateValidate, Validate
  <2>7. CASE LogoutAccess(r) \/ LogoutRefresh(r)
    BY <2>0, <2>7 DEF LogoutAccess, LogoutRefresh, Validate
  <2>8. CASE RefreshUntil(r) \/ LogoutAccessUntil(r) \/ LogoutRefreshUntil(r)
    BY <2>0, <2>8 DEF RefreshUntil, LogoutAccessUntil, LogoutRefreshUntil, ReadTTL
  <2>9. CASE RefreshRevoke(r) \/ LogoutAccessRevoke(r) \/ LogoutRefreshRevoke(r)
    BY <2>0, <2>9 DEF RefreshRevoke, LogoutAccessRevoke, LogoutRefreshRevoke, BlacklistToken
  <2>10. QED
    BY <1>3, <2>1, <2>2, <2>3, <2>4, <2>5, <2>6, <2>7, <2>8, <2>9 DEF Serve
<1>4. QED  BY <1>1, <1>2, <1>3

LEMMA RoleStep ==
    ASSUME TypeOK, NEW r \in Reqs, Shape(r), RoleSound(r),
           Arrive(r) \/ Serve(r) \/ Finish(r)
    PROVE  RoleSound(r)'
<1> USE DEF TypeOK, Goto, RoleSound
<1>1. CASE Arrive(r)
  <2>1. ASSUME NEW op \in Op, NEW u \in Users, NEW t, NEW ref, Begin(r, op, u, t, ref)
        PROVE  RoleSound(r)'
    <3>1. pc'[r] \in {"login_find", "refresh_check", "gate_check"}
      BY <2>1 DEF Begin, Entry
    <3>2. row' = row /\ req'[r].sub = u
      BY <2>1 DEF Begin
    <3>3. hist'[r].roles = IF row[u].active THEN {row[u].role} ELSE {}
      BY <2>1 DEF Begin
    <3>4. QED  BY <3>1, <3>2, <3>3
  <2>2. \A t \in issued : t.sub \in Users
    BY DEF Claims
  <2>3. CASE LogoutBody(r)
    BY <2>3 DEF LogoutBody
  <2>4. QED  BY <1>1, <2>1, <2>2, <2>3 DEF Arrive, Login, Refresh, Profile, Logout
<1>2. CASE Finish(r)
  BY <1>2 DEF Finish
<1>3. CASE Serve(r)
  <2>0. /\ req'[r] = req[r] /\ hist'[r].roles = hist[r].roles /\ row' = row
        /\ pc[r] # "idle"
    BY <1>3 DEF Serve, LoginFind, RefreshFind, FindActive, LoginWrongPassword,
       LoginIssue, RefreshIssue, Issue, RefreshCheck, GateCheck, CheckBlacklist,
       RefreshValidate, GateValidate, LogoutAccess, LogoutRefresh, Validate,
       RefreshUntil, LogoutAccessUntil, LogoutRefreshUntil, ReadTTL,
       RefreshRevoke, LogoutAccessRevoke, LogoutRefreshRevoke, BlacklistToken, History
  <2> SUFFICES ASSUME pc'[r] \in {"login_issue", "refresh_ttl", "refresh_set", "refresh_issue"}
               PROVE  loc'[r].role \in hist[r].roles
    BY <2>0
  <2>1. CASE LoginFind(r) \/ RefreshFind(r)
    BY <2>0, <2>1 DEF LoginFind, RefreshFind, FindActive, Locals
  <2>2. CASE LoginWrongPassword(r)
    BY <2>2 DEF LoginWrongPassword
  <2>3. CASE LoginIssue(r) \/ RefreshIssue(r)
    BY <2>3 DEF LoginIssue, RefreshIssue, Issue
  <2>4. CASE RefreshCheck(r) \/ GateCheck(r)
    BY <2>4 DEF RefreshCheck, GateCheck, CheckBlacklist
  <2>5. CASE RefreshValidate(r) \/ GateValidate(r) \/ LogoutAccess(r) \/ LogoutRefresh(r)
    BY <2>5 DEF RefreshValidate, GateValidate, LogoutAccess, LogoutRefresh, Validate
  <2>6. CASE RefreshUntil(r) \/ LogoutAccessUntil(r) \/ LogoutRefreshUntil(r)
    BY <2>6 DEF RefreshUntil, LogoutAccessUntil, LogoutRefreshUntil, ReadTTL, Locals
  <2>7. CASE RefreshRevoke(r) \/ LogoutAccessRevoke(r) \/ LogoutRefreshRevoke(r)
    BY <2>7 DEF RefreshRevoke, LogoutAccessRevoke, LogoutRefreshRevoke, BlacklistToken
  <2>8. QED
    BY <1>3, <2>1, <2>2, <2>3, <2>4, <2>5, <2>6, <2>7 DEF Serve
<1>4. QED  BY <1>1, <1>2, <1>3

-----------------------------------------------------------------------------
(* The invariant.                                                          *)

Local(r) == /\ Shape(r) /\ TTLSound(r) /\ LateSound(r)
            /\ RevokeSound(r) /\ OutageSound(r) /\ RoleSound(r)

LEMMA InvInit == Init => IInv
<1> SUFFICES ASSUME Init PROVE IInv
  OBVIOUS
<1>1. TypeOK /\ KeysSound
  BY TypeInit DEF Init, KeysSound
<1>2. ASSUME NEW r \in Reqs PROVE Local(r)
  BY DEF Init, NoReq, NoHist, Local, Shape, TTLSound, LateSound, RevokeSound,
     OutageSound, RoleSound, Accepted
<1>3. QED  BY <1>1, <1>2 DEF IInv, Local

\* A request whose own state does not change keeps its conjuncts: tokens stay dead,
\* the clock only moves on, and only RedisBack and RowEdit reach into its history.
LEMMA Passive ==
    ASSUME TypeOK, NEW r \in Reqs, Local(r),
           \A t \in Claims : Dead(t) => Dead(t)',
           issued \subseteq issued', now' \in Nat, now <= now',
           pc'[r] = pc[r], req'[r] = req[r], loc'[r] = loc[r],
           hist'[r].late = hist[r].late, hist'[r].err = hist[r].err,
           hist[r].up => hist'[r].up, hist[r].roles \subseteq hist'[r].roles
    PROVE  Shape(r)' /\ TTLSound(r)' /\ LateSound(r)' /\ RevokeSound(r)'
<1> USE DEF TypeOK, Local
<1>1. Shape(r)'
  BY DEF Shape
<1>2. TTLSound(r)'
  BY DEF TTLSound, Shape, Locals, Claims
<1>3. LateSound(r)'
  BY DEF LateSound, Shape, Accepted, Claims
<1>4. RevokeSound(r)'
  BY NoTokenAssumption DEF RevokeSound, Shape
<1>5. QED  BY <1>1, <1>2, <1>3, <1>4

LEMMA InvNext == IInv /\ [Next]_vars => IInv'
<1> SUFFICES ASSUME IInv, [Next]_vars PROVE IInv'
  OBVIOUS
<1>1. /\ TypeOK /\ KeysSound
      /\ \A r \in Reqs : Shape(r)
      /\ \A r \in Reqs : TTLSound(r)
      /\ \A r \in Reqs : Local(r)
  BY DEF IInv, Local
<1>2. TypeOK' /\ issued \subseteq issued'
  BY <1>1, TypeNext, IssuedGrows
<1>3. KeysSound'
  BY <1>1, <1>2, KeysNext
<1>4. \A t \in Claims : Dead(t) => Dead(t)'
  BY <1>1, DeadMono
<1>5. ASSUME NEW r \in Reqs PROVE Local(r)'
  <2>1. CASE Environment \/ UNCHANGED vars
    <3>1. now' \in Nat /\ now <= now'
      BY <1>1, <2>1 DEF Environment, Tick, RedisDown, RedisBack, RowEdit, vars, TypeOK
    <3>2. Shape(r)' /\ TTLSound(r)' /\ LateSound(r)' /\ RevokeSound(r)'
      BY <1>1, <1>2, <1>4, <2>1, <3>1, EnvFrame, Passive
    <3>3. OutageSound(r)'
      BY <1>1, <2>1, EnvFrame DEF Environment, Tick, RedisDown, RedisBack, RowEdit, vars,
         OutageSound, Local, Accepted, TypeOK, History
    <3>4. RoleSound(r)'
      <4>1. CASE row' = row
        BY <1>1, <2>1, <4>1, EnvFrame DEF RoleSound, Local
      <4>2. ASSUME NEW u \in Users, RowEdit(u) PROVE RoleSound(r)'
        BY <1>1, <4>2 DEF RowEdit, RoleSound, Local, TypeOK, History, Row, Request
      <4>3. QED
        BY <2>1, <4>1, <4>2 DEF Environment, Tick, RedisDown, RedisBack, vars
    <3>5. QED  BY <3>2, <3>3, <3>4 DEF Local
  <2>2. CASE Arrive(r) \/ Serve(r) \/ Finish(r)
    BY <1>1, <1>2, <1>4, <2>2, ShapeStep, TTLStep, LateStep, RevokeStep, OutageStep,
       RoleStep DEF Local
  <2>3. ASSUME NEW q \in Reqs, q # r, Arrive(q) \/ Serve(q) \/ Finish(q)
        PROVE  Local(r)'
    <3>1. /\ pc'[r] = pc[r] /\ req'[r] = req[r]
          /\ loc'[r] = loc[r] /\ hist'[r] = hist[r]
          /\ now' = now /\ row' = row /\ redisUp' = redisUp
      BY <1>1, <2>3, Frame
    <3>2. Shape(r)' /\ TTLSound(r)' /\ LateSound(r)' /\ RevokeSound(r)'
      BY <1>1, <1>2, <1>4, <3>1, Passive DEF TypeOK
    <3>3. OutageSound(r)' /\ RoleSound(r)'
      BY <1>1, <3>1 DEF OutageSound, RoleSound, Local, Accepted
    <3>4. QED  BY <3>2, <3>3 DEF Local
  <2>4. QED  BY <2>1, <2>2, <2>3 DEF Next
<1>6. QED  BY <1>2, <1>3, <1>5 DEF IInv, Local

\* The invariant holds in every behaviour.
THEOREM Invariance == Spec => []IInv
<1>1. Init => IInv
  BY InvInit
<1>2. IInv /\ [Next]_vars => IInv'
  BY InvNext
<1>3. QED  BY <1>1, <1>2, PTL DEF Spec

-----------------------------------------------------------------------------
(* The theorems.                                                           *)

\* Every variable stays in its range: in particular no handler computes a TTL from,
\* or revokes, something that is not a token.
THEOREM TypeCorrect == Spec => []TypeOK
<1>1. IInv => TypeOK
  BY DEF IInv
<1>2. QED  BY <1>1, Invariance, PTL

\* No token is accepted by a request that arrived after the token was revoked or had
\* expired, however the requests interleave, whatever Redis loses of its replies.
THEOREM NoLateGrantHolds == Spec => []NoLateGrant
<1>1. IInv => NoLateGrant
  BY DEF IInv, LateSound, NoLateGrant
<1>2. QED  BY <1>1, Invariance, PTL

\* Every key of the blacklist outlives its token.
THEOREM KeyOutlivesTokenHolds == Spec => []KeyOutlivesToken
<1>1. IInv => KeyOutlivesToken
  BY DEF IInv, KeysSound, KeyOutlivesToken
<1>2. QED  BY <1>1, Invariance, PTL

\* A key that Redis keeps for ever is one of an expired token.
THEOREM ForeverOnlyIfExpiredHolds == Spec => []ForeverOnlyIfExpired
<1>1. IInv => ForeverOnlyIfExpired
  BY DEF IInv, KeysSound, ForeverOnlyIfExpired
<1>2. QED  BY <1>1, Invariance, PTL

\* A refresh or logout that succeeded without a Redis error has revoked its tokens.
THEOREM SuccessRevokesHolds == Spec => []SuccessRevokes
<1>1. IInv => SuccessRevokes
  BY DEF IInv, RevokeSound, SuccessRevokes
<1>2. QED  BY <1>1, Invariance, PTL

\* No token is accepted by a request that ran wholly inside a Redis outage.
THEOREM OutageDeniesHolds == Spec => []OutageDenies
<1>1. IInv => OutageDenies
  BY DEF IInv, OutageSound, OutageDenies
<1>2. QED  BY <1>1, Invariance, PTL

\* New tokens come from a request that is issuing, while the blacklist rests.
LEMMA NewTokens ==
    ASSUME TypeOK, [Next]_vars, NEW t \in issued', t \notin issued
    PROVE  /\ blacklist' = blacklist
           /\ \E r \in Reqs :
                /\ pc[r] \in {"login_issue", "refresh_issue"} /\ pc'[r] = "ok"
                /\ t \in GenerateTokenPair(req[r].sub, loc[r].role, now)
<1>1. PICK r \in Reqs : LoginIssue(r) \/ RefreshIssue(r)
  <2>1. issued' # issued
    OBVIOUS
  <2>2. CASE Environment \/ UNCHANGED vars
    BY <2>1, <2>2 DEF Environment, Tick, RedisDown, RedisBack, RowEdit, vars
  <2>3. ASSUME NEW q \in Reqs, Arrive(q) \/ Serve(q) \/ Finish(q)
        PROVE  LoginIssue(q) \/ RefreshIssue(q)
    BY <2>1, <2>3 DEF Arrive, Login, Refresh, Profile, Logout, LogoutBody, Begin, Finish,
       Serve, LoginFind, RefreshFind, FindActive, LoginWrongPassword,
       RefreshCheck, GateCheck, CheckBlacklist,
       RefreshValidate, GateValidate, LogoutAccess, LogoutRefresh, Validate,
       RefreshUntil, LogoutAccessUntil, LogoutRefreshUntil, ReadTTL,
       RefreshRevoke, LogoutAccessRevoke, LogoutRefreshRevoke, BlacklistToken
  <2>4. QED  BY <2>1, <2>2, <2>3 DEF Next
<1>2. QED
  BY <1>1 DEF LoginIssue, RefreshIssue, Issue, Goto, TypeOK

\* The role in a new token is one the user's row held, active, during the request.
THEOREM NewTokenReflectsRowHolds == Spec => NewTokenReflectsRow
<1>1. ASSUME IInv, [Next]_vars, NEW t \in issued' \ issued
      PROVE  \E r \in Reqs :
                /\ pc[r] \in {"login_issue", "refresh_issue"} /\ pc'[r] = "ok"
                /\ req[r].sub = t.sub
                /\ t.role \in hist[r].roles
  <2>1. TypeOK /\ \A r \in Reqs : RoleSound(r)
    BY <1>1 DEF IInv
  <2>2. PICK r \in Reqs :
           /\ pc[r] \in {"login_issue", "refresh_issue"} /\ pc'[r] = "ok"
           /\ t \in GenerateTokenPair(req[r].sub, loc[r].role, now)
    BY <1>1, <2>1, NewTokens
  <2>3. req[r].sub \in Users /\ loc[r].role \in Roles /\ now \in Nat
    BY <2>1 DEF TypeOK, Request, Locals
  <2>4. t.sub = req[r].sub /\ t.role = loc[r].role
    BY <2>2, <2>3, PairType
  <2>5. QED  BY <2>1, <2>2, <2>4 DEF RoleSound
<1>2. IInv /\ [Next]_vars =>
         [\A t \in issued' \ issued :
             \E r \in Reqs :
                /\ pc[r] \in {"login_issue", "refresh_issue"} /\ pc'[r] = "ok"
                /\ req[r].sub = t.sub
                /\ t.role \in hist[r].roles]_vars
  BY <1>1
<1>3. QED  BY <1>2, Invariance, PTL DEF Spec, NewTokenReflectsRow

\* A token handed out for the first time is not in the blacklist.
THEOREM NewTokenNotListedHolds == Spec => NewTokenNotListed
<1>1. ASSUME IInv, [Next]_vars, NEW t \in issued' \ issued
      PROVE  ~Listed(t)'
  <2>1. blacklist' = blacklist
    BY <1>1, NewTokens DEF IInv
  <2>2. QED  BY <1>1, <2>1 DEF IInv, KeysSound, Listed
<1>2. IInv /\ [Next]_vars => [\A t \in issued' \ issued : ~Listed(t)']_vars
  BY <1>1
<1>3. QED  BY <1>2, Invariance, PTL DEF Spec, NewTokenNotListed

-----------------------------------------------------------------------------
(* Sessions implements RevocationGate.                                     *)

\* What a step of r may do to the state of the gate, and which step of the gate
\* that is.
LEMMA GateStep ==
    ASSUME TypeOK, NEW r \in Reqs,
           \A q \in Reqs \ {r} : GateAsk'[q] = GateAsk[q],
           GateDead \subseteq GateDead', GateDead' \subseteq Claims,
           \/ GateAsk'[r] = GateAsk[r]
           \/ /\ GateDead' = GateDead
              /\ \/ /\ GateAsk[r].state = "idle"
                    /\ GateAsk'[r].tok \in Claims
                    /\ GateAsk'[r] = [state |-> "asked", tok |-> GateAsk'[r].tok,
                                      alive |-> GateAsk'[r].tok \notin GateDead]
                 \/ /\ GateAsk[r].state = "asked" /\ GateAsk[r].alive
                    /\ GateAsk'[r] = [GateAsk[r] EXCEPT !.state = "granted"]
                 \/ /\ GateAsk[r].state \in {"asked", "granted"}
                    /\ GateAsk'[r] = [GateAsk[r] EXCEPT !.state = "refused"]
                 \/ /\ GateAsk[r].state \in {"granted", "refused"}
                    /\ GateAsk'[r] = Gate!Idle
    PROVE  [Gate!Next]_(Gate!vars)
<1>1. /\ GateAsk = [q \in Reqs |-> GateAsk[q]]
      /\ GateAsk' = [q \in Reqs |-> GateAsk'[q]]
  BY DEF GateAsk
<1>2. GateAsk' = [GateAsk EXCEPT ![r] = GateAsk'[r]]
  BY <1>1
<1>3. CASE GateAsk'[r] = GateAsk[r]
  <2>1. GateAsk' = GateAsk
    BY <1>1, <1>3
  <2>2. QED  BY <2>1 DEF Gate!Next, Gate!Kill, Gate!vars
<1>4. CASE GateAsk'[r] # GateAsk[r]
  BY <1>2, <1>4 DEF Gate!Next, Gate!Ask, Gate!Grant, Gate!Refuse, Gate!Close, Gate!vars
<1>5. QED  BY <1>3, <1>4

\* The dead tokens only become more.
LEMMA GateDeadGrows ==
    ASSUME IInv, [Next]_vars
    PROVE  GateDead \subseteq GateDead' /\ GateDead' \subseteq Claims
<1>1. \A t \in Claims : Dead(t) => Dead(t)'
  BY DeadMono DEF IInv
<1>2. TypeOK /\ TypeOK' /\ issued \subseteq issued'
  BY IssuedGrows, InvNext DEF IInv
<1>3. QED  BY <1>1, <1>2 DEF GateDead, TypeOK

\* A step of r leaves the other requests of the gate alone.
LEMMA GateFrame ==
    ASSUME TypeOK, NEW r \in Reqs, Arrive(r) \/ Serve(r) \/ Finish(r)
    PROVE  \A q \in Reqs \ {r} : GateAsk'[q] = GateAsk[q]
<1> SUFFICES ASSUME NEW q \in Reqs \ {r} PROVE GateAsk'[q] = GateAsk[q]
  OBVIOUS
<1>1. pc'[q] = pc[q] /\ req'[q] = req[q] /\ hist'[q] = hist[q]
  BY Frame
<1>2. QED  BY <1>1 DEF GateAsk, GateState, Accepted

\* Arrival of a request with a token is the gate's Ask; a login passes unseen.
LEMMA GateArrive ==
    ASSUME IInv, IInv', NEW r \in Reqs, Arrive(r)
    PROVE  [Gate!Next]_(Gate!vars)
<1> USE DEF IInv, TypeOK
<1>1. GateDead' = GateDead
  BY DEF Arrive, Login, Refresh, Profile, Logout, LogoutBody, Begin, GateDead, Dead, Listed
<1>2. GateDead \subseteq GateDead' /\ GateDead' \subseteq Claims
  BY <1>1 DEF GateDead
<1>3. pc[r] = "idle" => GateAsk[r] = Gate!Idle
  BY DEF GateAsk, GateState, Gate!Idle
<1>4. CASE Login(r)
  <2>1. GateAsk'[r] = GateAsk[r]
    BY <1>3, <1>4 DEF Login, Begin, GateAsk, GateState, Gate!Idle
  <2>2. QED  BY <1>2, <2>1, GateStep, GateFrame DEF Arrive
<1>5. ASSUME NEW op \in Op \ {"login"}, NEW t \in issued, NEW ref, Begin(r, op, t.sub, t, ref)
      PROVE  [Gate!Next]_(Gate!vars)
  <2>0. t \in Claims /\ t # NoToken
    BY NoTokenAssumption
  <2>1. /\ pc'[r] \in {"refresh_check", "gate_check"}
        /\ req'[r] = [op |-> op, sub |-> t.sub, tok |-> t, ref |-> ref]
        /\ hist'[r].late = (t # NoToken /\ Dead(t))
    BY <1>5 DEF Begin, Entry
  <2>2. (~hist'[r].late) = (t \notin GateDead)
    BY <2>0, <2>1 DEF GateDead
  <2>3. GateState(r)' = "asked"
    BY <2>1 DEF GateState, Accepted
  <2>4. GateAsk'[r] = [state |-> "asked", tok |-> t, alive |-> t \notin GateDead]
    BY <2>1, <2>2, <2>3 DEF GateAsk
  <2>5. GateAsk'[r].tok = t /\ GateAsk[r].state = "idle"
    BY <1>3, <1>5, <2>4 DEF Begin, Gate!Idle
  <2>6. Arrive(r)
    OBVIOUS
  <2>7. QED
    BY <1>1, <1>2, <2>0, <2>4, <2>5, <2>6, GateStep, GateFrame
<1>6. CASE Refresh(r) \/ Profile(r) \/ Logout(r)
  BY <1>5, <1>6 DEF Refresh, Profile, Logout
<1>7. CASE LogoutBody(r)
  <2>1. /\ pc[r] = "logout_body" /\ pc'[r] = "logout_access"
        /\ req'[r].op = req[r].op /\ req'[r].tok = req[r].tok /\ hist' = hist
    BY <1>7 DEF LogoutBody
  <2>2. GateAsk'[r] = GateAsk[r]
    BY <2>1 DEF GateAsk, GateState, Accepted
  <2>3. QED  BY <1>2, <2>2, GateStep, GateFrame
<1>8. QED  BY <1>4, <1>6, <1>7 DEF Arrive

\* A response reaching its client closes the request.
LEMMA GateFinish ==
    ASSUME IInv, IInv', NEW r \in Reqs, Finish(r)
    PROVE  [Gate!Next]_(Gate!vars)
<1> USE DEF IInv, TypeOK
<1>1. GateDead' = GateDead
  BY DEF Finish, GateDead, Dead, Listed
<1>2. GateDead \subseteq GateDead' /\ GateDead' \subseteq Claims
  BY <1>1 DEF GateDead
<1>3. GateAsk'[r] = Gate!Idle
  BY DEF Finish, GateAsk, GateState, Gate!Idle
<1>4. CASE req[r].op = "login"
  <2>1. GateAsk[r] = Gate!Idle
    BY <1>4 DEF GateAsk, GateState, Gate!Idle
  <2>2. QED  BY <1>2, <1>3, <2>1, GateStep, GateFrame
<1>5. CASE req[r].op # "login"
  <2>1. GateAsk[r].state \in {"granted", "refused"}
    BY <1>5 DEF Finish, GateAsk, GateState, Accepted
  <2>2. QED  BY <1>1, <1>2, <1>3, <2>1, GateStep, GateFrame
<1>6. QED  BY <1>4, <1>5

\* Serving a request moves the gate from asked to granted, to refused, or not at all.
\* A grant is only given to a token that was alive on arrival.
LEMMA GateServe ==
    ASSUME IInv, IInv', NEW r \in Reqs, Serve(r), GateDead \subseteq GateDead'
    PROVE  [Gate!Next]_(Gate!vars)
<1> USE DEF IInv, TypeOK, Goto
<1>0. GateDead' \subseteq Claims
  BY DEF GateDead
<1>1. req'[r] = req[r] /\ hist'[r].late = hist[r].late /\ pc[r] # "idle" /\ pc'[r] # "idle"
  BY DEF Serve, LoginFind, RefreshFind, FindActive, LoginWrongPassword,
     LoginIssue, RefreshIssue, Issue, RefreshCheck, GateCheck, CheckBlacklist,
     RefreshValidate, GateValidate, LogoutAccess, LogoutRefresh, Validate,
     RefreshUntil, LogoutAccessUntil, LogoutRefreshUntil, ReadTTL,
     RefreshRevoke, LogoutAccessRevoke, LogoutRefreshRevoke, BlacklistToken, History
<1>2. CASE req[r].op = "login"
  <2>1. GateAsk'[r] = GateAsk[r]
    BY <1>1, <1>2 DEF GateAsk, GateState
  <2>2. QED  BY <1>0, <2>1, GateStep, GateFrame
<1>3. CASE req[r].op # "login"
  <2>0. /\ GateAsk[r] = [state |-> GateState(r), tok |-> req[r].tok, alive |-> ~hist[r].late]
        /\ GateAsk'[r] = [state |-> GateState(r)', tok |-> req[r].tok, alive |-> ~hist[r].late]
    BY <1>1, <1>3 DEF GateAsk, GateState
  <2>1. CASE GateState(r)' = GateState(r)
    BY <1>0, <2>0, <2>1, GateStep, GateFrame
  <2>2. CASE GateState(r)' # GateState(r)
    <3>1. /\ GateDead' = GateDead
          /\ \/ GateState(r) = "asked" /\ GateState(r)' = "granted" /\ Accepted(r)'
             \/ GateState(r) \in {"asked", "granted"} /\ GateState(r)' = "refused"
      <4>1. CASE RefreshCheck(r) \/ GateCheck(r)
        BY <1>1, <1>3, <2>2, <4>1 DEF RefreshCheck, GateCheck, CheckBlacklist, GateState,
           Accepted, GateDead, Dead, Listed
      <4>2. CASE RefreshValidate(r)
        BY <1>1, <1>3, <2>2, <4>2 DEF RefreshValidate, Validate, GateState, Accepted,
           GateDead, Dead, Listed
      <4>3. CASE GateValidate(r)
        BY <1>1, <1>3, <2>2, <4>3 DEF GateValidate, Validate, GateState, Accepted,
           GateDead, Dead, Listed
      <4>4. CASE RefreshFind(r)
        BY <1>1, <1>3, <2>2, <4>4 DEF RefreshFind, FindActive, GateState, Accepted,
           GateDead, Dead, Listed
      <4>5. CASE LoginFind(r) \/ LoginWrongPassword(r) \/ LoginIssue(r)
        BY <1>3, <4>5 DEF LoginFind, FindActive, LoginWrongPassword, LoginIssue, Issue, Shape
      <4>6. CASE RefreshIssue(r)
        BY <1>1, <1>3, <2>2, <4>6 DEF RefreshIssue, Issue, GateState, Accepted
      <4>7. CASE LogoutAccess(r) \/ LogoutRefresh(r)
        BY <1>1, <1>3, <2>2, <4>7 DEF LogoutAccess, LogoutRefresh, Validate, GateState, Accepted
      <4>8. CASE RefreshUntil(r) \/ LogoutAccessUntil(r) \/ LogoutRefreshUntil(r)
        BY <1>1, <1>3, <2>2, <4>8 DEF RefreshUntil, LogoutAccessUntil, LogoutRefreshUntil,
           ReadTTL, GateState, Accepted
      <4>9. CASE RefreshRevoke(r) \/ LogoutAccessRevoke(r) \/ LogoutRefreshRevoke(r)
        BY <1>1, <1>3, <2>2, <4>9 DEF RefreshRevoke, LogoutAccessRevoke, LogoutRefreshRevoke,
           BlacklistToken, GateState, Accepted
      <4>10. QED
        BY <4>1, <4>2, <4>3, <4>4, <4>5, <4>6, <4>7, <4>8, <4>9 DEF Serve
    <3>2. Accepted(r)' => ~hist[r].late
      BY <1>1 DEF LateSound
    <3>3. CASE GateState(r)' = "granted" /\ GateState(r) = "asked" /\ Accepted(r)'
      <4>0. GateAsk[r].alive = TRUE
        <5>1. hist[r].late = FALSE
          BY <3>2, <3>3 DEF History
        <5>2. (~hist[r].late) = TRUE
          BY <5>1
        <5>3. GateAsk[r].alive = ~hist[r].late
          BY <2>0
        <5>4. QED  BY <5>2, <5>3
      <4>1. /\ GateAsk[r].state = "asked" /\ GateAsk[r].alive
            /\ GateAsk'[r] = [GateAsk[r] EXCEPT !.state = "granted"]
        BY <2>0, <3>3, <4>0
      <4>2. QED  BY <1>0, <3>1, <4>1, GateStep, GateFrame
    <3>4. CASE GateState(r)' = "refused" /\ GateState(r) \in {"asked", "granted"}
      <4>1. /\ GateAsk[r].state \in {"asked", "granted"}
            /\ GateAsk'[r] = [GateAsk[r] EXCEPT !.state = "refused"]
        BY <2>0, <3>4
      <4>2. QED  BY <1>0, <3>1, <4>1, GateStep, GateFrame
    <3>5. QED  BY <3>1, <3>3, <3>4
  <2>3. QED  BY <2>1, <2>2
<1>4. QED  BY <1>2, <1>3

\* A step of the environment can only make tokens die.
LEMMA GateEnvironment ==
    ASSUME IInv, IInv', Environment \/ UNCHANGED vars, GateDead \subseteq GateDead'
    PROVE  [Gate!Next]_(Gate!vars)
<1>1. ASSUME NEW r \in Reqs PROVE GateAsk'[r] = GateAsk[r]
  BY EnvFrame DEF GateAsk, GateState, Accepted, IInv
<1>2. GateAsk' = GateAsk
  BY <1>1 DEF GateAsk
<1>3. QED  BY <1>2 DEF Gate!Next, Gate!Kill, Gate!vars, GateDead, IInv, TypeOK

\* Sessions implements the promise of the gate.
THEOREM ImplementsGateHolds == Spec => ImplementsGate
<1>1. Init => Gate!Init
  BY DEF Init, Gate!Init, GateDead, GateAsk, GateState, Gate!Idle
<1>2. IInv /\ IInv' /\ [Next]_vars => [Gate!Next]_(Gate!vars)
  BY GateDeadGrows, GateArrive, GateFinish, GateServe, GateEnvironment DEF Next
<1>3. QED  BY <1>1, <1>2, Invariance, PTL DEF Spec, ImplementsGate, Gate!Spec
=============================================================================
