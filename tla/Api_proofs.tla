----------------------------- MODULE Api_proofs -----------------------------
(***************************************************************************)
(* Proofs about the administration routes, for any number of users, roles  *)
(* and requests and any token lifetimes: what holds of Sessions holds with *)
(* them, and only who was an administrator lately gets past RoleRequired.  *)
(***************************************************************************)
EXTENDS Api, Sessions_proofs

\* Every step is a step of Sessions, or leaves its variables alone.
LEMMA IsSessionsStep == ASSUME ApiTypeOK, [ApiNext]_apiVars PROVE [Next]_vars
<1>1. ASSUME NEW r \in Reqs, ServeAdmin(r) PROVE [Next]_vars
  <2>1. CASE SaveUser(r)
    <3>1. change[r].id \in Users
      BY DEF ApiTypeOK
    <3>2. RowEdit(change[r].id) \/ UNCHANGED vars
      BY <2>1 DEF SaveUser, WriteRow
    <3>3. QED  BY <3>1, <3>2 DEF Next, Environment
  <2>2. QED  BY <1>1, <2>1 DEF ServeAdmin, RoleRequired, ListUsers, ReadBody, FindUser
<1>2. ASSUME NEW r \in Reqs, ArrivePlain(r) \/ ArriveAdmin(r) \/ FinishApi(r) \/ ServePlain(r)
      PROVE  [Next]_vars
  BY <1>2 DEF ArrivePlain, ArriveAdmin, Arrive, FinishApi, ServePlain, Next
<1>3. CASE UNCHANGED apiVars
  BY <1>3 DEF apiVars
<1>4. QED  BY <1>1, <1>2, <1>3 DEF ApiNext, Elsewhere, Next

LEMMA NowNext == ASSUME TypeOK, [Next]_vars PROVE now' \in Nat /\ now <= now'
<1>1. CASE Environment \/ UNCHANGED vars
  BY <1>1 DEF Environment, Tick, RedisDown, RedisBack, RowEdit, vars, TypeOK
<1>2. ASSUME NEW q \in Reqs, Arrive(q) \/ Serve(q) \/ Finish(q) PROVE now' = now
  BY <1>2 DEF Arrive, Login, Refresh, Profile, Logout, LogoutBody, Begin, Finish,
       Serve, LoginFind, RefreshFind, FindActive, LoginWrongPassword,
       LoginIssue, RefreshIssue, Issue, RefreshCheck, GateCheck, CheckBlacklist,
       RefreshValidate, GateValidate, LogoutAccess, LogoutRefresh, Validate,
       RefreshUntil, LogoutAccessUntil, LogoutRefreshUntil, ReadTTL,
       RefreshRevoke, LogoutAccessRevoke, LogoutRefreshRevoke, BlacklistToken
<1>3. QED  BY <1>1, <1>2 DEF Next, TypeOK

-----------------------------------------------------------------------------
(* Who was an administrator, and the tokens that say so.                   *)

LEMMA HeldNext ==
    ASSUME TypeOK, ApiTypeOK, HeldInv, [ApiNext]_apiVars
    PROVE  /\ held' \in [Users -> Nat \cup {Never}]
           /\ HeldInv'
           /\ \A u \in Users : held[u] <= held'[u]
<1>1. now \in Nat /\ now' \in Nat /\ now <= now'
  BY IsSessionsStep, NowNext DEF TypeOK
<1>2. held \in [Users -> Nat \cup {Never}] /\ Never \in Int
  BY TTLAssumption DEF ApiTypeOK, Never
<1>3. CASE ApiNext
  <2>1. held' = [u \in Users |-> IF IsAdmin(u)' THEN now' ELSE held[u]]
    BY <1>3 DEF ApiNext, Remember
  <2>2. QED  BY <1>1, <1>2, <2>1 DEF HeldInv
<1>4. CASE UNCHANGED apiVars
  <2>1. held' = held /\ now' = now /\ \A u \in Users : IsAdmin(u)' = IsAdmin(u)
    BY <1>4 DEF apiVars, vars, IsAdmin
  <2>2. QED  BY <1>1, <1>2, <2>1 DEF HeldInv
<1>5. QED  BY <1>3, <1>4

\* A token with the role is issued only while its user is an administrator.
LEMMA TokenNext ==
    ASSUME IInv, ApiTypeOK, HeldInv, TokenInv, [ApiNext]_apiVars
    PROVE  TokenInv'
<1>1. TypeOK /\ [Next]_vars
  BY IsSessionsStep DEF IInv
<1>2. issued \subseteq Claims /\ now \in Nat
  BY <1>1 DEF TypeOK
<1>3. /\ held \in [Users -> Nat \cup {Never}] /\ held' \in [Users -> Nat \cup {Never}]
      /\ Never \in Int
      /\ \A u \in Users : held[u] <= held'[u]
  BY <1>1, HeldNext, TTLAssumption DEF ApiTypeOK, Never
<1>4. ASSUME NEW t \in issued', t.type = "access", t.role = Admin
      PROVE  t.exp <= held'[t.sub] + AccessTTL
  <2>1. CASE t \in issued
    <3>1. t.exp \in Nat /\ t.sub \in Users /\ t.exp <= held[t.sub] + AccessTTL
      BY <1>2, <1>4, <2>1 DEF TokenInv, Claims
    <3>2. held[t.sub] \in Int /\ held'[t.sub] \in Int /\ held[t.sub] <= held'[t.sub]
      BY <1>3, <3>1
    <3>3. QED  BY <3>1, <3>2, TTLAssumption
  <2>2. CASE t \notin issued
    <3>1. PICK r \in Reqs :
             /\ pc[r] \in {"login_issue", "refresh_issue"}
             /\ t \in GenerateTokenPair(req[r].sub, loc[r].role, now)
      BY <1>1, <2>2, NewTokens
    <3>2. /\ req[r].sub \in Users /\ loc[r].role \in Roles
          /\ loc[r].role \in hist[r].roles
          /\ req[r].op \in {"login", "refresh"}
          /\ pc[r] \in PC \ {"idle", "ok", "denied"}
      BY <1>1, <3>1 DEF IInv, TypeOK, RoleSound, Shape, Request, Locals, PC
    <3>3. t.sub = req[r].sub /\ t.role = loc[r].role /\ t.exp = now + AccessTTL
      BY <1>2, <1>4, <3>1, <3>2, TTLAssumption DEF GenerateTokenPair, generateToken
    <3>4. IsAdmin(t.sub)
      BY <1>4, <3>2, <3>3 DEF IsAdmin
    <3>5. held[t.sub] = now /\ held'[t.sub] \in Int /\ held[t.sub] <= held'[t.sub]
      BY <1>3, <3>2, <3>3, <3>4 DEF HeldInv
    <3>6. QED  BY <1>2, <3>3, <3>5, TTLAssumption
  <2>3. QED  BY <2>1, <2>2
<1>5. QED  BY <1>4 DEF TokenInv

-----------------------------------------------------------------------------
(* One step of a request.                                                  *)

\* A request that does not move keeps what the gate saw.
LEMMA CallPassive ==
    ASSUME IInv, NEW r \in Reqs, CallInv(r),
           now' \in Nat, now <= now', pc'[r] = pc[r], req'[r] = req[r],
           route'[r] = route[r], stage'[r] = stage[r], change'[r] = change[r],
           grounded'[r] = grounded[r]
    PROVE  CallInv(r)'
<1>1. pc[r] \in {"gate_check", "gate_validate"} => req[r].tok.exp \in Nat /\ now \in Nat
  <2>1. CASE pc[r] \in {"gate_check", "gate_validate"}
    BY <2>1 DEF IInv, Shape, TypeOK, Claims
  <2>2. QED  BY <2>1
<1>2. ASSUME pc[r] \in {"gate_check", "gate_validate"}, now' < req[r].tok.exp
      PROVE  now < req[r].tok.exp
  BY <1>1, <1>2
<1>3. QED  BY <1>2 DEF CallInv

\* The variables of this module that a step leaves in their ranges.
LEMMA ApiTypeNext ==
    ASSUME IInv, ApiTypeOK, HeldInv, \A r \in Reqs : CallInv(r), [ApiNext]_apiVars
    PROVE  ApiTypeOK'
<1>1. TypeOK /\ held' \in [Users -> Nat \cup {Never}]
  BY HeldNext DEF IInv
<1> USE DEF ApiTypeOK
<1>2. ASSUME NEW r \in Reqs, FinishApi(r) PROVE ApiTypeOK'
  <2>1. NoChange \in [id : Users, role : Roles, copy : Row \cup {NoRow}]
    BY NonEmptyAssumption, AdminAssumption DEF NoChange
  <2>2. QED  BY <1>1, <1>2, <2>1 DEF FinishApi, Routes, Stages
<1>3. ASSUME NEW r \in Reqs, ArriveAdmin(r) PROVE ApiTypeOK'
  <2>1. NoChange \in [id : Users, role : Roles, copy : Row \cup {NoRow}]
    BY NonEmptyAssumption, AdminAssumption DEF NoChange
  <2>2. PICK to \in {"list", "role"}, id \in Users :
          /\ route' = [route EXCEPT ![r] = to]
          /\ change' = [change EXCEPT ![r] = IF to = "role" THEN [@ EXCEPT !.id = id] ELSE NoChange]
    BY <1>3 DEF ArriveAdmin
  <2>3. [change[r] EXCEPT !.id = id]
           \in [id : Users, role : Roles, copy : Row \cup {NoRow}]
    OBVIOUS
  <2>4. grounded' \in [Reqs -> BOOLEAN]
    BY <1>3 DEF ArriveAdmin, Recently
  <2>5. QED  BY <1>1, <1>3, <2>1, <2>2, <2>3, <2>4 DEF ArriveAdmin, Routes
<1>4. ASSUME NEW r \in Reqs, ServeAdmin(r) PROVE ApiTypeOK'
  <2>1. CASE FindUser(r)
    <3>1. change[r] \in [id : Users, role : Roles, copy : Row \cup {NoRow}]
      OBVIOUS
    <3>2. row[change[r].id] \in Row
      BY <1>1, <3>1 DEF TypeOK
    <3>3. [change[r] EXCEPT !.copy = row[change[r].id]]
             \in [id : Users, role : Roles, copy : Row \cup {NoRow}]
      BY <3>1, <3>2
    <3>4. change' \in [Reqs -> [id : Users, role : Roles, copy : Row \cup {NoRow}]]
      BY <2>1, <3>3 DEF FindUser
    <3>5. QED  BY <1>1, <2>1, <3>4 DEF FindUser, Advance, Stages
  <2>2. CASE SaveUser(r)
    BY <1>1, <2>2 DEF SaveUser, Advance, Stages
  <2>3. CASE RoleRequired(r) \/ ListUsers(r)
    BY <1>1, <2>3 DEF RoleRequired, ListUsers, Advance, Stages
  <2>4. CASE ReadBody(r)
    <3>1. \A role \in Roles : [change[r] EXCEPT !.role = role]
                                 \in [id : Users, role : Roles, copy : Row \cup {NoRow}]
      OBVIOUS
    <3>2. change' \in [Reqs -> [id : Users, role : Roles, copy : Row \cup {NoRow}]]
      BY <2>4, <3>1 DEF ReadBody
    <3>3. QED  BY <1>1, <2>4, <3>2 DEF ReadBody, Advance, Stages
  <2>5. QED  BY <1>4, <2>1, <2>2, <2>3, <2>4 DEF ServeAdmin
<1>5. CASE UNCHANGED <<route, stage, change, grounded>>
  BY <1>1, <1>5
<1>6. QED
  BY <1>2, <1>3, <1>4, <1>5 DEF ApiNext, Elsewhere, ArrivePlain, ServePlain, apiVars

\* Whoever calls with an administrator's live token was one recently.
LEMMA CallArrives ==
    ASSUME IInv, ApiTypeOK, TokenInv, NEW r \in Reqs, CallInv(r), ArriveAdmin(r)
    PROVE  CallInv(r)'
<1> USE DEF ApiTypeOK, IInv
<1>1. PICK t \in issued : Begin(r, "profile", t.sub, t, NoToken)
  BY DEF ArriveAdmin, Profile
<1>2. /\ pc'[r] = "gate_check" /\ req'[r].tok = t /\ req'[r].sub = t.sub /\ now' = now
      /\ req'[r].op = "profile" /\ pc[r] = "idle"
  BY <1>1 DEF Begin, Entry, TypeOK
<1>3. t \in Claims /\ now \in Nat /\ t.exp \in Nat /\ t.sub \in Users
  BY DEF TypeOK, Claims
<1>4. held[t.sub] \in Int
  BY <1>3, TTLAssumption DEF Never
<1>5. ASSUME t.type = "access", t.role = Admin, now < t.exp PROVE Recently(t.sub)
  BY <1>3, <1>4, <1>5, TTLAssumption DEF TokenInv, Recently
<1>6. grounded'[r] = Recently(t.sub) /\ stage'[r] = "gate"
  BY <1>2 DEF ArriveAdmin, CallInv
<1>7. QED  BY <1>2, <1>5, <1>6 DEF CallInv

\* What the request's own steps do.
LEMMA CallStep ==
    ASSUME IInv, ApiTypeOK, TokenInv, NEW r \in Reqs, CallInv(r),
           \/ ArrivePlain(r) \/ ArriveAdmin(r) \/ FinishApi(r)
           \/ ServePlain(r) \/ ServeAdmin(r)
    PROVE  CallInv(r)'
<1> USE DEF ApiTypeOK, IInv
<1>1. CASE ArrivePlain(r)
  <2>1. pc[r] = "idle" \/ (pc[r] = "logout_body" /\ req[r].op = "logout")
    BY <1>1 DEF ArrivePlain, Arrive, Login, Refresh, Profile, Logout, LogoutBody, Begin, Shape
  <2>2. route'[r] = "plain" /\ stage'[r] = "gate"
    BY <1>1, <2>1 DEF ArrivePlain, CallInv
  <2>3. QED  BY <2>2 DEF CallInv
<1>2. CASE FinishApi(r)
  <2>1. route'[r] = "plain" /\ stage'[r] = "gate"
    BY <1>2 DEF FinishApi
  <2>2. QED  BY <2>1 DEF CallInv
<1>3. CASE ServePlain(r)
  <2>1. CASE route[r] = "plain"
    BY <1>3, <2>1 DEF ServePlain, CallInv
  <2>2. CASE route[r] # "plain"
    <3>1. pc[r] # "idle" /\ req[r].op = "profile" /\ Shape(r)
      BY <2>2 DEF CallInv
    <3>2. pc[r] \notin {"login_find", "login_issue", "refresh_check", "refresh_validate",
                        "refresh_find", "refresh_ttl", "refresh_set", "refresh_issue",
                        "logout_body", "logout_access", "logout_access_ttl", "logout_access_set",
                        "logout_refresh", "logout_refresh_ttl", "logout_refresh_set"}
      BY <3>1 DEF Shape
    <3>3. GateCheck(r) \/ GateValidate(r)
      BY <1>3, <3>2 DEF ServePlain, Serve, LoginFind, LoginWrongPassword, LoginIssue,
         RefreshCheck, RefreshValidate, RefreshFind, RefreshUntil, RefreshRevoke,
         RefreshIssue, LogoutAccess, LogoutAccessUntil, LogoutAccessRevoke, LogoutRefresh,
         LogoutRefreshUntil, LogoutRefreshRevoke, FindActive, CheckBlacklist, Validate,
         ReadTTL, BlacklistToken, Issue, Goto
    <3>4. /\ pc[r] \in {"gate_check", "gate_validate"}
          /\ pc'[r] \in {"gate_validate", "ok", "denied"}
          /\ pc'[r] = "gate_validate" => pc[r] = "gate_check"
          /\ now' = now /\ req' = req
      BY <3>1, <3>3 DEF GateCheck, GateValidate, CheckBlacklist, Validate, Goto, TypeOK
    <3>5. pc'[r] = "ok" => req[r].tok.type = "access" /\ now < req[r].tok.exp
      BY <3>1, <3>3 DEF GateCheck, GateValidate, CheckBlacklist, Validate, Goto, TypeOK,
         ValidateToken
    <3>6. stage[r] = "gate"
      BY <3>4 DEF CallInv
    <3>7. QED  BY <1>3, <3>1, <3>4, <3>5, <3>6 DEF ServePlain, CallInv
  <2>3. QED  BY <2>1, <2>2
<1>4. CASE ServeAdmin(r)
  <2>1. CASE RoleRequired(r) \/ ListUsers(r)
    <3>1. /\ UNCHANGED <<pc, req, route, change, grounded>>
          /\ pc[r] = "ok" /\ stage'[r] # "save"
      BY <2>1 DEF RoleRequired, ListUsers, Advance, vars
    <3>2. route[r] # "plain"
      BY <2>1 DEF RoleRequired, ListUsers, Advance, CallInv
    <3>3. QED  BY <3>1, <3>2 DEF CallInv
  <2>2. CASE FindUser(r)
    <3>1. /\ UNCHANGED <<pc, req, route, grounded>>
          /\ pc[r] = "ok" /\ stage[r] = "find"
      BY <2>2 DEF FindUser, Advance, vars
    <3>2. stage'[r] = "save" => change'[r].copy # NoRow
      BY <2>2, NoRowAssumption DEF FindUser, Advance, TypeOK
    <3>3. route[r] # "plain"
      BY <3>1 DEF CallInv
    <3>4. QED  BY <3>1, <3>2, <3>3 DEF CallInv
  <2>3. CASE SaveUser(r)
    <3>1. /\ UNCHANGED <<pc, req, route, change, grounded>>
          /\ pc[r] = "ok" /\ stage[r] = "save" /\ stage'[r] # "save"
      BY <2>3 DEF SaveUser, Advance, WriteRow, RowEdit, vars
    <3>2. route[r] # "plain"
      BY <3>1 DEF CallInv
    <3>3. QED  BY <3>1, <3>2 DEF CallInv
  <2>4. CASE ReadBody(r)
    <3>1. /\ UNCHANGED <<pc, req, route, grounded>>
          /\ pc[r] = "ok" /\ stage[r] = "body" /\ stage'[r] # "save"
      BY <2>4 DEF ReadBody, Advance, vars
    <3>2. route[r] # "plain"
      BY <3>1 DEF CallInv
    <3>3. QED  BY <3>1, <3>2 DEF CallInv
  <2>5. QED  BY <1>4, <2>1, <2>2, <2>3, <2>4 DEF ServeAdmin
<1>5. CASE ArriveAdmin(r)
  BY <1>5, CallArrives
<1>6. QED  BY <1>1, <1>2, <1>3, <1>4, <1>5

\* Requests keep their conjuncts, whichever of them steps.
LEMMA CallsNext ==
    ASSUME IInv, ApiTypeOK, TokenInv, \A r \in Reqs : CallInv(r), [ApiNext]_apiVars,
           NEW r \in Reqs
    PROVE  CallInv(r)'
<1>1. TypeOK /\ now' \in Nat /\ now <= now'
  BY IsSessionsStep, NowNext DEF IInv
<1>2. CASE Elsewhere \/ UNCHANGED apiVars
  <2>1. pc' = pc /\ req' = req
    BY <1>1, <1>2, EnvFrame DEF Elsewhere, apiVars
  <2>2. QED  BY <1>1, <1>2, <2>1, CallPassive DEF Elsewhere, apiVars
<1>3. CASE \/ ArrivePlain(r) \/ ArriveAdmin(r) \/ FinishApi(r)
           \/ ServePlain(r) \/ ServeAdmin(r)
  BY <1>3, CallStep
<1>4. ASSUME NEW q \in Reqs, q # r,
             \/ ArrivePlain(q) \/ ArriveAdmin(q) \/ FinishApi(q)
             \/ ServePlain(q) \/ ServeAdmin(q)
      PROVE  CallInv(r)'
  <2>1. pc'[r] = pc[r] /\ req'[r] = req[r]
    <3>1. CASE ServeAdmin(q)
      BY <3>1 DEF ServeAdmin, RoleRequired, ListUsers, ReadBody, FindUser, SaveUser, WriteRow,
         RowEdit, vars
    <3>2. CASE ArrivePlain(q) \/ ArriveAdmin(q) \/ FinishApi(q) \/ ServePlain(q)
      BY <1>1, <1>4, <3>2, Frame DEF ArrivePlain, ArriveAdmin, Arrive, FinishApi, ServePlain
    <3>3. QED  BY <1>4, <3>1, <3>2
  <2>2. /\ route'[r] = route[r] /\ stage'[r] = stage[r]
        /\ change'[r] = change[r] /\ grounded'[r] = grounded[r]
    BY <1>4 DEF ArrivePlain, ArriveAdmin, FinishApi, ServePlain, ServeAdmin, RoleRequired,
       ListUsers, ReadBody, FindUser, SaveUser, Advance, ApiTypeOK
  <2>3. QED  BY <1>1, <2>1, <2>2, CallPassive
<1>5. QED  BY <1>2, <1>3, <1>4 DEF ApiNext

\* The handlers' progress: what is behind RoleRequired was let in as an administrator.
LEMMA AdminsNext ==
    ASSUME IInv, ApiTypeOK, \A r \in Reqs : CallInv(r), AdminsOnly, [ApiNext]_apiVars
    PROVE  AdminsOnly'
<1> USE DEF ApiTypeOK
<1>1. ASSUME NEW r \in Reqs, stage'[r] \in {"list", "body", "find", "save", "served"}
      PROVE  grounded'[r]
  <2>1. CASE UNCHANGED <<stage, grounded>>
    BY <1>1, <2>1 DEF AdminsOnly
  <2>2. ASSUME NEW q \in Reqs, ArriveAdmin(q) PROVE grounded'[r]
    <3>1. pc[q] = "idle"
      BY <2>2 DEF ArriveAdmin, Profile, Begin
    <3>2. q # r
      BY <1>1, <2>2, <3>1 DEF ArriveAdmin, CallInv
    <3>3. QED  BY <1>1, <2>2, <3>2 DEF ArriveAdmin, AdminsOnly
  <2>3. ASSUME NEW q \in Reqs, FinishApi(q) PROVE grounded'[r]
    BY <1>1, <2>3 DEF FinishApi, AdminsOnly
  <2>4. ASSUME NEW q \in Reqs, ServeAdmin(q) PROVE grounded'[r]
    <3>1. grounded' = grounded
      BY <2>4 DEF ServeAdmin, RoleRequired, ListUsers, ReadBody, FindUser, SaveUser
    <3>2. CASE RoleRequired(q)
      BY <1>1, <3>1, <3>2 DEF RoleRequired, Advance, AdminsOnly, CallInv
    <3>3. CASE ListUsers(q) \/ ReadBody(q) \/ FindUser(q) \/ SaveUser(q)
      BY <1>1, <3>1, <3>3 DEF ListUsers, ReadBody, FindUser, SaveUser, Advance, AdminsOnly
    <3>4. QED  BY <2>4, <3>2, <3>3 DEF ServeAdmin
  <2>5. QED
    BY <2>1, <2>2, <2>3, <2>4 DEF ApiNext, Elsewhere, ArrivePlain, ServePlain, apiVars
<1>2. QED  BY <1>1 DEF AdminsOnly

-----------------------------------------------------------------------------
(* The theorems.                                                           *)

LEMMA ApiInvInit == ApiInit => IInv /\ ApiInv
<1> SUFFICES ASSUME ApiInit PROVE IInv /\ ApiInv
  OBVIOUS
<1>1. Init /\ IInv
  BY InvInit DEF ApiInit
<1>2. NoChange \in [id : Users, role : Roles, copy : Row \cup {NoRow}]
  BY NonEmptyAssumption, AdminAssumption DEF NoChange
<1>3. ApiTypeOK
  BY <1>2 DEF ApiInit, ApiTypeOK, Routes, Stages
<1>4. HeldInv /\ TokenInv
  BY <1>1, TTLAssumption DEF ApiInit, Init, HeldInv, TokenInv, Never
<1>5. AdminsOnly /\ \A r \in Reqs : CallInv(r)
  BY DEF ApiInit, AdminsOnly, CallInv
<1>6. QED  BY <1>1, <1>3, <1>4, <1>5 DEF ApiInv

LEMMA ApiInvNext == IInv /\ ApiInv /\ [ApiNext]_apiVars => IInv' /\ ApiInv'
<1> SUFFICES ASSUME IInv, ApiInv, [ApiNext]_apiVars PROVE IInv' /\ ApiInv'
  OBVIOUS
<1>1. /\ ApiTypeOK /\ HeldInv /\ TokenInv /\ AdminsOnly /\ TypeOK
      /\ \A r \in Reqs : CallInv(r)
  BY DEF ApiInv, IInv
<1>2. IInv'
  BY <1>1, IsSessionsStep, InvNext
<1>3. ApiTypeOK'
  BY <1>1, ApiTypeNext
<1>4. HeldInv' /\ TokenInv'
  BY <1>1, HeldNext, TokenNext
<1>5. \A r \in Reqs : CallInv(r)'
  BY <1>1, CallsNext
<1>6. AdminsOnly'
  BY <1>1, AdminsNext
<1>7. QED  BY <1>2, <1>3, <1>4, <1>5, <1>6 DEF ApiInv

\* The invariant of the administration routes, together with that of Sessions.
THEOREM ApiInvHolds == ApiSpec => []ApiInv
<1>1. ApiInit => IInv /\ ApiInv
  BY ApiInvInit
<1>2. IInv /\ ApiInv /\ [ApiNext]_apiVars => IInv' /\ ApiInv'
  BY ApiInvNext
<1>3. QED  BY <1>1, <1>2, PTL DEF ApiSpec

\* The administration routes change nothing about sessions: whatever is proved of Spec
\* holds of the composed system.
THEOREM ApiRefinesSessions == ApiSpec => Spec
<1>1. ApiInit => Init
  BY DEF ApiInit
<1>2. ApiInv /\ [ApiNext]_apiVars => [Next]_vars
  BY IsSessionsStep DEF ApiInv
<1>3. QED  BY <1>1, <1>2, ApiInvHolds, PTL DEF ApiSpec, Spec

\* Nobody gets past RoleRequired who was not an active administrator less than an
\* access token's lifetime before calling.
THEOREM AdminsOnlyHolds == ApiSpec => []AdminsOnly
<1>1. ApiInv => AdminsOnly
  BY DEF ApiInv
<1>2. QED  BY <1>1, ApiInvHolds, PTL

\* With the administration routes, too, no token is accepted that was dead when its
\* request arrived.
THEOREM ApiNoLateGrant == ApiSpec => []NoLateGrant
  BY ApiRefinesSessions, NoLateGrantHolds, PTL

\* With the administration routes, too, every step is one the abstract gate allows: no
\* token comes back to life, and none is accepted for a request that brought it dead.
THEOREM ApiImplementsGate == ApiSpec => ImplementsGate
  BY ApiRefinesSessions, ImplementsGateHolds, PTL

=============================================================================
