--------------------------------- MODULE Api ---------------------------------
(***************************************************************************)
(* The administration routes: Sessions with the requests that pass         *)
(* AuthRequired, RoleRequired and one of the administrator's handlers, and *)
(* with the role changes these handlers make to the rows that later tokens *)
(* are issued from.                                                        *)
(*                                                                         *)
(* Every step is a step of Sessions or leaves its variables alone, so what *)
(* holds of Sessions holds here.  A request to an administration route is  *)
(* one of Sessions' requests to a protected route ("profile"); it goes on  *)
(* where Sessions says "ok".                                               *)
(***************************************************************************)
EXTENDS Sessions

CONSTANTS
    Admin,   \* models.RoleAdmin
    NoRow    \* a local variable not yet read

ASSUME AdminAssumption == Admin \in Roles
ASSUME NoRowAssumption == NoRow \notin Row

VARIABLES
    route,     \* which route each request goes to
    stage,     \* how far it has come behind the gate
    change,    \* SetUserRole: the user, the new role, the handler's copy of the row
    held,      \* history: when each user last was an active administrator
    grounded   \* history: whether the caller had been one recently when it called

apiVars == <<vars, route, stage, change, held, grounded>>

Routes == {"plain", "list", "role"}

Stages == {"gate", "list", "body", "find", "save", "served", "forbidden", "failed"}

NoChange == [id |-> CHOOSE u \in Users : TRUE, role |-> Admin, copy |-> NoRow]

Never == -1 - AccessTTL

\* u's row is an active administrator's, or was when a login or a refresh that is
\* still under way might have read it.
IsAdmin(u) ==
    \/ row[u].role = Admin /\ row[u].active
    \/ \E r \in Reqs : /\ pc[r] \in PC \ {"idle", "ok", "denied"}
                       /\ req[r].op \in {"login", "refresh"}
                       /\ req[r].sub = u
                       /\ Admin \in hist[r].roles

\* An access token issued then may still be alive.
Recently(u) == now < held[u] + AccessTTL

ApiTypeOK ==
    /\ route \in [Reqs -> Routes]
    /\ stage \in [Reqs -> Stages]
    /\ change \in [Reqs -> [id : Users, role : Roles, copy : Row \cup {NoRow}]]
    /\ held \in [Users -> Nat \cup {Never}]
    /\ grounded \in [Reqs -> BOOLEAN]

ApiInit ==
    /\ Init
    /\ route = [r \in Reqs |-> "plain"]
    /\ stage = [r \in Reqs |-> "gate"]
    /\ change = [r \in Reqs |-> NoChange]
    /\ held = [u \in Users |-> IF IsAdmin(u) THEN 0 ELSE Never]
    /\ grounded = [r \in Reqs |-> FALSE]

\* The clock and the rows are looked at after every step.
Remember == held' = [u \in Users |-> IF IsAdmin(u)' THEN now' ELSE held[u]]

-----------------------------------------------------------------------------
(* Requests come and go.                                                   *)

ArrivePlain(r) ==
    /\ Arrive(r)
    /\ UNCHANGED <<route, stage, change, grounded>>

ArriveAdmin(r) ==
    /\ Profile(r)
    /\ \E to \in {"list", "role"}, id \in Users :
          /\ route' = [route EXCEPT ![r] = to]
          /\ change' = [change EXCEPT ![r] = IF to = "role" THEN [@ EXCEPT !.id = id] ELSE NoChange]
    /\ grounded' = [grounded EXCEPT ![r] = Recently(req'[r].sub)]
    /\ UNCHANGED stage

\* A request that passed the gate is answered once its handler is through.
Done(r) ==
    \/ pc[r] = "denied"
    \/ pc[r] = "ok" /\ (route[r] = "plain" \/ stage[r] \in {"served", "forbidden", "failed"})

FinishApi(r) ==
    /\ Done(r)
    /\ Finish(r)
    /\ route' = [route EXCEPT ![r] = "plain"]
    /\ stage' = [stage EXCEPT ![r] = "gate"]
    /\ change' = [change EXCEPT ![r] = NoChange]
    /\ grounded' = [grounded EXCEPT ![r] = FALSE]

-----------------------------------------------------------------------------
(* Behind the gate.                                                        *)

Advance(r, from, to) ==
    /\ pc[r] = "ok"
    /\ stage[r] = from
    /\ stage' = [stage EXCEPT ![r] = to]

\* Mutation: any known role will do.
RoleRequiredAny(r) ==
    /\ route[r] # "plain"
    /\ Advance(r, "gate", IF req[r].tok.role \notin Roles THEN "forbidden"
                          ELSE IF route[r] = "list" THEN "list" ELSE "body")
    /\ UNCHANGED <<vars, route, change, grounded>>

\* The role is the one in the token's claims.
RoleRequired(r) ==
    /\ route[r] # "plain"
    /\ Advance(r, "gate", IF req[r].tok.role # Admin THEN "forbidden"
                          ELSE IF route[r] = "list" THEN "list" ELSE "body")
    /\ UNCHANGED <<vars, route, change, grounded>>

\* GET /admin/users and /admin/users/cursor (Listing): they read, and may fail.
ListUsers(r) ==
    /\ \E to \in {"served", "failed"} : Advance(r, "list", to)
    /\ UNCHANGED <<vars, route, change, grounded>>

\* PUT /admin/users/:id/role: the handler reads the body, which comes when the client
\* sends it, perhaps never.  An id, a body or a role that is none is refused.
ReadBody(r) ==
    /\ \/ /\ Advance(r, "body", "find")
          /\ \E role \in Roles : change' = [change EXCEPT ![r].role = role]
       \/ Advance(r, "body", "failed") /\ UNCHANGED change
    /\ UNCHANGED <<vars, route, grounded>>

\* FindByID; a failed query is a user not found.
FindUser(r) ==
    /\ \/ /\ Advance(r, "find", "save")
          /\ change' = [change EXCEPT ![r].copy = row[change[r].id]]
       \/ Advance(r, "find", "failed") /\ UNCHANGED change
    /\ UNCHANGED <<vars, route, grounded>>

\* The row of a user is written: to Sessions that is an edit like any other.
WriteRow(u, new) ==
    \/ RowEdit(u) /\ row'[u] = new
    \/ row[u] = new /\ UNCHANGED vars

\* Save writes the whole copy back, with the new role and the active flag it had when
\* it was read.
SaveUser(r) ==
    LET new == [change[r].copy EXCEPT !.role = change[r].role] IN
    /\ \/ \E to \in {"served", "failed"} :                  \* done; or done, reply lost
             Advance(r, "save", to) /\ WriteRow(change[r].id, new)
       \/ Advance(r, "save", "failed") /\ UNCHANGED vars
    /\ UNCHANGED <<route, change, grounded>>

ServeAdmin(r) ==
    RoleRequired(r) \/ ListUsers(r) \/ ReadBody(r) \/ FindUser(r) \/ SaveUser(r)

-----------------------------------------------------------------------------
ServePlain(r) == Serve(r) /\ UNCHANGED <<route, stage, change, grounded>>

Elsewhere == Environment /\ UNCHANGED <<route, stage, change, grounded>>

ApiNext ==
    /\ \/ Elsewhere
       \/ \E r \in Reqs : \/ ArrivePlain(r) \/ ArriveAdmin(r) \/ FinishApi(r)
                          \/ ServePlain(r) \/ ServeAdmin(r)
    /\ Remember

ApiSpec == ApiInit /\ [][ApiNext]_apiVars

-----------------------------------------------------------------------------
(* Properties.                                                             *)

\* A demoted or disabled administrator keeps the administration routes no longer than
\* the access tokens issued before: nobody gets past RoleRequired who was not an
\* active administrator less than such a lifetime before calling.
AdminsOnly ==
    \A r \in Reqs : stage[r] \in {"list", "body", "find", "save", "served"} => grounded[r]

\* The inductive invariant.  An administrator's access token expires at the latest one
\* lifetime after its user last was one; a caller whose token is alive was one
\* recently when it called; and what is behind the gate keeps what the gate saw.
HeldInv == \A u \in Users : held[u] <= now /\ (IsAdmin(u) => held[u] = now)

TokenInv ==
    \A t \in issued :
        (t.type = "access" /\ t.role = Admin) => t.exp <= held[t.sub] + AccessTTL

CallInv(r) ==
    /\ route[r] # "plain" => pc[r] # "idle" /\ req[r].op = "profile"
    /\ (/\ route[r] # "plain"
        /\ pc[r] \in {"gate_check", "gate_validate"}
        /\ req[r].tok.type = "access"
        /\ req[r].tok.role = Admin
        /\ now < req[r].tok.exp) => grounded[r]
    /\ (route[r] # "plain" /\ pc[r] = "ok" /\ req[r].tok.role = Admin) => grounded[r]
    /\ stage[r] # "gate" => pc[r] = "ok" /\ route[r] # "plain"
    /\ stage[r] = "save" => change[r].copy # NoRow

ApiInv ==
    /\ ApiTypeOK
    /\ HeldInv
    /\ TokenInv
    /\ \A r \in Reqs : CallInv(r)
    /\ AdminsOnly
=============================================================================
