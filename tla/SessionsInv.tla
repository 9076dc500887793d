---------------------------- MODULE SessionsInv ----------------------------
(***************************************************************************)
(* The inductive invariant of Sessions: what has to hold between any two   *)
(* steps for the properties of Sessions to hold.  Each conjunct says what  *)
(* a handler may rely on at a point of its code.                           *)
(***************************************************************************)
EXTENDS Sessions

\* The request a step belongs to is of the step's operation, and operations other
\* than login present a token that was handed out, about its own subject.
Shape(r) ==
    /\ pc[r] \in {"login_find", "login_issue"} => req[r].op = "login"
    /\ pc[r] \in {"refresh_check", "refresh_validate", "refresh_find", "refresh_ttl",
                  "refresh_set", "refresh_issue"} => req[r].op = "refresh"
    /\ pc[r] \in {"gate_check", "gate_validate"} => req[r].op \in {"profile", "logout"}
    /\ pc[r] \in {"logout_body", "logout_access", "logout_access_ttl", "logout_access_set",
                  "logout_refresh", "logout_refresh_ttl", "logout_refresh_set"}
          => req[r].op = "logout"
    /\ (pc[r] # "idle" /\ req[r].op # "login") =>
          req[r].tok \in issued /\ req[r].sub = req[r].tok.sub
    /\ req[r].ref \in issued \cup {NoToken}
    /\ pc[r] \in {"logout_body", "logout_access", "logout_access_ttl", "logout_access_set"}
          => req[r].tok.type = "access"
    /\ pc[r] \in {"logout_refresh_ttl", "logout_refresh_set"} => req[r].ref # NoToken

\* Keys are for tokens that were handed out, outlive them, and have no TTL only if
\* the token is expired.
KeysSound ==
    \A k \in blacklist :
       /\ k.tok \in issued
       /\ k.until = Forever => k.tok.exp <= now
       /\ k.until # Forever => k.tok.exp <= k.until

\* The TTL a handler holds is at least what is left of the token's life.
TTLSound(r) ==
    /\ pc[r] \in {"refresh_set", "logout_access_set"} => req[r].tok.exp - now <= loc[r].ttl
    /\ pc[r] = "logout_refresh_set" => req[r].ref.exp - now <= loc[r].ttl

\* A token that was dead when the request arrived is dead still, is past its
\* expiry once the blacklist said no, and is not accepted.
LateSound(r) ==
    hist[r].late =>
       /\ pc[r] # "idle"
       /\ req[r].op # "login"
       /\ Dead(req[r].tok)
       /\ (pc[r] \in {"refresh_validate", "gate_validate"}) => req[r].tok.exp <= now
       /\ ~Accepted(r)

\* Tokens whose revocation is behind the handler are dead unless Redis complained.
RevokeSound(r) ==
    ~hist[r].err =>
       /\ (pc[r] = "refresh_issue" \/ (pc[r] = "ok" /\ req[r].op = "refresh"))
             => Dead(req[r].tok)
       /\ (\/ pc[r] \in {"logout_refresh", "logout_refresh_ttl", "logout_refresh_set"}
           \/ pc[r] = "ok" /\ req[r].op = "logout")
             => Dead(req[r].tok)
       /\ (/\ pc[r] = "ok" /\ req[r].op = "logout"
           /\ req[r].ref # NoToken /\ req[r].ref.type = "refresh")
             => Dead(req[r].ref)

\* Redis was seen by every request that is past its blacklist check.
OutageSound(r) ==
    /\ (pc[r] # "idle" /\ redisUp) => hist[r].up
    /\ (pc[r] \in {"refresh_validate", "gate_validate"} \/ Accepted(r)) => hist[r].up

\* The role a handler holds was the row's, active, during its request.
RoleSound(r) ==
    /\ (pc[r] # "idle" /\ row[req[r].sub].active) => row[req[r].sub].role \in hist[r].roles
    /\ pc[r] \in {"login_issue", "refresh_ttl", "refresh_set", "refresh_issue"}
          => loc[r].role \in hist[r].roles

IInv ==
    /\ TypeOK
    /\ KeysSound
    /\ \A r \in Reqs : /\ Shape(r)
                       /\ TTLSound(r)
                       /\ LateSound(r)
                       /\ RevokeSound(r)
                       /\ OutageSound(r)
                       /\ RoleSound(r)
=============================================================================
