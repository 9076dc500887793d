----------------------------- MODULE MCSessions -----------------------------
(* Sessions on small instances: one slot for each side of a race.           *)
EXTENDS SessionsInv, TLC

CONSTANT r1

MCOps == [r \in Reqs |-> IF r = r1 THEN {"login", "refresh", "profile"} ELSE {"refresh", "logout"}]
=============================================================================
