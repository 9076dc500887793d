------------------------------ MODULE Answers ------------------------------
(***************************************************************************)
(* What a server promises about answers, without saying how: a request     *)
(* that is served gets one answer, whole, written by the one who serves    *)
(* it, before the connection is let go.  The process may die, and all      *)
(* connections with it.                                                    *)
(***************************************************************************)
CONSTANT Reqs   \* connections, with one request at a time

VARIABLE conn   \* per connection: what its client can have seen

\* "open": no answer yet; "answered"; "lost": the process died.
State == {"idle", "open", "answered", "lost"}

Init == conn = [r \in Reqs |-> "idle"]

Open(r) == conn[r] = "idle" /\ conn' = [conn EXCEPT ![r] = "open"]

Answer(r) == conn[r] = "open" /\ conn' = [conn EXCEPT ![r] = "answered"]

\* Only an answered or a lost request is over.
Close(r) == conn[r] \in {"answered", "lost"} /\ conn' = [conn EXCEPT ![r] = "idle"]

Die == conn' = [r \in Reqs |-> IF conn[r] = "idle" THEN "idle" ELSE "lost"]

Next == Die \/ \E r \in Reqs : Open(r) \/ Answer(r) \/ Close(r)

Spec == Init /\ [][Next]_conn
=============================================================================
