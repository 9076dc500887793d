--------------------------- MODULE RevocationGate ---------------------------
(***************************************************************************)
(* What the token gate promises, without saying how: a token that is dead  *)
(* (revoked or expired) stays dead, and a request that presents a token    *)
(* which is dead at the moment the request arrives is never accepted.      *)
(*                                                                         *)
(* A request that arrived while its token was alive may be accepted even   *)
(* if the token dies while the request is served: check and use are not    *)
(* one step.  A request may always be refused, also after the gate.        *)
(***************************************************************************)
CONSTANTS
    Tokens,    \* everything a client can present
    NoToken,   \* what an idle request presents
    Reqs       \* requests

VARIABLES
    dead,    \* the tokens that are dead
    ask      \* per request: how it stands, what it presents, whether that was alive

vars == <<dead, ask>>

Idle == [state |-> "idle", tok |-> NoToken, alive |-> FALSE]

Init ==
    /\ dead = {}
    /\ ask = [r \in Reqs |-> Idle]

\* Revocation and expiry; also the clock killing several tokens at once.
Kill ==
    /\ dead' \in SUBSET Tokens
    /\ dead \subseteq dead'
    /\ UNCHANGED ask

\* r presents a token; whether it is alive now is all that counts from here on.
Ask(r) ==
    LET t == ask'[r].tok IN
    /\ ask[r].state = "idle"
    /\ t \in Tokens
    /\ ask' = [ask EXCEPT ![r] = [state |-> "asked", tok |-> t, alive |-> t \notin dead]]
    /\ UNCHANGED dead

Grant(r) ==
    /\ ask[r].state = "asked"
    /\ ask[r].alive
    /\ ask' = [ask EXCEPT ![r].state = "granted"]
    /\ UNCHANGED dead

Refuse(r) ==
    /\ ask[r].state \in {"asked", "granted"}
    /\ ask' = [ask EXCEPT ![r].state = "refused"]
    /\ UNCHANGED dead

Close(r) ==
    /\ ask[r].state \in {"granted", "refused"}
    /\ ask' = [ask EXCEPT ![r] = Idle]
    /\ UNCHANGED dead

Next ==
    \/ Kill
    \/ \E r \in Reqs : Ask(r) \/ Grant(r) \/ Refuse(r) \/ Close(r)

Spec == Init /\ [][Next]_vars
=============================================================================
