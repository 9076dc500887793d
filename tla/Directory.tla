----------------------------- MODULE Directory -----------------------------
(***************************************************************************)
(* What the account operations promise together, without saying how: an    *)
(* id keeps its account and its e-mail for ever, an e-mail is that of one  *)
(* open account at a time, whoever may administrate was promoted, an       *)
(* account is only made for a request that asks for it and has no answer   *)
(* yet, and a request is turned away only if the e-mail was somebody's at  *)
(* some moment between the question and the answer.  Accounts may be       *)
(* closed, and opened again while nobody else has the e-mail.              *)
(*                                                                         *)
(* An account is a record with its e-mail, its role and whether it is      *)
(* closed; of whatever else it has nothing is said.                        *)
(***************************************************************************)
CONSTANTS
    Ids, Emails, Reqs,
    Nobody,   \* an id without an account
    NoEmail   \* of a request that asks for no account

VARIABLES
    account,   \* per id
    promoted,  \* ids that an administrator promoted at some time
    signup     \* per request: the e-mail it wants, whether that was somebody's meanwhile

vars == <<account, promoted, signup>>

Quiet == [state |-> "none", email |-> NoEmail, claimed |-> FALSE]

HasEmail(id, e) == account[id] # Nobody /\ ~account[id].deleted /\ account[id].email = e

Init ==
    /\ account = [id \in Ids |-> Nobody]
    /\ promoted = {}
    /\ signup = [r \in Reqs |-> Quiet]

\* The account of id becomes new; nobody else's open account has its e-mail.
Put(id, new) ==
    /\ account' = [account EXCEPT ![id] = new]
    /\ new.deleted \/ \A other \in Ids \ {id} : ~HasEmail(other, new.email)

\* Request r, as it has seen an account be that of an e-mail.
Notice(r, new) ==
    IF signup[r].state # "none" /\ ~new.deleted /\ signup[r].email = new.email
    THEN [signup[r] EXCEPT !.claimed = TRUE] ELSE signup[r]

Ask(r) ==
    /\ signup[r].state = "none"
    /\ \E e \in Emails :
          signup' = [signup EXCEPT ![r] = [state |-> "asked", email |-> e,
                                           claimed |-> \E id \in Ids : HasEmail(id, e)]]
    /\ UNCHANGED <<account, promoted>>

Create(r, id) ==
    LET new == account'[id] IN
    /\ signup[r].state = "asked"
    /\ account[id] = Nobody /\ new # Nobody
    /\ new.email = signup[r].email /\ new.role = "user" /\ ~new.deleted
    /\ Put(id, new)
    /\ signup' = [q \in Reqs |-> IF q = r THEN Quiet ELSE Notice(q, new)]
    /\ UNCHANGED promoted

TurnAway(r) ==
    /\ signup[r].state = "asked"
    /\ signup[r].claimed
    /\ signup' = [signup EXCEPT ![r].state = "conflict"]
    /\ UNCHANGED <<account, promoted>>

\* The request ends, with or without an answer.
Leave(r) ==
    /\ signup[r].state # "none"
    /\ signup' = [signup EXCEPT ![r] = Quiet]
    /\ UNCHANGED <<account, promoted>>

Change(id) ==
    LET new == account'[id] IN
    /\ account[id] # Nobody /\ new # Nobody
    /\ new.email = account[id].email
    /\ new.role = "admin" => id \in promoted
    /\ Put(id, new)
    /\ signup' = [q \in Reqs |-> Notice(q, new)]
    /\ UNCHANGED promoted

Promote(id) ==
    /\ id \notin promoted
    /\ promoted' = promoted \cup {id}
    /\ UNCHANGED <<account, signup>>

Next ==
    \/ \E id \in Ids : Change(id) \/ Promote(id)
    \/ \E r \in Reqs : Ask(r) \/ TurnAway(r) \/ Leave(r) \/ \E id \in Ids : Create(r, id)

Spec == Init /\ [][Next]_vars
=============================================================================
