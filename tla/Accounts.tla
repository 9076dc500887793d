------------------------------ MODULE Accounts ------------------------------
(***************************************************************************)
(* Accounts: the users table and the operations that write it, served      *)
(* concurrently: register, profile update, password change, role change,   *)
(* and the password-reset flow with its Redis keys and its mail.           *)
(*                                                                         *)
(* Every operation but register reads a whole row, changes one column of   *)
(* its copy and saves the whole copy (gorm Save writes every column).      *)
(* A statement or Redis call may succeed, fail without effect, or take     *)
(* effect and lose its reply.                                              *)
(*                                                                         *)
(* Hashing is left out: a password column holds the password it verifies.  *)
(* first_name and last_name are one column, name.  active is in Sessions.  *)
(***************************************************************************)
EXTENDS Naturals, FiniteSets

CONSTANTS
    Reqs,        \* concurrent requests
    Emails,
    Passwords,
    Names,
    Roles,       \* models.Role, with "user" and "admin" among them
    ResetTokens, \* random tokens; bound: as many password resets can be asked for
    NoRow,       \* an id without a row; a local variable not yet read
    None,        \* an absent field of a request; a password that is nobody's; an empty address
    MaxRows,     \* bound: rows ever inserted
    Events       \* bound: the operations and environment events of an instance

ASSUME RolesAssumption == {"user", "admin"} \subseteq Roles
ASSUME RowsAssumption == MaxRows \in Nat
ASSUME ReqsAssumption == IsFiniteSet(Reqs)

VARIABLES
    table,     \* users
    nextId,    \* users_id_seq
    keys,      \* Redis keys "pwd_reset:<token>" and the user id they hold
    drawn,     \* reset tokens generated so far
    outbox,    \* mails handed to a sender goroutine
    promoted,  \* history: users an administrator made "admin"
    pc, req,   \* where each request stands, what it asks for
    loc,       \* the handler's copy of the row and the row's id
    hist       \* history: what held at some time since the request began

vars == <<table, nextId, keys, drawn, outbox, promoted, pc, req, loc, hist>>

Ids == 1 .. MaxRows

Row == [email : Emails, password : Passwords, name : Names, role : Roles,
        deleted : BOOLEAN]

Op == {"register", "profile", "password", "role", "forgot", "reset"}

Request == [op : Op, id : Ids \cup {None}, email : Emails \cup {None},
            arg : Passwords \cup Names \cup Roles \cup {None},
            cur : Passwords \cup {None}, tok : ResetTokens \cup {None}]

ASSUME NoRowAssumption == NoRow \notin Row

\* for: whom the mail is meant for; tok: the token in the link, None in a welcome mail.
Mail == [to : Emails \cup {None}, for : Emails, tok : ResetTokens \cup {None}]

PC == {"idle", "reg_exists", "reg_create", "find", "save", "forgot_find", "forgot_set",
       "reset_get", "reset_del", "ok", "conflict", "denied"}

NoReq == [op |-> "forgot", id |-> None, email |-> None, arg |-> None, cur |-> None,
          tok |-> None]
NoLoc == [id |-> None, row |-> NoRow]
NoHist == [taken |-> FALSE, late |-> FALSE, stale |-> FALSE, err |-> FALSE]

TypeOK ==
    /\ table \in [Ids -> Row \cup {NoRow}]
    /\ nextId \in 1 .. MaxRows + 1
    /\ keys \subseteq [tok : ResetTokens, id : Ids]
    /\ drawn \subseteq ResetTokens
    /\ outbox \subseteq Mail
    /\ promoted \subseteq Ids
    /\ pc \in [Reqs -> PC]
    /\ req \in [Reqs -> Request]
    /\ loc \in [Reqs -> [id : Ids \cup {None}, row : Row \cup {NoRow}]]
    /\ hist \in [Reqs -> [taken : BOOLEAN, late : BOOLEAN, stale : BOOLEAN, err : BOOLEAN]]

-----------------------------------------------------------------------------
(* The table.                                                              *)

\* gorm adds "deleted_at IS NULL" to every query.
Live(id) == table[id] # NoRow /\ ~table[id].deleted

Taken(email) == \E id \in Ids : Live(id) /\ table[id].email = email

\* Mutations: the unique index is missing; it covers deleted rows as well.
NoIndex(id, new) == TRUE
IndexAllRows(id, new) ==
    \A other \in Ids \ {id} : table[other] # NoRow => table[other].email # new.email

\* idx_users_email: unique among the rows that are not deleted.
IndexAllows(id, new) ==
    new.deleted \/ \A other \in Ids \ {id} : ~(Live(other) /\ table[other].email = new.email)

\* A committed write of one row by request r, and what the other requests under way
\* will have seen of it.
Write(r, id, new) ==
    /\ table' = [table EXCEPT ![id] = new]
    /\ hist' = [q \in Reqs |->
                  IF pc[q] = "idle" THEN hist[q]
                  ELSE [hist[q] EXCEPT
                          !.taken = @ \/ (~new.deleted /\ req[q].email = new.email),
                          !.stale = @ \/ (q # r /\ loc[q].id = id /\ loc[q].row # NoRow)]]

-----------------------------------------------------------------------------
Init ==
    /\ table = [id \in Ids |-> NoRow]
    /\ nextId = 1
    /\ keys = {}
    /\ drawn = {}
    /\ outbox = {}
    /\ promoted = {}
    /\ pc = [r \in Reqs |-> "idle"]
    /\ req = [r \in Reqs |-> NoReq]
    /\ loc = [r \in Reqs |-> NoLoc]
    /\ hist = [r \in Reqs |-> NoHist]

Goto(r, from, to) == pc[r] = from /\ pc' = [pc EXCEPT ![r] = to]

Begin(r, at, q) ==
    /\ q.op \in Events
    /\ Goto(r, "idle", at)
    /\ req' = [req EXCEPT ![r] = q]
    /\ hist' = [hist EXCEPT ![r] = [taken |-> \E e \in Emails : e = q.email /\ Taken(e),
                                    late |-> q.op = "reset" /\ \A k \in keys : k.tok # q.tok,
                                    stale |-> FALSE, err |-> FALSE]]
    /\ loc' = [loc EXCEPT ![r].id = q.id]
    /\ UNCHANGED <<table, nextId, keys, drawn, outbox>>

\* The response reaches the client.
Finish(r) ==
    /\ pc[r] \in {"ok", "conflict", "denied"}
    /\ pc' = [pc EXCEPT ![r] = "idle"]
    /\ req' = [req EXCEPT ![r] = NoReq]
    /\ loc' = [loc EXCEPT ![r] = NoLoc]
    /\ hist' = [hist EXCEPT ![r] = NoHist]
    /\ UNCHANGED <<table, nextId, keys, drawn, outbox, promoted>>

\* A query failed, or the handler gives up: nothing is written.
Fail(r, from) ==
    /\ Goto(r, from, "denied")
    /\ UNCHANGED <<table, nextId, keys, drawn, outbox, promoted, req, loc, hist>>

-----------------------------------------------------------------------------
(* POST /auth/register                                                     *)

\* They will take an id each.
Registering == {q \in Reqs : pc[q] \in {"reg_exists", "reg_create"}}

Register(r) ==
    /\ nextId + Cardinality(Registering) <= MaxRows
    /\ \E e \in Emails, p \in Passwords :
          Begin(r, "reg_exists", [NoReq EXCEPT !.op = "register", !.email = e, !.arg = p])
    /\ UNCHANGED promoted

\* ExistsByEmail: a failed query counts zero rows.
RegisterExists(r) ==
    /\ \/ Taken(req[r].email) /\ Goto(r, "reg_exists", "conflict")
       \/ Goto(r, "reg_exists", "reg_create")             \* free, or the query failed
    /\ UNCHANGED <<table, nextId, keys, drawn, outbox, promoted, req, loc, hist>>

\* userRepo.Create: INSERT, refused by the unique index if the e-mail was taken
\* meanwhile; the id of a refused row is lost.  The welcome mail leaves on success.
RegisterCreate(r) ==
    \E n \in Names :
       LET new == [email |-> req[r].email, password |-> req[r].arg, name |-> n,
                   role |-> "user", deleted |-> FALSE]
       IN  /\ pc[r] = "reg_create"
           /\ nextId' = nextId + 1
           /\ \/ /\ IndexAllows(nextId, new)
                 /\ Write(r, nextId, new)
                 /\ \/ /\ Goto(r, "reg_create", "ok")
                       /\ outbox' = outbox \cup {[to |-> new.email, for |-> new.email,
                                                  tok |-> None]}
                    \/ Goto(r, "reg_create", "denied") /\ UNCHANGED outbox   \* reply lost
              \/ /\ ~IndexAllows(nextId, new)
                 /\ Goto(r, "reg_create", "conflict")
                 /\ UNCHANGED <<table, hist, outbox>>
           /\ UNCHANGED <<keys, drawn, promoted, req, loc>>

RegisterFails(r) == Fail(r, "reg_create")

-----------------------------------------------------------------------------
(* PUT /profile, PUT /profile/password, PUT /admin/users/:id/role: read the *)
(* row, change one column of the copy, save the copy.                       *)

UpdateProfile(r) ==
    /\ \E id \in 1 .. nextId - 1, n \in Names :
          Begin(r, "find", [NoReq EXCEPT !.op = "profile", !.id = id, !.arg = n])
    /\ UNCHANGED promoted

ChangePassword(r) ==
    /\ \E id \in 1 .. nextId - 1, p \in Passwords, cur \in Passwords \cup {None} :
          Begin(r, "find", [NoReq EXCEPT !.op = "password", !.id = id, !.arg = p, !.cur = cur])
    /\ UNCHANGED promoted

SetUserRole(r) ==
    \E id \in 1 .. nextId - 1, x \in Roles :
       /\ Begin(r, "find", [NoReq EXCEPT !.op = "role", !.id = id, !.arg = x])
       /\ promoted' = IF x = "admin" THEN promoted \cup {id} ELSE promoted

\* FindByID, then CheckPassword when the operation asks for the current password.
MayChange(r, id) ==
    Live(id) /\ (req[r].op = "password" => req[r].cur = table[id].password)

Find(r) ==
    LET id == loc[r].id IN
    /\ pc[r] = "find"
    /\ \/ /\ MayChange(r, id)
          /\ Goto(r, "find", "save")
          /\ loc' = [loc EXCEPT ![r].row = table[id]]
       \/ ~MayChange(r, id) /\ Goto(r, "find", "denied") /\ UNCHANGED loc
    /\ UNCHANGED <<table, nextId, keys, drawn, outbox, promoted, req, hist>>

FindFails(r) == Fail(r, "find")

\* Mutations: a profile update takes the role from the request; it writes a row made
\* afresh; a reset stores its token as the password.
ChangedWithRole(r) ==
    CASE req[r].op = "profile" -> [loc[r].row EXCEPT !.name = req[r].arg, !.role = "admin"]
      [] req[r].op = "role" -> [loc[r].row EXCEPT !.role = req[r].arg]
      [] OTHER -> [loc[r].row EXCEPT !.password = req[r].arg]
ChangedAfresh(r) ==
    CASE req[r].op = "profile" -> [loc[r].row EXCEPT !.name = req[r].arg, !.role = "user"]
      [] req[r].op = "role" -> [loc[r].row EXCEPT !.role = req[r].arg]
      [] OTHER -> [loc[r].row EXCEPT !.password = req[r].arg]
ChangedToToken(r) ==
    CASE req[r].op = "profile" -> [loc[r].row EXCEPT !.name = req[r].arg]
      [] req[r].op = "role" -> [loc[r].row EXCEPT !.role = req[r].arg]
      [] req[r].op = "reset" -> [loc[r].row EXCEPT !.password = req[r].tok]
      [] OTHER -> [loc[r].row EXCEPT !.password = req[r].arg]

\* The handler's copy with the column its operation changes.
Changed(r) ==
    CASE req[r].op = "profile" -> [loc[r].row EXCEPT !.name = req[r].arg]
      [] req[r].op = "role" -> [loc[r].row EXCEPT !.role = req[r].arg]
      [] OTHER -> [loc[r].row EXCEPT !.password = req[r].arg]

\* userRepo.Update is gorm's Save: UPDATE of every column WHERE the id matches and
\* the row is not deleted; if that touches no row, INSERT ... ON CONFLICT (id) DO
\* UPDATE of every column, deleted_at included.
Save(r) ==
    LET id == loc[r].id IN
    /\ pc[r] = "save"
    /\ \/ /\ Live(id) \/ IndexAllows(id, Changed(r))
          /\ Write(r, id, Changed(r))
          /\ \/ Goto(r, "save", IF req[r].op = "reset" THEN "reset_del" ELSE "ok")
             \/ Goto(r, "save", "denied")                                  \* reply lost
       \/ /\ ~Live(id) /\ ~IndexAllows(id, Changed(r))
          /\ Goto(r, "save", "denied")
          /\ UNCHANGED <<table, hist>>
    /\ UNCHANGED <<nextId, keys, drawn, outbox, promoted, req, loc>>

SaveFails(r) == Fail(r, "save")

-----------------------------------------------------------------------------
(* POST /auth/forgot-password: always answered with success.               *)

ForgotPassword(r) ==
    /\ \E e \in Emails : Begin(r, "forgot_find", [NoReq EXCEPT !.op = "forgot", !.email = e])
    /\ Cardinality(drawn) + Cardinality({q \in Reqs : pc[q] \in {"forgot_find", "forgot_set"}})
          < Cardinality(ResetTokens)
    /\ UNCHANGED promoted

ForgotFind(r) ==
    /\ \/ \E id \in Ids :
             /\ Live(id) /\ table[id].email = req[r].email
             /\ Goto(r, "forgot_find", "forgot_set")
             /\ loc' = [loc EXCEPT ![r] = [id |-> id, row |-> table[id]]]
       \/ Goto(r, "forgot_find", "ok") /\ UNCHANGED loc        \* no such user, or no answer
    /\ UNCHANGED <<table, nextId, keys, drawn, outbox, promoted, req, hist>>

\* Mutation: the mail leaves whether or not the key was stored.
ForgotSetFailOpen(r) ==
    \E t \in ResetTokens \ drawn :
       LET key == [tok |-> t, id |-> loc[r].id]
           mail == [to |-> None, for |-> loc[r].row.email, tok |-> t]
       IN  /\ Goto(r, "forgot_set", "ok")
           /\ drawn' = drawn \cup {t}
           /\ keys' \in {keys, keys \cup {key}}
           /\ outbox' = outbox \cup {mail}
           /\ UNCHANGED <<table, nextId, promoted, req, loc, hist>>

\* rand.Read, SET "pwd_reset:<token>" with a TTL of an hour, then the mail, whose
\* template leaves the recipient empty.
ForgotSet(r) ==
    \E t \in ResetTokens \ drawn :
       LET key == [tok |-> t, id |-> loc[r].id]
           mail == [to |-> None, for |-> loc[r].row.email, tok |-> t]
       IN  /\ Goto(r, "forgot_set", "ok")
           /\ drawn' = drawn \cup {t}
           /\ \/ keys' = keys \cup {key} /\ outbox' = outbox \cup {mail}
              \/ keys' = keys \cup {key} /\ UNCHANGED outbox             \* reply lost
              \/ UNCHANGED <<keys, outbox>>                              \* call failed
           /\ UNCHANGED <<table, nextId, promoted, req, loc, hist>>

-----------------------------------------------------------------------------
(* POST /auth/reset-password                                               *)

\* A client presents any token ever generated.
ResetPassword(r) ==
    /\ \E t \in drawn, p \in Passwords :
          Begin(r, "reset_get", [NoReq EXCEPT !.op = "reset", !.tok = t, !.arg = p])
    /\ UNCHANGED promoted

\* Mutation: the user id is taken from the request, the key is not looked up.
ResetGetUnchecked(r) ==
    /\ Goto(r, "reset_get", "find")
    /\ \E id \in 1 .. nextId - 1 : loc' = [loc EXCEPT ![r].id = id]
    /\ UNCHANGED <<table, nextId, keys, drawn, outbox, promoted, req, hist>>

\* GET; an error, or no key, ends the request.
ResetGet(r) ==
    /\ Goto(r, "reset_get", "find")
    /\ \E k \in keys :
          /\ k.tok = req[r].tok
          /\ loc' = [loc EXCEPT ![r].id = k.id]
    /\ UNCHANGED <<table, nextId, keys, drawn, outbox, promoted, req, hist>>

ResetGetFails(r) == Fail(r, "reset_get")

\* Mutation: the key is left to expire.
ResetDelKeeps(r) ==
    /\ Goto(r, "reset_del", "ok")
    /\ UNCHANGED <<table, nextId, keys, drawn, outbox, promoted, req, loc, hist>>

\* DEL after the row is saved; an error is logged and nothing else.
ResetDel(r) ==
    LET left == {k \in keys : k.tok # req[r].tok} IN
    /\ Goto(r, "reset_del", "ok")
    /\ \/ keys' = left /\ UNCHANGED hist
       \/ keys' \in {left, keys} /\ hist' = [hist EXCEPT ![r].err = TRUE]
    /\ UNCHANGED <<table, nextId, drawn, outbox, promoted, req, loc>>

-----------------------------------------------------------------------------
(* The environment.                                                        *)

\* An hour has passed since the key was set.
Expire ==
    /\ "expire" \in Events
    /\ \E k \in keys : keys' = keys \ {k}
    /\ UNCHANGED <<table, nextId, drawn, outbox, promoted, pc, req, loc, hist>>

\* mailer.Send in its goroutine: whether it succeeds is only logged.
SendMail ==
    /\ \E m \in outbox : outbox' = outbox \ {m}
    /\ UNCHANGED <<table, nextId, keys, drawn, promoted, pc, req, loc, hist>>

\* userRepo.Delete, which no route calls: an operator's soft delete.
Delete(id) ==
    /\ "delete" \in Events
    /\ Live(id)
    /\ table' = [table EXCEPT ![id].deleted = TRUE]
    /\ hist' = [q \in Reqs |-> IF loc[q].id = id /\ loc[q].row # NoRow
                               THEN [hist[q] EXCEPT !.stale = TRUE] ELSE hist[q]]
    /\ UNCHANGED <<nextId, keys, drawn, outbox, promoted, pc, req, loc>>

-----------------------------------------------------------------------------
Arrive(r) == \/ Register(r) \/ UpdateProfile(r) \/ ChangePassword(r) \/ SetUserRole(r)
             \/ ForgotPassword(r) \/ ResetPassword(r)

Serve(r) ==
    \/ RegisterExists(r) \/ RegisterCreate(r) \/ RegisterFails(r)
    \/ Find(r) \/ FindFails(r) \/ Save(r) \/ SaveFails(r)
    \/ ForgotFind(r) \/ ForgotSet(r)
    \/ ResetGet(r) \/ ResetGetFails(r) \/ ResetDel(r)

Environment == Expire \/ SendMail \/ \E id \in Ids : Delete(id)

Next == Environment \/ \E r \in Reqs : Arrive(r) \/ Serve(r) \/ Finish(r)

Spec == Init /\ [][Next]_vars

-----------------------------------------------------------------------------
(* Properties.                                                             *)

\* At most one row that is not deleted per e-mail, although the check and the insert
\* of a registration are two steps and a save may bring a deleted row back.
EmailUnique ==
    \A i, j \in Ids : (Live(i) /\ Live(j) /\ table[i].email = table[j].email) => i = j

\* "email already registered" is only answered if the e-mail was somebody's at some
\* moment of the request: a deleted account does not block its e-mail.
ConflictIsReal == \A r \in Reqs : pc[r] = "conflict" => hist[r].taken

\* Nobody is an administrator whom no administrator promoted.  A save of an old copy
\* can undo a demotion, but not promote anyone.
AdminsWerePromoted ==
    \A id \in Ids : (table[id] # NoRow /\ table[id].role = "admin") => id \in promoted

\* A reset whose token was used up, expired or never stored when the request arrived
\* writes nothing, however many resets race.
ResetNeedsKey ==
    \A r \in Reqs : (req[r].op = "reset" /\ pc[r] \in {"find", "save", "reset_del", "ok"})
                       => ~hist[r].late

\* A reset answered with success has used up its token, unless Redis complained.
ResetSpendsToken ==
    \A r \in Reqs : (req[r].op = "reset" /\ pc[r] = "ok" /\ ~hist[r].err)
                       => \A k \in keys : k.tok # req[r].tok

\* The link mailed to somebody holds a token that is stored, for that user's row, by
\* the time the mail is handed over: no mail about a token Redis refused.
ResetLinkIsStored ==
    [][\A m \in outbox' \ outbox :
          m.tok # None => \E k \in keys' : k.tok = m.tok /\ table[k.id].email = m.for]_vars

Columns == {"email", "password", "name", "role", "deleted"}

OwnColumn(op) == CASE op = "profile" -> {"name"}
                   [] op = "role" -> {"role"}
                   [] OTHER -> {"password"}

\* The save of request r changes only the column its operation is about.
SavesOwnColumn(r) ==
    (pc[r] = "save" /\ pc'[r] # "save" /\ table' # table) =>
       \A c \in Columns \ OwnColumn(req[r].op) :
          table'[loc[r].id][c] = table[loc[r].id][c]

\* A column that an operation is not about changes in its save only if another write
\* of the row came between its read and its save.
LostUpdateNeedsOverlap == [][\A r \in Reqs : hist[r].stale \/ SavesOwnColumn(r)]_vars

-----------------------------------------------------------------------------
(* What the operations promise together: Directory.                        *)

\* The requests that ask for an account.
DirSignup ==
    [r \in Reqs |->
       IF pc[r] \in {"reg_exists", "reg_create", "conflict"}
       THEN [state |-> IF pc[r] = "conflict" THEN "conflict" ELSE "asked",
             email |-> req[r].email, claimed |-> hist[r].taken]
       ELSE [state |-> "none", email |-> None, claimed |-> FALSE]]

Promise == INSTANCE Directory WITH account <- table, signup <- DirSignup,
                                   Nobody <- NoRow, NoEmail <- None

\* The operations, interleaved in any way and with failing statements, keep the promise
\* of Directory: no reader of the table sees an id change hands, an e-mail change, two
\* accounts share one, or an administrator nobody promoted.
ImplementsDirectory == Promise!Spec

-----------------------------------------------------------------------------
(* The inductive invariant: what a request relies on at each of its steps. *)

\* The request a step belongs to is of the step's operation and has its fields.
Shape(r) ==
    /\ pc[r] = "idle" => req[r] = NoReq /\ loc[r] = NoLoc
    /\ pc[r] \in {"reg_exists", "reg_create", "conflict"} => req[r].op = "register"
    /\ pc[r] \in {"forgot_find", "forgot_set"} => req[r].op = "forgot"
    /\ pc[r] \in {"reset_get", "reset_del"} => req[r].op = "reset"
    /\ pc[r] \in {"find", "save"} => req[r].op \in {"profile", "password", "role", "reset"}
    /\ req[r].op = "register" => req[r].email \in Emails
    /\ req[r].op \in {"register", "password", "reset"} => req[r].arg \in Passwords
    /\ req[r].op = "profile" => req[r].arg \in Names
    /\ req[r].op = "role" => req[r].arg \in Roles
    /\ req[r].op = "reset" => req[r].tok \in drawn

\* The copy a handler holds is of a row that has kept its e-mail, has a role it may save
\* again, and is the row as it is unless another write came between.
CopySound(r) ==
    /\ pc[r] \in {"find", "save", "forgot_set"} => loc[r].id \in Ids
    /\ pc[r] \in {"save", "forgot_set"} => loc[r].row # NoRow
    /\ pc[r] \in {"reg_exists", "reg_create", "forgot_find", "reset_get", "find"} =>
          loc[r].row = NoRow
    /\ loc[r].row # NoRow =>
          /\ loc[r].id \in Ids
          /\ table[loc[r].id] # NoRow
          /\ table[loc[r].id].email = loc[r].row.email
          /\ loc[r].row.role = "admin" => loc[r].id \in promoted
    /\ (pc[r] \in {"find", "save"} /\ req[r].op = "role" /\ req[r].arg = "admin")
          => loc[r].id \in promoted
    /\ (pc[r] \in {"save", "forgot_set"} /\ ~hist[r].stale) => table[loc[r].id] = loc[r].row

\* A registration has noticed every row with its e-mail; a reset that came too late
\* finds no key.
HistSound(r) ==
    /\ (pc[r] # "idle" /\ req[r].op = "register" /\ Taken(req[r].email)) => hist[r].taken
    /\ hist[r].late => req[r].op = "reset" /\ \A k \in keys : k.tok # req[r].tok

\* Ids are drawn once, and there is one for every registration under way.
IdsSound ==
    /\ \A id \in Ids : id >= nextId => table[id] = NoRow
    /\ nextId + Cardinality(Registering) <= MaxRows + 1

IInv ==
    /\ TypeOK
    /\ IdsSound
    /\ \A r \in Reqs : Shape(r) /\ CopySound(r) /\ HistSound(r)
    /\ EmailUnique
    /\ ConflictIsReal
    /\ AdminsWerePromoted
    /\ ResetNeedsKey
    /\ ResetSpendsToken

-----------------------------------------------------------------------------
(* What the repository says and the code does not do.                      *)

\* handlers/auth.go: "Update first name and/or last name".  The profile update leaves
\* the password, the role and the rest of the row as they are.
ProfileUpdatesNames ==
    [][\A r \in Reqs : req[r].op = "profile" => SavesOwnColumn(r)]_vars

\* handlers/auth.go: "Send a password reset email".  Every mail handed to the provider
\* is addressed to the user it is for.
MailIsAddressed == \A m \in outbox : m.to = m.for
=============================================================================
