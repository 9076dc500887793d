--------------------------- MODULE Accounts_proofs ---------------------------
(***************************************************************************)
(* Proofs about Accounts, for any number of requests, rows, e-mails and    *)
(* reset tokens: the inductive invariant and the properties that follow.   *)
(***************************************************************************)
EXTENDS Accounts, FiniteSetTheorems, TLAPS

\* What the invariant says of one request.
Mine(r) ==
    /\ Shape(r)
    /\ CopySound(r)
    /\ HistSound(r)
    /\ pc[r] = "conflict" => hist[r].taken
    /\ (req[r].op = "reset" /\ pc[r] \in {"find", "save", "reset_del", "ok"}) => ~hist[r].late
    /\ (req[r].op = "reset" /\ pc[r] = "ok" /\ ~hist[r].err)
          => \A k \in keys : k.tok # req[r].tok

LEMMA Parts ==
    IInv <=> /\ TypeOK
             /\ IdsSound
             /\ EmailUnique
             /\ AdminsWerePromoted
             /\ \A r \in Reqs : Mine(r)
BY DEF IInv, Mine, ConflictIsReal, ResetNeedsKey, ResetSpendsToken

LEMMA PartsNext ==
    ASSUME TypeOK', IdsSound', EmailUnique', AdminsWerePromoted', \A r \in Reqs : Mine(r)'
    PROVE  IInv'
BY DEF IInv, Mine, ConflictIsReal, ResetNeedsKey, ResetSpendsToken

LEMMA InitInv == Init => IInv
<1> SUFFICES ASSUME Init PROVE IInv
  OBVIOUS
<1>1. TypeOK
  BY RowsAssumption DEF Init, TypeOK, Ids, NoReq, NoLoc, NoHist, Request, Op, PC
<1>2. IdsSound
  <2>1. Registering = {}
    BY DEF Init, Registering
  <2>2. Cardinality(Registering) = 0
    BY <2>1, FS_EmptySet
  <2>3. QED  BY <2>2, RowsAssumption DEF Init, IdsSound
<1>3. EmailUnique /\ AdminsWerePromoted
  BY DEF Init, EmailUnique, AdminsWerePromoted, Live
<1>4. ASSUME NEW r \in Reqs PROVE Mine(r)
  BY <1>4 DEF Init, Mine, Shape, CopySound, HistSound, NoReq, NoLoc, NoHist
<1>5. QED  BY <1>1, <1>2, <1>3, <1>4, Parts

-----------------------------------------------------------------------------
(* The rows.                                                               *)

\* No row vanishes or changes its e-mail.
RowsKept ==
    \A id \in Ids : table[id] # NoRow => /\ table'[id] # NoRow
                                         /\ table'[id].email = table[id].email

\* Request q is not the one that moves, and what it relies on is left in place.
Passive(q) ==
    /\ pc'[q] = pc[q] /\ req'[q] = req[q] /\ loc'[q] = loc[q]
    /\ drawn \subseteq drawn' /\ promoted \subseteq promoted'
    /\ \A k \in keys' : k \in keys \/ k.tok \notin drawn
    /\ RowsKept
    /\ hist'[q].late = hist[q].late /\ hist'[q].err = hist[q].err
    /\ hist[q].taken => hist'[q].taken
    /\ hist[q].stale => hist'[q].stale
    /\ (pc[q] # "idle" /\ Taken(req[q].email)') => Taken(req[q].email) \/ hist'[q].taken
    /\ (loc[q].row # NoRow /\ ~hist'[q].stale) => table'[loc[q].id] = table[loc[q].id]

LEMMA PassiveKeeps ==
    ASSUME TypeOK, NEW q \in Reqs, Mine(q), Passive(q)
    PROVE  Mine(q)'
<1> USE DEF Passive, Mine
<1>1. Shape(q)'
  BY DEF Shape
<1>2. CopySound(q)'
  BY DEF CopySound, RowsKept
<1>3. HistSound(q)'
  BY DEF HistSound, Shape
<1>4. (pc[q] = "conflict" => hist[q].taken)'
  OBVIOUS
<1>5. ((req[q].op = "reset" /\ pc[q] \in {"find", "save", "reset_del", "ok"}) => ~hist[q].late)'
  OBVIOUS
<1>6. ((req[q].op = "reset" /\ pc[q] = "ok" /\ ~hist[q].err)
          => \A k \in keys : k.tok # req[q].tok)'
  BY DEF Shape
<1>7. QED  BY <1>1, <1>2, <1>3, <1>4, <1>5, <1>6

\* What a write of a row means for everybody.
LEMMA WriteEffect ==
    ASSUME TypeOK, \A q \in Reqs : Mine(q), NEW r \in Reqs, NEW id \in Ids, NEW new \in Row,
           Write(r, id, new), table[id] = NoRow \/ table[id].email = new.email
    PROVE  /\ table' \in [Ids -> Row \cup {NoRow}]
           /\ table'[id] = new
           /\ \A other \in Ids \ {id} : table'[other] = table[other]
           /\ RowsKept
           /\ \A q \in Reqs :
                 /\ hist'[q] \in [taken : BOOLEAN, late : BOOLEAN, stale : BOOLEAN, err : BOOLEAN]
                 /\ hist'[q].late = hist[q].late /\ hist'[q].err = hist[q].err
                 /\ hist[q].taken => hist'[q].taken
                 /\ hist[q].stale => hist'[q].stale
                 /\ (pc[q] # "idle" /\ req[q].email = new.email /\ ~new.deleted) => hist'[q].taken
                 /\ (q # r /\ loc[q].row # NoRow /\ ~hist'[q].stale) => loc[q].id # id
<1>1. table' = [table EXCEPT ![id] = new]
  BY DEF Write
<1>2. /\ table' \in [Ids -> Row \cup {NoRow}]
      /\ table'[id] = new
      /\ \A other \in Ids \ {id} : table'[other] = table[other]
  BY <1>1 DEF TypeOK
<1>3. RowsKept
  BY <1>2, NoRowAssumption DEF RowsKept
<1>4. ASSUME NEW q \in Reqs
      PROVE  /\ hist'[q] \in [taken : BOOLEAN, late : BOOLEAN, stale : BOOLEAN, err : BOOLEAN]
             /\ hist'[q].late = hist[q].late /\ hist'[q].err = hist[q].err
             /\ hist[q].taken => hist'[q].taken
             /\ hist[q].stale => hist'[q].stale
             /\ (pc[q] # "idle" /\ req[q].email = new.email /\ ~new.deleted) => hist'[q].taken
             /\ (q # r /\ loc[q].row # NoRow /\ ~hist'[q].stale) => loc[q].id # id
  <2>1. hist[q] \in [taken : BOOLEAN, late : BOOLEAN, stale : BOOLEAN, err : BOOLEAN]
    BY DEF TypeOK
  <2>2. CASE pc[q] = "idle"
    <3>1. hist'[q] = hist[q]
      BY <2>2 DEF Write
    <3>2. loc[q].row = NoRow
      BY <2>2 DEF Mine, Shape, NoLoc
    <3>3. QED  BY <2>1, <2>2, <3>1, <3>2
  <2>3. CASE pc[q] # "idle"
    <3>1. hist'[q] = [hist[q] EXCEPT
                        !.taken = @ \/ (~new.deleted /\ req[q].email = new.email),
                        !.stale = @ \/ (q # r /\ loc[q].id = id /\ loc[q].row # NoRow)]
      BY <2>3 DEF Write
    <3>2. QED  BY <2>1, <2>3, <3>1
  <2>4. QED  BY <2>2, <2>3
<1>5. QED  BY <1>2, <1>3, <1>4

\* Everybody but the writer is passive.
LEMMA WritePassive ==
    ASSUME TypeOK, \A q \in Reqs : Mine(q), NEW r \in Reqs, NEW id \in Ids, NEW new \in Row,
           Write(r, id, new), table[id] = NoRow \/ table[id].email = new.email,
           NEW q \in Reqs \ {r},
           pc'[q] = pc[q], req'[q] = req[q], loc'[q] = loc[q],
           UNCHANGED <<keys, drawn, promoted>>
    PROVE  Passive(q)
<1>1. (pc[q] # "idle" /\ Taken(req[q].email)') => Taken(req[q].email) \/ hist'[q].taken
  BY WriteEffect DEF Taken, Live
<1>2. (loc[q].row # NoRow /\ ~hist'[q].stale) => table'[loc[q].id] = table[loc[q].id]
  <2>1. loc[q].row # NoRow => loc[q].id \in Ids
    BY DEF Mine, CopySound
  <2>2. QED  BY <2>1, WriteEffect
<1>3. QED  BY <1>1, <1>2, WriteEffect DEF Passive

\* A request that others do not notice.
LEMMA QuietPassive ==
    ASSUME NEW q \in Reqs,
           pc'[q] = pc[q], req'[q] = req[q], loc'[q] = loc[q], hist'[q] = hist[q],
           UNCHANGED table, drawn \subseteq drawn', promoted \subseteq promoted',
           \A k \in keys' : k \in keys \/ k.tok \notin drawn
    PROVE  Passive(q)
BY DEF Passive, RowsKept, Taken, Live

LEMMA TableKept ==
    ASSUME UNCHANGED table, promoted \subseteq promoted', EmailUnique, AdminsWerePromoted
    PROVE  EmailUnique' /\ AdminsWerePromoted'
BY DEF EmailUnique, AdminsWerePromoted, Live

-----------------------------------------------------------------------------
(* The ids.                                                                *)

LEMMA RegisteringFinite ==
    /\ IsFiniteSet(Registering)
    /\ Cardinality(Registering) \in Nat
BY ReqsAssumption, FS_Subset, FS_CardinalityType DEF Registering

LEMMA IdsKept ==
    ASSUME TypeOK, IdsSound, nextId' = nextId,
           \A id \in Ids : table[id] = NoRow => table'[id] = NoRow,
           Registering' \subseteq Registering
    PROVE  IdsSound'
<1>1. Cardinality(Registering') \in Nat /\ Cardinality(Registering') <= Cardinality(Registering)
  BY RegisteringFinite, FS_Subset, FS_CardinalityType
<1>2. QED  BY <1>1, RegisteringFinite, RowsAssumption DEF IdsSound, TypeOK

\* A registration that arrives needs one id more; one that is over needs one less.
LEMMA RegisteringGrows ==
    ASSUME TypeOK, NEW r \in Reqs, pc[r] = "idle", pc' = [pc EXCEPT ![r] = "reg_exists"]
    PROVE  Cardinality(Registering') = Cardinality(Registering) + 1
<1>1. Registering' = Registering \cup {r} /\ r \notin Registering
  BY DEF Registering, TypeOK
<1>2. QED  BY <1>1, RegisteringFinite, FS_AddElement

LEMMA RegisteringShrinks ==
    ASSUME TypeOK, NEW r \in Reqs, NEW to \in {"ok", "conflict", "denied"},
           pc[r] = "reg_create", pc' = [pc EXCEPT ![r] = to]
    PROVE  Cardinality(Registering') = Cardinality(Registering) - 1
<1>1. Registering' = Registering \ {r} /\ r \in Registering
  BY DEF Registering, TypeOK
<1>2. QED  BY <1>1, RegisteringFinite, FS_RemoveElement

-----------------------------------------------------------------------------
(* Arrivals.                                                               *)

\* A request fit to begin at a step.
Fit(at, q) ==
    /\ at \in {"reg_exists", "find", "forgot_find", "reset_get"}
    /\ at = "reg_exists" <=> q.op = "register"
    /\ at = "forgot_find" <=> q.op = "forgot"
    /\ at = "reset_get" <=> q.op = "reset"
    /\ at = "find" => q.id \in Ids
    /\ q.op = "register" => q.email \in Emails
    /\ q.op \in {"register", "password", "reset"} => q.arg \in Passwords
    /\ q.op = "profile" => q.arg \in Names
    /\ q.op = "role" => q.arg \in Roles /\ (q.arg = "admin" => q.id \in promoted')
    /\ q.op = "reset" => q.tok \in drawn

LEMMA BeginInv ==
    ASSUME IInv, NEW r \in Reqs, NEW at, NEW q \in Request, Begin(r, at, q), Fit(at, q),
           promoted \subseteq promoted', promoted' \subseteq Ids,
           at = "reg_exists" => nextId + Cardinality(Registering) <= MaxRows
    PROVE  IInv'
<1>1. /\ pc[r] = "idle" /\ req[r] = NoReq /\ loc[r] = NoLoc
      /\ pc' = [pc EXCEPT ![r] = at]
      /\ req' = [req EXCEPT ![r] = q]
      /\ UNCHANGED <<table, nextId, keys, drawn, outbox>>
  <2>1. /\ pc[r] = "idle" /\ pc' = [pc EXCEPT ![r] = at]
        /\ req' = [req EXCEPT ![r] = q]
        /\ UNCHANGED <<table, nextId, keys, drawn, outbox>>
    BY DEF Begin, Goto
  <2>2. Shape(r)
    BY DEF IInv
  <2>3. QED  BY <2>1, <2>2 DEF Shape
<1>2. /\ loc' \in [Reqs -> [id : Ids \cup {None}, row : Row \cup {NoRow}]]
      /\ loc'[r].id = q.id /\ loc'[r].row = NoRow
      /\ \A p \in Reqs \ {r} : loc'[p] = loc[p]
  <2>1. loc' = [loc EXCEPT ![r].id = q.id]
    BY DEF Begin
  <2>2. /\ loc \in [Reqs -> [id : Ids \cup {None}, row : Row \cup {NoRow}]]
        /\ q.id \in Ids \cup {None} /\ loc[r].row = NoRow
    BY <1>1 DEF IInv, TypeOK, Request, NoLoc
  <2>3. QED  BY <2>1, <2>2
<1>3. DEFINE h == [taken |-> \E e \in Emails : e = q.email /\ Taken(e),
                   late |-> q.op = "reset" /\ \A k \in keys : k.tok # q.tok,
                   stale |-> FALSE, err |-> FALSE]
<1>4. hist' = [hist EXCEPT ![r] = h]
  BY DEF Begin
<1>5. TypeOK'
  <2>1. h \in [taken : BOOLEAN, late : BOOLEAN, stale : BOOLEAN, err : BOOLEAN]
    OBVIOUS
  <2>2. hist' \in [Reqs -> [taken : BOOLEAN, late : BOOLEAN, stale : BOOLEAN, err : BOOLEAN]]
    BY <1>4, <2>1 DEF IInv, TypeOK
  <2>3. pc' \in [Reqs -> PC] /\ req' \in [Reqs -> Request]
    BY <1>1 DEF IInv, TypeOK, Fit, PC
  <2>4. QED  BY <1>1, <1>2, <2>2, <2>3 DEF IInv, TypeOK
<1>6. IdsSound'
  <2>1. CASE at = "reg_exists"
    <3>1. TypeOK /\ IdsSound /\ nextId \in Nat
      BY RowsAssumption DEF IInv, TypeOK
    <3>2. Cardinality(Registering') = Cardinality(Registering) + 1
      BY <1>1, <2>1, <3>1, RegisteringGrows
    <3>3. nextId + Cardinality(Registering') <= MaxRows + 1
      BY <2>1, <3>1, <3>2, RegisteringFinite, RowsAssumption
    <3>4. QED  BY <1>1, <3>1, <3>3 DEF IdsSound
  <2>2. CASE at # "reg_exists"
    <3>1. Registering' \subseteq Registering
      BY <1>1, <2>2 DEF Fit, Registering, IInv, TypeOK
    <3>2. QED  BY <1>1, <3>1, IdsKept DEF IInv
  <2>3. QED  BY <2>1, <2>2
<1>7. EmailUnique' /\ AdminsWerePromoted'
  BY <1>1, TableKept DEF IInv
<1>8. ASSUME NEW p \in Reqs PROVE Mine(p)'
  <2>1. CASE p # r
    <3>1. pc'[p] = pc[p] /\ req'[p] = req[p] /\ loc'[p] = loc[p] /\ hist'[p] = hist[p]
      BY <1>1, <1>2, <1>4, <2>1 DEF IInv, TypeOK
    <3>2. Passive(p)
      BY <1>1, <3>1, QuietPassive
    <3>3. QED  BY <3>2, PassiveKeeps, Parts
  <2>2. CASE p = r
    <3>1. pc'[r] = at /\ req'[r] = q /\ loc'[r].id = q.id /\ loc'[r].row = NoRow /\ hist'[r] = h
      BY <1>1, <1>2, <1>4 DEF IInv, TypeOK
    <3>2. Shape(r)'
      BY <1>1, <3>1 DEF Fit, Shape, Request, Op
    <3>3. CopySound(r)'
      BY <1>1, <3>1 DEF Fit, CopySound
    <3>4. HistSound(r)'
      <4>1. q.op = "register" => q.email \in Emails
        BY DEF Fit
      <4>2. (q.op = "register" /\ Taken(q.email)) => h.taken
        BY <4>1
      <4>3. Taken(q.email)' <=> Taken(q.email)
        BY <1>1 DEF Taken, Live
      <4>4. h.late => q.op = "reset" /\ \A k \in keys' : k.tok # q.tok
        BY <1>1
      <4>5. QED  BY <3>1, <4>2, <4>3, <4>4 DEF HistSound
    <3>5. at \notin {"conflict", "ok", "save", "reset_del"} /\ (at = "find" => q.op # "reset")
      BY DEF Fit
    <3>6. Mine(r)'
      <4>1. pc'[r] \notin {"conflict", "ok", "save", "reset_del"}
            /\ (pc'[r] = "find" => req'[r].op # "reset")
        BY <3>1, <3>5
      <4>2. QED  BY ONLY <3>2, <3>3, <3>4, <4>1 DEF Mine
    <3>7. QED  BY <2>2, <3>6
  <2>3. QED  BY <2>1, <2>2
<1>9. QED  BY <1>5, <1>6, <1>7, <1>8, PartsNext

LEMMA ArriveInv == ASSUME IInv, NEW r \in Reqs, Arrive(r) PROVE IInv'
<1> USE DEF NoReq, Fit, Request, Op
<1>1. 1 .. nextId - 1 \subseteq Ids /\ promoted \subseteq Ids /\ NoReq \in Request
  BY RowsAssumption DEF IInv, TypeOK, Ids
<1>2. CASE Register(r)
  <2>1. PICK e \in Emails, p \in Passwords :
           Begin(r, "reg_exists", [NoReq EXCEPT !.op = "register", !.email = e, !.arg = p])
    BY <1>2 DEF Register
  <2>2. nextId + Cardinality(Registering) <= MaxRows /\ UNCHANGED promoted
    BY <1>2 DEF Register
  <2>3. QED  BY <1>1, <2>1, <2>2, BeginInv
<1>3. CASE UpdateProfile(r)
  <2>1. PICK id \in 1 .. nextId - 1, n \in Names :
           Begin(r, "find", [NoReq EXCEPT !.op = "profile", !.id = id, !.arg = n])
    BY <1>3 DEF UpdateProfile
  <2>2. UNCHANGED promoted
    BY <1>3 DEF UpdateProfile
  <2>3. DEFINE q == [NoReq EXCEPT !.op = "profile", !.id = id, !.arg = n]
  <2>4. Begin(r, "find", q)
    BY <2>1
  <2>5. q \in Request
    BY <1>1, <2>1, <2>2
  <2>6. Fit("find", q)
    BY <1>1, <2>1, <2>2
  <2>7. QED  BY <1>1, <2>1, <2>2, <2>4, <2>5, <2>6, BeginInv
<1>4. CASE ChangePassword(r)
  <2>1. PICK id \in 1 .. nextId - 1, p \in Passwords, cur \in Passwords \cup {None} :
           Begin(r, "find", [NoReq EXCEPT !.op = "password", !.id = id, !.arg = p, !.cur = cur])
    BY <1>4 DEF ChangePassword
  <2>2. UNCHANGED promoted
    BY <1>4 DEF ChangePassword
  <2>3. DEFINE q == [NoReq EXCEPT !.op = "password", !.id = id, !.arg = p, !.cur = cur]
  <2>4. Begin(r, "find", q)
    BY <2>1
  <2>5. q \in Request
    BY <1>1, <2>1, <2>2
  <2>6. Fit("find", q)
    BY <1>1, <2>1, <2>2
  <2>7. QED  BY <1>1, <2>1, <2>2, <2>4, <2>5, <2>6, BeginInv
<1>5. CASE SetUserRole(r)
  <2>1. PICK id \in 1 .. nextId - 1, x \in Roles :
           /\ Begin(r, "find", [NoReq EXCEPT !.op = "role", !.id = id, !.arg = x])
           /\ promoted' = IF x = "admin" THEN promoted \cup {id} ELSE promoted
    BY <1>5 DEF SetUserRole
  <2>2. DEFINE q == [NoReq EXCEPT !.op = "role", !.id = id, !.arg = x]
  <2>3. Begin(r, "find", q)
    BY <2>1
  <2>4. q \in Request
    BY <1>1, <2>1
  <2>5. Fit("find", q)
    BY <1>1, <2>1
  <2>6. QED  BY <1>1, <2>1, <2>3, <2>4, <2>5, BeginInv
<1>6. CASE ForgotPassword(r)
  <2>1. PICK e \in Emails : Begin(r, "forgot_find", [NoReq EXCEPT !.op = "forgot", !.email = e])
    BY <1>6 DEF ForgotPassword
  <2>2. UNCHANGED promoted
    BY <1>6 DEF ForgotPassword
  <2>3. DEFINE q == [NoReq EXCEPT !.op = "forgot", !.email = e]
  <2>4. Begin(r, "forgot_find", q)
    BY <2>1
  <2>5. q \in Request
    BY <1>1, <2>1, <2>2
  <2>6. Fit("forgot_find", q)
    BY <1>1, <2>1, <2>2
  <2>7. QED  BY <1>1, <2>1, <2>2, <2>4, <2>5, <2>6, BeginInv
<1>7. CASE ResetPassword(r)
  <2>1. PICK t \in drawn, p \in Passwords :
           Begin(r, "reset_get", [NoReq EXCEPT !.op = "reset", !.tok = t, !.arg = p])
    BY <1>7 DEF ResetPassword
  <2>2. UNCHANGED promoted /\ t \in ResetTokens
    BY <1>7, <2>1 DEF ResetPassword, IInv, TypeOK
  <2>3. DEFINE q == [NoReq EXCEPT !.op = "reset", !.tok = t, !.arg = p]
  <2>4. Begin(r, "reset_get", q)
    BY <2>1
  <2>5. q \in Request
    BY <1>1, <2>1, <2>2
  <2>6. Fit("reset_get", q)
    BY <1>1, <2>1, <2>2
  <2>7. QED  BY <1>1, <2>1, <2>2, <2>4, <2>5, <2>6, BeginInv
<1>8. QED  BY <1>2, <1>3, <1>4, <1>5, <1>6, <1>7 DEF Arrive

-----------------------------------------------------------------------------
(* Steps that write no row.                                                *)

LEMMA QuietInv ==
    ASSUME IInv, NEW r \in Reqs,
           \A q \in Reqs \ {r} : /\ pc'[q] = pc[q] /\ req'[q] = req[q]
                                 /\ loc'[q] = loc[q] /\ hist'[q] = hist[q],
           UNCHANGED <<table, nextId, promoted>>, drawn \subseteq drawn',
           \A k \in keys' : k \in keys \/ k.tok \notin drawn,
           pc[r] \in {"reg_exists", "reg_create"}
              \/ pc'[r] \notin {"reg_exists", "reg_create"},
           TypeOK', Mine(r)'
    PROVE  IInv'
<1>1. Registering' \subseteq Registering
  BY DEF Registering
<1>2. IdsSound'
  BY <1>1, IdsKept DEF IInv
<1>3. EmailUnique' /\ AdminsWerePromoted'
  BY TableKept DEF IInv
<1>4. ASSUME NEW q \in Reqs \ {r} PROVE Mine(q)'
  <2>1. Passive(q)
    BY QuietPassive
  <2>2. QED  BY <2>1, PassiveKeeps, Parts
<1>5. QED  BY <1>2, <1>3, <1>4, PartsNext

\* A request that only moves on.
LEMMA MoveInv ==
    ASSUME IInv, NEW r \in Reqs, NEW to \in PC, pc' = [pc EXCEPT ![r] = to],
           UNCHANGED <<table, nextId, keys, drawn, outbox, promoted, req, loc, hist>>,
           \/ to = "denied"
           \/ to = "conflict" /\ req[r].op = "register" /\ hist[r].taken
           \/ to = "reg_create" /\ pc[r] = "reg_exists"
           \/ to = "ok" /\ req[r].op = "forgot",
           pc[r] # "idle"
    PROVE  IInv'
<1>1. TypeOK'
  BY DEF IInv, TypeOK
<1>2. pc'[r] = to /\ \A q \in Reqs \ {r} : pc'[q] = pc[q]
  BY DEF IInv, TypeOK
<1>3. Mine(r)
  BY Parts
<1>4. Shape(r)'
  BY <1>2, <1>3 DEF Mine, Shape
<1>5. CopySound(r)'
  BY <1>2, <1>3 DEF Mine, CopySound
<1>6. HistSound(r)'
  BY <1>2, <1>3 DEF Mine, HistSound, Taken, Live
<1>7. Mine(r)'
  BY <1>2, <1>3, <1>4, <1>5, <1>6 DEF Mine, Shape
<1>8. QED  BY <1>1, <1>2, <1>7, QuietInv

LEMMA FailInv ==
    ASSUME IInv, NEW r \in Reqs, NEW from \in PC \ {"idle"}, Fail(r, from)
    PROVE  IInv'
BY MoveInv DEF Fail, Goto, PC

LEMMA FinishInv == ASSUME IInv, NEW r \in Reqs, Finish(r) PROVE IInv'
<1>1. /\ pc' = [pc EXCEPT ![r] = "idle"]
      /\ req' = [req EXCEPT ![r] = NoReq]
      /\ loc' = [loc EXCEPT ![r] = NoLoc]
      /\ hist' = [hist EXCEPT ![r] = NoHist]
      /\ UNCHANGED <<table, nextId, keys, drawn, outbox, promoted>>
  BY DEF Finish
<1>2. NoReq \in Request
  BY DEF NoReq, Request, Op
<1>3. TypeOK'
  BY <1>1, <1>2 DEF IInv, TypeOK, PC, NoLoc, NoHist
<1>4. pc'[r] = "idle" /\ req'[r] = NoReq /\ loc'[r] = NoLoc /\ hist'[r] = NoHist
  BY <1>1 DEF IInv, TypeOK
<1>5. Mine(r)'
  BY <1>4 DEF Mine, Shape, CopySound, HistSound, NoReq, NoLoc, NoHist
<1>6. \A q \in Reqs \ {r} : /\ pc'[q] = pc[q] /\ req'[q] = req[q]
                            /\ loc'[q] = loc[q] /\ hist'[q] = hist[q]
  BY <1>1 DEF IInv, TypeOK
<1>7. QED  BY <1>1, <1>3, <1>4, <1>5, <1>6, QuietInv

LEMMA RegisterExistsInv == ASSUME IInv, NEW r \in Reqs, RegisterExists(r) PROVE IInv'
<1>1. PICK to \in {"conflict", "reg_create"} :
         /\ Goto(r, "reg_exists", to)
         /\ to = "conflict" => Taken(req[r].email)
  BY DEF RegisterExists
<1>2. UNCHANGED <<table, nextId, keys, drawn, outbox, promoted, req, loc, hist>>
  BY DEF RegisterExists
<1>3. req[r].op = "register" /\ (Taken(req[r].email) => hist[r].taken)
  BY <1>1 DEF Goto, IInv, Shape, HistSound
<1>4. QED  BY <1>1, <1>2, <1>3, MoveInv DEF Goto, PC

LEMMA FindInv == ASSUME IInv, NEW r \in Reqs, Find(r) PROVE IInv'
<1>1. CASE ~MayChange(r, loc[r].id)
  <2>1. /\ pc[r] = "find" /\ pc' = [pc EXCEPT ![r] = "denied"]
        /\ UNCHANGED <<table, nextId, keys, drawn, outbox, promoted, req, loc, hist>>
    BY <1>1 DEF Find, Goto
  <2>2. QED  BY <2>1, MoveInv DEF PC
<1>2. CASE MayChange(r, loc[r].id)
  <2>1. /\ pc[r] = "find" /\ pc' = [pc EXCEPT ![r] = "save"]
        /\ loc' = [loc EXCEPT ![r].row = table[loc[r].id]]
        /\ UNCHANGED <<table, nextId, keys, drawn, outbox, promoted, req, hist>>
    BY <1>2 DEF Find, Goto
  <2>2. Mine(r) /\ loc[r].id \in Ids /\ table[loc[r].id] # NoRow
    BY <1>2, <2>1, Parts DEF Mine, CopySound, MayChange, Live
  <2>3. TypeOK'
    BY <2>1, <2>2 DEF IInv, TypeOK, PC
  <2>4. /\ pc'[r] = "save" /\ loc'[r].id = loc[r].id /\ loc'[r].row = table[loc[r].id]
        /\ \A q \in Reqs \ {r} : pc'[q] = pc[q] /\ loc'[q] = loc[q]
    BY <2>1 DEF IInv, TypeOK
  <2>5. Shape(r)'
    BY <2>1, <2>2, <2>4 DEF Mine, Shape
  <2>6. CopySound(r)'
    BY <2>1, <2>2, <2>4 DEF Mine, CopySound, IInv, AdminsWerePromoted
  <2>7. HistSound(r)'
    BY <2>1, <2>2, <2>4 DEF Mine, HistSound, Taken, Live
  <2>8. Mine(r)'
    BY <2>1, <2>2, <2>4, <2>5, <2>6, <2>7 DEF Mine
  <2>9. QED  BY <2>1, <2>3, <2>4, <2>8, QuietInv
<1>3. QED  BY <1>1, <1>2

LEMMA ForgotFindInv == ASSUME IInv, NEW r \in Reqs, ForgotFind(r) PROVE IInv'
<1>1. CASE Goto(r, "forgot_find", "ok") /\ UNCHANGED loc
  <2>1. /\ pc[r] = "forgot_find" /\ pc' = [pc EXCEPT ![r] = "ok"]
        /\ UNCHANGED <<table, nextId, keys, drawn, outbox, promoted, req, loc, hist>>
    BY <1>1 DEF ForgotFind, Goto
  <2>2. req[r].op = "forgot"
    BY <2>1 DEF IInv, Shape
  <2>3. QED  BY <2>1, <2>2, MoveInv DEF PC
<1>2. CASE \E id \in Ids : /\ Live(id) /\ table[id].email = req[r].email
                           /\ Goto(r, "forgot_find", "forgot_set")
                           /\ loc' = [loc EXCEPT ![r] = [id |-> id, row |-> table[id]]]
  <2>1. PICK id \in Ids : /\ table[id] # NoRow
                          /\ pc[r] = "forgot_find" /\ pc' = [pc EXCEPT ![r] = "forgot_set"]
                          /\ loc' = [loc EXCEPT ![r] = [id |-> id, row |-> table[id]]]
    BY <1>2 DEF Live, Goto
  <2>2. UNCHANGED <<table, nextId, keys, drawn, outbox, promoted, req, hist>>
    BY DEF ForgotFind
  <2>3. Mine(r) /\ req[r].op = "forgot"
    BY <2>1, Parts DEF Mine, Shape
  <2>4. TypeOK'
    BY <2>1, <2>2 DEF IInv, TypeOK, PC
  <2>5. /\ pc'[r] = "forgot_set" /\ loc'[r].id = id /\ loc'[r].row = table[id]
        /\ \A q \in Reqs \ {r} : pc'[q] = pc[q] /\ loc'[q] = loc[q]
    BY <2>1 DEF IInv, TypeOK
  <2>6. Shape(r)'
    BY <2>2, <2>3, <2>5 DEF Mine, Shape
  <2>7. CopySound(r)'
    BY <2>1, <2>2, <2>3, <2>5 DEF Mine, CopySound, IInv, AdminsWerePromoted
  <2>8. HistSound(r)'
    BY <2>1, <2>2, <2>3, <2>5 DEF Mine, HistSound
  <2>9. Mine(r)'
    BY <2>2, <2>3, <2>5, <2>6, <2>7, <2>8 DEF Mine
  <2>10. QED  BY <2>2, <2>4, <2>5, <2>9, QuietInv
<1>3. QED  BY <1>1, <1>2 DEF ForgotFind

LEMMA ForgotSetInv == ASSUME IInv, NEW r \in Reqs, ForgotSet(r) PROVE IInv'
<1>1. PICK t \in ResetTokens \ drawn :
         LET key == [tok |-> t, id |-> loc[r].id]
             mail == [to |-> None, for |-> loc[r].row.email, tok |-> t]
         IN  /\ Goto(r, "forgot_set", "ok")
             /\ drawn' = drawn \cup {t}
             /\ keys' \in {keys, keys \cup {key}}
             /\ outbox' \in {outbox, outbox \cup {mail}}
             /\ UNCHANGED <<table, nextId, promoted, req, loc, hist>>
  BY DEF ForgotSet
<1>2. Mine(r) /\ pc[r] = "forgot_set" /\ pc' = [pc EXCEPT ![r] = "ok"]
  BY <1>1, Parts DEF Goto
<1>3. loc[r].id \in Ids /\ loc[r].row \in Row /\ req[r].op = "forgot"
  BY <1>2 DEF Mine, Shape, CopySound, IInv, TypeOK
<1>4. TypeOK'
  BY <1>1, <1>2, <1>3 DEF IInv, TypeOK, PC, Row, Mail
<1>5. pc'[r] = "ok" /\ \A q \in Reqs \ {r} : pc'[q] = pc[q]
  BY <1>2 DEF IInv, TypeOK
<1>6. drawn \subseteq drawn' /\ \A k \in keys' : k \in keys \/ k.tok \notin drawn
  BY <1>1
<1>7. Mine(r)'
  <2>1. ~hist[r].late
    BY <1>2, <1>3 DEF Mine, HistSound
  <2>2. Shape(r)'
    BY <1>1, <1>2, <1>3, <1>5 DEF Mine, Shape
  <2>3. CopySound(r)'
    BY <1>1, <1>2, <1>3, <1>5 DEF Mine, CopySound
  <2>4. HistSound(r)'
    BY <1>1, <1>3, <2>1 DEF HistSound
  <2>5. QED  BY <1>1, <1>3, <1>5, <2>2, <2>3, <2>4 DEF Mine
<1>8. QED  BY <1>1, <1>2, <1>4, <1>5, <1>6, <1>7, QuietInv

LEMMA ResetGetInv == ASSUME IInv, NEW r \in Reqs, ResetGet(r) PROVE IInv'
<1>1. PICK k \in keys : k.tok = req[r].tok /\ loc' = [loc EXCEPT ![r].id = k.id]
  BY DEF ResetGet
<1>2. /\ pc[r] = "reset_get" /\ pc' = [pc EXCEPT ![r] = "find"]
      /\ UNCHANGED <<table, nextId, keys, drawn, outbox, promoted, req, hist>>
  BY DEF ResetGet, Goto
<1>3. Mine(r) /\ k.id \in Ids
  BY Parts DEF IInv, TypeOK
<1>4. TypeOK'
  BY <1>1, <1>2, <1>3 DEF IInv, TypeOK, PC
<1>5. /\ pc'[r] = "find" /\ loc'[r].id = k.id /\ loc'[r].row = loc[r].row
      /\ \A q \in Reqs \ {r} : pc'[q] = pc[q] /\ loc'[q] = loc[q]
  BY <1>1, <1>2 DEF IInv, TypeOK
<1>6. req[r].op = "reset" /\ ~hist[r].late
  BY <1>1, <1>2, <1>3 DEF Mine, Shape, HistSound
<1>7. loc[r].row = NoRow
  BY <1>2, <1>3 DEF Mine, CopySound
<1>8. Shape(r)'
  BY <1>2, <1>3, <1>5, <1>6 DEF Mine, Shape
<1>9. CopySound(r)'
  BY <1>2, <1>3, <1>5, <1>6, <1>7 DEF CopySound
<1>10. HistSound(r)'
  BY <1>2, <1>6 DEF HistSound
<1>11. Mine(r)'
  BY <1>2, <1>5, <1>6, <1>8, <1>9, <1>10 DEF Mine
<1>12. QED  BY <1>2, <1>4, <1>5, <1>11, QuietInv

LEMMA ResetDelInv == ASSUME IInv, NEW r \in Reqs, ResetDel(r) PROVE IInv'
<1>1. /\ pc[r] = "reset_del" /\ pc' = [pc EXCEPT ![r] = "ok"]
      /\ UNCHANGED <<table, nextId, drawn, outbox, promoted, req, loc>>
  BY DEF ResetDel, Goto
<1>2. DEFINE left == {k \in keys : k.tok # req[r].tok}
<1>3. \/ keys' = left /\ hist' = hist
      \/ keys' \in {left, keys} /\ hist' = [hist EXCEPT ![r].err = TRUE]
  BY DEF ResetDel
<1>4. Mine(r) /\ req[r].op = "reset"
  BY <1>1, Parts DEF Mine, Shape
<1>5. keys' \subseteq keys
  BY <1>3
<1>6. hist' \in [Reqs -> [taken : BOOLEAN, late : BOOLEAN, stale : BOOLEAN, err : BOOLEAN]]
  <2> DEFINE H == [taken : BOOLEAN, late : BOOLEAN, stale : BOOLEAN, err : BOOLEAN]
  <2>1. hist \in [Reqs -> H]
    BY DEF IInv, TypeOK
  <2>2. hist[r] \in H
    BY <2>1
  <2>3. [hist[r] EXCEPT !.err = TRUE] \in H
    BY <2>2
  <2>4. hist' = hist \/ hist' = [hist EXCEPT ![r] = [hist[r] EXCEPT !.err = TRUE]]
    BY <1>3
  <2> HIDE DEF H
  <2>5. hist' \in [Reqs -> H]
    BY <2>1, <2>3, <2>4
  <2>6. QED  BY <2>5 DEF H
<1>7. /\ hist'[r].late = hist[r].late /\ hist'[r].taken = hist[r].taken
      /\ hist'[r].err \/ keys' = left
      /\ \A q \in Reqs \ {r} : hist'[q] = hist[q]
  BY <1>3 DEF IInv, TypeOK
<1>8. TypeOK'
  BY <1>1, <1>5, <1>6 DEF IInv, TypeOK, PC
<1>9. pc'[r] = "ok" /\ \A q \in Reqs \ {r} : pc'[q] = pc[q]
  BY <1>1 DEF IInv, TypeOK
<1>10. ~hist[r].late
  BY <1>1, <1>4 DEF Mine
<1>11. Shape(r)'
  BY <1>1, <1>4, <1>9 DEF Mine, Shape
<1>12. CopySound(r)'
  BY <1>1, <1>4, <1>9 DEF Mine, CopySound
<1>13. HistSound(r)'
  BY <1>1, <1>4, <1>7, <1>10 DEF HistSound
<1>14. Mine(r)'
  BY <1>1, <1>4, <1>7, <1>9, <1>10, <1>11, <1>12, <1>13 DEF Mine
<1>15. QED  BY <1>1, <1>5, <1>7, <1>8, <1>9, <1>14, QuietInv

-----------------------------------------------------------------------------
(* Steps that write a row.                                                 *)

\* E-mails stay unique if the index was asked, or the row was live and keeps its own.
LEMMA WriteUnique ==
    ASSUME TypeOK, EmailUnique, NEW id \in Ids, NEW new \in Row,
           table'[id] = new, \A other \in Ids \ {id} : table'[other] = table[other],
           IndexAllows(id, new) \/ (Live(id) /\ table[id].email = new.email)
    PROVE  EmailUnique'
BY DEF EmailUnique, IndexAllows, Live

LEMMA RegisterCreateInv == ASSUME IInv, NEW r \in Reqs, RegisterCreate(r) PROVE IInv'
<1>1. PICK n \in Names :
         LET new == [email |-> req[r].email, password |-> req[r].arg, name |-> n,
                     role |-> "user", deleted |-> FALSE]
         IN  \/ /\ IndexAllows(nextId, new)
                /\ Write(r, nextId, new)
                /\ \/ /\ Goto(r, "reg_create", "ok")
                      /\ outbox' = outbox \cup {[to |-> new.email, for |-> new.email,
                                                 tok |-> None]}
                   \/ Goto(r, "reg_create", "denied") /\ UNCHANGED outbox
             \/ /\ ~IndexAllows(nextId, new)
                /\ Goto(r, "reg_create", "conflict")
                /\ UNCHANGED <<table, hist, outbox>>
  BY DEF RegisterCreate
<1>2. DEFINE new == [email |-> req[r].email, password |-> req[r].arg, name |-> n,
                     role |-> "user", deleted |-> FALSE]
<1>3. /\ pc[r] = "reg_create" /\ nextId' = nextId + 1
      /\ UNCHANGED <<keys, drawn, promoted, req, loc>>
  BY DEF RegisterCreate
<1>4. Mine(r) /\ TypeOK /\ IdsSound /\ EmailUnique /\ AdminsWerePromoted
  BY Parts
<1>5. /\ req[r].op = "register" /\ req[r].email \in Emails /\ new \in Row
      /\ loc[r].row = NoRow
  BY <1>3, <1>4, RolesAssumption DEF Mine, Shape, CopySound, Row
<1>6. nextId \in Ids /\ table[nextId] = NoRow
      /\ nextId + Cardinality(Registering) <= MaxRows + 1 /\ Cardinality(Registering) \in Nat
  <2>1. r \in Registering
    BY <1>3 DEF Registering
  <2>2. Cardinality(Registering) # 0
    BY <2>1, RegisteringFinite, FS_EmptySet
  <2>3. nextId \in Ids
    BY <1>4, <2>2, RegisteringFinite, RowsAssumption DEF IdsSound, TypeOK, Ids
  <2>4. QED  BY <1>4, <2>3, RegisteringFinite, RowsAssumption DEF IdsSound, Ids
<1>7. PICK to \in {"ok", "conflict", "denied"} : pc' = [pc EXCEPT ![r] = to]
  BY <1>1 DEF Goto
<1>8. pc'[r] = to /\ \A q \in Reqs \ {r} : pc'[q] = pc[q]
  BY <1>4, <1>7 DEF TypeOK
<1>9. nextId' + Cardinality(Registering') <= MaxRows + 1 /\ nextId' \in 1 .. MaxRows + 1
  <2>1. Cardinality(Registering') = Cardinality(Registering) - 1
    BY <1>3, <1>4, <1>7, RegisteringShrinks
  <2>2. nextId \in Int
    BY <1>6 DEF Ids
  <2>3. QED  BY <1>3, <1>6, <2>1, <2>2, RowsAssumption DEF Ids
<1>10. CASE UNCHANGED <<table, hist, outbox>> /\ ~IndexAllows(nextId, new) /\ to = "conflict"
  <2>1. hist[r].taken
    <3>1. Taken(req[r].email)
      BY <1>10 DEF IndexAllows, Taken
    <3>2. QED  BY <1>3, <1>4, <1>5, <3>1 DEF Mine, HistSound
  <2>2. TypeOK'
    BY <1>3, <1>4, <1>7, <1>9, <1>10 DEF TypeOK, PC
  <2>3. IdsSound'
    BY <1>3, <1>4, <1>6, <1>9, <1>10 DEF IdsSound, Ids
  <2>4. EmailUnique' /\ AdminsWerePromoted'
    BY <1>3, <1>4, <1>10, TableKept
  <2>5. ASSUME NEW q \in Reqs \ {r} PROVE Mine(q)'
    <3>1. Passive(q)
      BY <1>3, <1>8, <1>10, QuietPassive
    <3>2. QED  BY <3>1, PassiveKeeps, Parts
  <2>6. Mine(r)'
    BY <1>3, <1>4, <1>5, <1>8, <1>10, <2>1
       DEF Mine, Shape, CopySound, HistSound, Taken, Live
  <2>7. QED  BY <2>2, <2>3, <2>4, <2>5, <2>6, PartsNext
<1>11. CASE /\ IndexAllows(nextId, new) /\ Write(r, nextId, new) /\ to # "conflict"
            /\ outbox' \subseteq outbox \cup {[to |-> new.email, for |-> new.email, tok |-> None]}
  <2>1. /\ table' \in [Ids -> Row \cup {NoRow}]
        /\ table'[nextId] = new
        /\ \A other \in Ids \ {nextId} : table'[other] = table[other]
        /\ RowsKept
        /\ \A q \in Reqs :
              /\ hist'[q] \in [taken : BOOLEAN, late : BOOLEAN, stale : BOOLEAN, err : BOOLEAN]
              /\ hist'[q].late = hist[q].late /\ hist'[q].err = hist[q].err
        /\ hist[r].taken => hist'[r].taken
        /\ hist'[r].taken
    BY <1>3, <1>4, <1>5, <1>6, <1>11, WriteEffect, Parts
  <2>2. TypeOK'
    <3>1. hist' \in [Reqs -> [taken : BOOLEAN, late : BOOLEAN, stale : BOOLEAN, err : BOOLEAN]]
      BY <1>11, <2>1 DEF Write
    <3>2. outbox' \subseteq Mail
      BY <1>4, <1>5, <1>11 DEF TypeOK, Mail
    <3>3. pc' \in [Reqs -> PC]
      BY <1>4, <1>7 DEF TypeOK, PC
    <3>4. QED  BY <1>3, <1>4, <1>9, <2>1, <3>1, <3>2, <3>3 DEF TypeOK
  <2>3. IdsSound'
    BY <1>3, <1>4, <1>6, <1>9, <2>1 DEF IdsSound, Ids
  <2>4. EmailUnique'
    BY <1>4, <1>5, <1>6, <1>11, <2>1, WriteUnique
  <2>5. AdminsWerePromoted'
    BY <1>3, <1>4, <2>1 DEF AdminsWerePromoted
  <2>6. ASSUME NEW q \in Reqs \ {r} PROVE Mine(q)'
    <3>1. Passive(q)
      BY <1>3, <1>4, <1>5, <1>6, <1>8, <1>11, WritePassive, Parts
    <3>2. QED  BY <3>1, PassiveKeeps, Parts
  <2>7. Mine(r)'
    <3>1. Shape(r)'
      BY <1>3, <1>4, <1>8, <1>11 DEF Mine, Shape
    <3>2. CopySound(r)'
      BY <1>3, <1>5, <1>8, <1>11 DEF CopySound
    <3>3. HistSound(r)'
      BY <1>3, <1>4, <2>1 DEF Mine, HistSound
    <3>4. QED  BY <1>3, <1>5, <1>8, <1>11, <3>1, <3>2, <3>3 DEF Mine
  <2>8. QED  BY <2>2, <2>3, <2>4, <2>5, <2>6, <2>7, PartsNext
<1>12. QED
  <2>1. pc' = [pc EXCEPT ![r] = "conflict"] => to = "conflict"
    BY <1>4, <1>7, <1>8 DEF TypeOK
  <2>2. pc' = [pc EXCEPT ![r] = "ok"] \/ pc' = [pc EXCEPT ![r] = "denied"] => to # "conflict"
    BY <1>4, <1>7, <1>8 DEF TypeOK
  <2>3. QED  BY <1>1, <1>10, <1>11, <2>1, <2>2 DEF Goto

\* What a handler is about to save: a row, with the e-mail it read and a role it may write.
LEMMA ChangedRow ==
    ASSUME IInv, NEW r \in Reqs, pc[r] = "save"
    PROVE  /\ Changed(r) \in Row
           /\ Changed(r).email = loc[r].row.email
           /\ Changed(r).role = "admin" => loc[r].id \in promoted
<1>1. /\ req[r].op \in {"profile", "password", "role", "reset"}
      /\ req[r].op = "profile" => req[r].arg \in Names
      /\ req[r].op = "role" => req[r].arg \in Roles
      /\ req[r].op \in {"password", "reset"} => req[r].arg \in Passwords
  BY DEF IInv, Shape
<1>2. /\ loc[r].row \in Row
      /\ loc[r].row.role = "admin" => loc[r].id \in promoted
      /\ (req[r].op = "role" /\ req[r].arg = "admin") => loc[r].id \in promoted
  BY DEF IInv, CopySound, TypeOK
<1>3. CASE req[r].op = "profile"
  BY <1>1, <1>2, <1>3 DEF Changed, Row
<1>4. CASE req[r].op = "role"
  BY <1>1, <1>2, <1>4 DEF Changed, Row
<1>5. CASE req[r].op \in {"password", "reset"}
  BY <1>1, <1>2, <1>5 DEF Changed, Row
<1>6. QED  BY <1>1, <1>3, <1>4, <1>5

LEMMA SaveInv == ASSUME IInv, NEW r \in Reqs, Save(r) PROVE IInv'
<1>1. DEFINE id == loc[r].id
             new == Changed(r)
<1>2. /\ pc[r] = "save"
      /\ UNCHANGED <<nextId, keys, drawn, outbox, promoted, req, loc>>
      /\ \/ /\ Live(id) \/ IndexAllows(id, new)
            /\ Write(r, id, new)
            /\ \/ Goto(r, "save", IF req[r].op = "reset" THEN "reset_del" ELSE "ok")
               \/ Goto(r, "save", "denied")
         \/ Goto(r, "save", "denied") /\ UNCHANGED <<table, hist>>
  BY DEF Save
<1>3. Mine(r) /\ TypeOK /\ IdsSound /\ EmailUnique /\ AdminsWerePromoted
  BY Parts
<1>4. /\ id \in Ids /\ table[id] # NoRow /\ loc[r].row # NoRow
      /\ new \in Row /\ new.email = table[id].email
      /\ new.role = "admin" => id \in promoted
  BY <1>2, <1>3, ChangedRow DEF Mine, CopySound
<1>5. CASE Goto(r, "save", "denied") /\ UNCHANGED <<table, hist>>
  BY <1>2, <1>5, MoveInv DEF Goto, PC
<1>6. CASE /\ Live(id) \/ IndexAllows(id, new)
           /\ Write(r, id, new)
           /\ \/ Goto(r, "save", IF req[r].op = "reset" THEN "reset_del" ELSE "ok")
              \/ Goto(r, "save", "denied")
  <2>1. PICK to \in {"reset_del", "ok", "denied"} :
           /\ pc' = [pc EXCEPT ![r] = to]
           /\ to = "reset_del" => req[r].op = "reset"
           /\ to = "ok" => req[r].op # "reset"
    BY <1>6 DEF Goto
  <2>2. pc'[r] = to /\ \A q \in Reqs \ {r} : pc'[q] = pc[q]
    BY <1>3, <2>1 DEF TypeOK
  <2>3. /\ table' \in [Ids -> Row \cup {NoRow}]
        /\ table'[id] = new
        /\ \A other \in Ids \ {id} : table'[other] = table[other]
        /\ RowsKept
        /\ \A q \in Reqs :
              /\ hist'[q] \in [taken : BOOLEAN, late : BOOLEAN, stale : BOOLEAN, err : BOOLEAN]
              /\ hist'[q].late = hist[q].late
    BY <1>4, <1>6, WriteEffect, Parts
  <2>4. TypeOK'
    <3>1. hist' \in [Reqs -> [taken : BOOLEAN, late : BOOLEAN, stale : BOOLEAN, err : BOOLEAN]]
      BY <1>6, <2>3 DEF Write
    <3>2. pc' \in [Reqs -> PC]
      BY <1>3, <2>1 DEF TypeOK, PC
    <3>3. QED  BY <1>2, <1>3, <2>3, <3>1, <3>2 DEF TypeOK
  <2>5. IdsSound'
    <3>1. Registering' \subseteq Registering
      BY <2>2 DEF Registering
    <3>2. QED  BY <1>2, <1>3, <1>4, <2>3, <3>1, IdsKept
  <2>6. EmailUnique'
    BY <1>3, <1>4, <1>6, <2>3, WriteUnique
  <2>7. AdminsWerePromoted'
    BY <1>2, <1>3, <1>4, <2>3 DEF AdminsWerePromoted
  <2>8. ASSUME NEW q \in Reqs \ {r} PROVE Mine(q)'
    <3>1. Passive(q)
      BY <1>2, <1>3, <1>4, <1>6, <2>2, WritePassive, Parts
    <3>2. QED  BY <3>1, PassiveKeeps, Parts
  <2>9. Mine(r)'
    <3>1. Shape(r)'
      BY <1>2, <1>3, <2>1, <2>2 DEF Mine, Shape
    <3>2. CopySound(r)'
      BY <1>2, <1>3, <1>4, <2>2, <2>3, NoRowAssumption DEF Mine, CopySound, RowsKept
    <3>3. ~hist[r].late /\ req[r].op # "register"
      BY <1>2, <1>3 DEF Mine, HistSound, Shape
    <3>4. HistSound(r)'
      BY <1>2, <2>3, <3>3 DEF HistSound
    <3>5. QED  BY <1>2, <2>1, <2>2, <2>3, <3>1, <3>2, <3>3, <3>4 DEF Mine
  <2>10. QED  BY <2>4, <2>5, <2>6, <2>7, <2>8, <2>9, PartsNext
<1>7. QED  BY <1>2, <1>5, <1>6

LEMMA DeleteInv == ASSUME IInv, NEW id \in Ids, Delete(id) PROVE IInv'
<1>1. /\ Live(id)
      /\ table' = [table EXCEPT ![id].deleted = TRUE]
      /\ hist' = [q \in Reqs |-> IF loc[q].id = id /\ loc[q].row # NoRow
                                 THEN [hist[q] EXCEPT !.stale = TRUE] ELSE hist[q]]
      /\ UNCHANGED <<nextId, keys, drawn, outbox, promoted, pc, req, loc>>
  BY DEF Delete
<1>2. TypeOK /\ IdsSound /\ EmailUnique /\ AdminsWerePromoted
  BY Parts
<1>3. /\ table' \in [Ids -> Row \cup {NoRow}]
      /\ table'[id] \in Row /\ table'[id].deleted
      /\ table'[id].email = table[id].email /\ table'[id].role = table[id].role
      /\ \A other \in Ids \ {id} : table'[other] = table[other]
  <2>1. table[id] \in Row
    BY <1>1, <1>2 DEF TypeOK, Live
  <2>2. table'[id] = [table[id] EXCEPT !.deleted = TRUE]
    BY <1>1, <1>2 DEF TypeOK
  <2>3. QED  BY <1>1, <1>2, <2>1, <2>2 DEF TypeOK, Row
<1>4. ASSUME NEW q \in Reqs
      PROVE  /\ hist'[q] \in [taken : BOOLEAN, late : BOOLEAN, stale : BOOLEAN, err : BOOLEAN]
             /\ hist'[q].late = hist[q].late /\ hist'[q].err = hist[q].err
             /\ hist'[q].taken = hist[q].taken
             /\ hist[q].stale => hist'[q].stale
             /\ (loc[q].row # NoRow /\ ~hist'[q].stale) => loc[q].id # id
  <2>1. hist[q] \in [taken : BOOLEAN, late : BOOLEAN, stale : BOOLEAN, err : BOOLEAN]
    BY <1>2 DEF TypeOK
  <2>2. hist'[q] = IF loc[q].id = id /\ loc[q].row # NoRow
                   THEN [hist[q] EXCEPT !.stale = TRUE] ELSE hist[q]
    BY <1>1
  <2>3. QED  BY <2>1, <2>2
<1>5. TypeOK'
  <2>1. hist' \in [Reqs -> [taken : BOOLEAN, late : BOOLEAN, stale : BOOLEAN, err : BOOLEAN]]
    BY <1>1, <1>4
  <2>2. QED  BY <1>1, <1>2, <1>3, <2>1 DEF TypeOK
<1>6. IdsSound'
  <2>1. Registering' = Registering
    BY <1>1 DEF Registering
  <2>2. QED  BY <1>1, <1>2, <1>3, <2>1, IdsKept DEF Live
<1>7. EmailUnique' /\ AdminsWerePromoted'
  BY <1>1, <1>2, <1>3 DEF EmailUnique, AdminsWerePromoted, Live
<1>8. ASSUME NEW q \in Reqs PROVE Mine(q)'
  <2>1. RowsKept
    BY <1>1, <1>3, NoRowAssumption DEF RowsKept
  <2>2. (pc[q] # "idle" /\ Taken(req[q].email)') => Taken(req[q].email)
    BY <1>1, <1>3 DEF Taken, Live
  <2>3. (loc[q].row # NoRow /\ ~hist'[q].stale) => table'[loc[q].id] = table[loc[q].id]
    <3>1. loc[q].row # NoRow => loc[q].id \in Ids
      BY DEF IInv, CopySound
    <3>2. QED  BY <1>3, <1>4, <3>1
  <2>4. Passive(q)
    BY <1>1, <1>4, <2>1, <2>2, <2>3 DEF Passive
  <2>5. QED  BY <2>4, PassiveKeeps, Parts
<1>9. QED  BY <1>5, <1>6, <1>7, <1>8, PartsNext

-----------------------------------------------------------------------------

\* Steps of the environment that only take keys and mails away, and stuttering.
LEMMA LessInv ==
    ASSUME IInv, keys' \subseteq keys, outbox' \subseteq outbox,
           UNCHANGED <<table, nextId, drawn, promoted, pc, req, loc, hist>>
    PROVE  IInv'
<1>1. TypeOK'
  BY DEF IInv, TypeOK
<1>2. IdsSound'
  BY IdsKept DEF IInv, Registering
<1>3. EmailUnique' /\ AdminsWerePromoted'
  BY TableKept DEF IInv
<1>4. ASSUME NEW q \in Reqs PROVE Mine(q)'
  BY QuietPassive, PassiveKeeps, Parts
<1>5. QED  BY <1>1, <1>2, <1>3, <1>4, PartsNext

LEMMA NextInv == IInv /\ [Next]_vars => IInv'
<1> SUFFICES ASSUME IInv, [Next]_vars PROVE IInv'
  OBVIOUS
<1>1. CASE Environment
  <2>1. CASE Expire
    BY <2>1, LessInv DEF Expire
  <2>2. CASE SendMail
    BY <2>2, LessInv DEF SendMail
  <2>3. CASE \E id \in Ids : Delete(id)
    BY <2>3, DeleteInv
  <2>4. QED  BY <1>1, <2>1, <2>2, <2>3 DEF Environment
<1>2. ASSUME NEW r \in Reqs, Serve(r) PROVE IInv'
  <2>1. CASE RegisterFails(r) \/ FindFails(r) \/ SaveFails(r) \/ ResetGetFails(r)
    BY <2>1, FailInv DEF RegisterFails, FindFails, SaveFails, ResetGetFails, PC
  <2>2. QED  BY <1>2, <2>1, RegisterExistsInv, RegisterCreateInv, FindInv, SaveInv,
                 ForgotFindInv, ForgotSetInv, ResetGetInv, ResetDelInv DEF Serve
<1>3. CASE UNCHANGED vars
  BY <1>3, LessInv DEF vars
<1>4. QED  BY <1>1, <1>2, <1>3, ArriveInv, FinishInv DEF Next

-----------------------------------------------------------------------------
(* The theorems.                                                           *)

\* The inductive invariant holds in every state.
THEOREM Invariance == Spec => []IInv
BY InitInv, NextInv, PTL DEF Spec

\* No two rows that are not deleted have one e-mail, whatever overlaps.
THEOREM EmailUniqueHolds == Spec => []EmailUnique
<1>1. IInv => EmailUnique
  BY DEF IInv
<1>2. QED  BY <1>1, Invariance, PTL

\* A registration is refused as a conflict only if its e-mail was somebody's meanwhile.
THEOREM ConflictIsRealHolds == Spec => []ConflictIsReal
<1>1. IInv => ConflictIsReal
  BY DEF IInv
<1>2. QED  BY <1>1, Invariance, PTL

\* Saves of old copies make nobody an administrator.
THEOREM AdminsWerePromotedHolds == Spec => []AdminsWerePromoted
<1>1. IInv => AdminsWerePromoted
  BY DEF IInv
<1>2. QED  BY <1>1, Invariance, PTL

\* A reset without a stored key when it arrived gets to no row.
THEOREM ResetNeedsKeyHolds == Spec => []ResetNeedsKey
<1>1. IInv => ResetNeedsKey
  BY DEF IInv
<1>2. QED  BY <1>1, Invariance, PTL

\* A reset answered with success has used its token up, unless Redis complained.
THEOREM ResetSpendsTokenHolds == Spec => []ResetSpendsToken
<1>1. IInv => ResetSpendsToken
  BY DEF IInv
<1>2. QED  BY <1>1, Invariance, PTL

\* Only the save of r itself takes r past "save" while it changes the table.
LEMMA OnlySave ==
    ASSUME IInv, [Next]_vars, NEW r \in Reqs,
           pc[r] = "save", pc'[r] # "save", table' # table
    PROVE  Save(r)
<1>1. ~Environment /\ ~UNCHANGED vars
  BY DEF Environment, Expire, SendMail, Delete, vars
<1>2. ASSUME NEW q \in Reqs PROVE ~Arrive(q) /\ ~Finish(q)
  BY DEF Arrive, Register, UpdateProfile, ChangePassword, SetUserRole, ForgotPassword,
         ResetPassword, Begin, Finish
<1>3. PICK q \in Reqs : Serve(q)
  BY <1>1, <1>2 DEF Next
<1>4. CASE RegisterCreate(q)
  <2>1. q # r
    BY <1>4 DEF RegisterCreate
  <2>2. pc'[r] = pc[r]
    BY <1>4, <2>1 DEF RegisterCreate, Goto, IInv, TypeOK
  <2>3. QED  BY <2>2
<1>5. CASE Save(q) /\ q # r
  <2>1. pc'[r] = pc[r]
    BY <1>5 DEF Save, Goto, IInv, TypeOK
  <2>2. QED  BY <2>1
<1>6. CASE ~RegisterCreate(q) /\ ~Save(q)
  BY <1>3, <1>6 DEF Serve, RegisterExists, RegisterFails, Fail, Find, FindFails, SaveFails,
       ForgotFind, ForgotSet, ResetGet, ResetGetFails, ResetDel
<1>7. QED  BY <1>4, <1>5, <1>6

\* A save changes columns of other operations only if another write of its row came
\* between its read and its save.
THEOREM LostUpdateNeedsOverlapHolds == Spec => LostUpdateNeedsOverlap
<1>1. IInv /\ [Next]_vars => [\A r \in Reqs : hist[r].stale \/ SavesOwnColumn(r)]_vars
  <2> SUFFICES ASSUME IInv, [Next]_vars, NEW r \in Reqs, ~hist[r].stale,
                      pc[r] = "save", pc'[r] # "save", table' # table
               PROVE  \A c \in Columns \ OwnColumn(req[r].op) :
                         table'[loc[r].id][c] = table[loc[r].id][c]
    BY DEF SavesOwnColumn
  <2>1. Save(r)
    BY OnlySave
  <2>2. table' = [table EXCEPT ![loc[r].id] = Changed(r)]
    BY <2>1 DEF Save, Write
  <2>3. /\ loc[r].id \in Ids /\ loc[r].row \in Row /\ table[loc[r].id] = loc[r].row
        /\ req[r].op \in {"profile", "password", "role", "reset"}
    BY DEF IInv, Shape, CopySound, TypeOK
  <2>4. table'[loc[r].id] = Changed(r)
    BY <2>2, <2>3 DEF IInv, TypeOK
  <2>5. ASSUME NEW c \in Columns \ OwnColumn(req[r].op)
        PROVE  Changed(r)[c] = loc[r].row[c]
    <3>1. CASE req[r].op = "profile"
      BY <2>3, <2>5, <3>1 DEF Changed, Row, Columns, OwnColumn
    <3>2. CASE req[r].op = "role"
      BY <2>3, <2>5, <3>2 DEF Changed, Row, Columns, OwnColumn
    <3>3. CASE req[r].op \in {"password", "reset"}
      BY <2>3, <2>5, <3>3 DEF Changed, Row, Columns, OwnColumn
    <3>4. QED  BY <2>3, <3>1, <3>2, <3>3
  <2>6. QED  BY <2>3, <2>4, <2>5
<1>2. QED  BY <1>1, Invariance, PTL DEF Spec, LostUpdateNeedsOverlap

\* A mailed link holds a token that is stored, for the row of the user it is for.
THEOREM ResetLinkIsStoredHolds == Spec => ResetLinkIsStored
<1>1. DEFINE Stored == \A m \in outbox' \ outbox :
                          m.tok # None => \E k \in keys' : k.tok = m.tok /\ table[k.id].email = m.for
<1>2. IInv /\ [Next]_vars => [Stored]_vars
  <2> SUFFICES ASSUME IInv, [Next]_vars, NEW m \in outbox' \ outbox, m.tok # None
               PROVE  \E k \in keys' : k.tok = m.tok /\ table[k.id].email = m.for
    OBVIOUS
  <2>1. ~Environment /\ ~UNCHANGED vars
    BY DEF Environment, Expire, SendMail, Delete, vars
  <2>2. ASSUME NEW r \in Reqs PROVE ~Arrive(r) /\ ~Finish(r)
    BY DEF Arrive, Register, UpdateProfile, ChangePassword, SetUserRole, ForgotPassword,
           ResetPassword, Begin, Finish
  <2>3. PICK r \in Reqs : Serve(r)
    BY <2>1, <2>2 DEF Next
  <2>4. ~RegisterCreate(r)
    <3>1. RegisterCreate(r) =>
             outbox' \subseteq outbox \cup {[to |-> req[r].email, for |-> req[r].email, tok |-> None]}
      BY DEF RegisterCreate
    <3>2. QED  BY <3>1
  <2>5. ForgotSet(r)
    BY <2>3, <2>4 DEF Serve, RegisterExists, RegisterFails, Fail, Find, FindFails, Save,
         SaveFails, ForgotFind, ResetGet, ResetGetFails, ResetDel
  <2>6. PICK t \in ResetTokens \ drawn :
           /\ keys' = keys \cup {[tok |-> t, id |-> loc[r].id]}
           /\ m = [to |-> None, for |-> loc[r].row.email, tok |-> t]
    BY <2>5 DEF ForgotSet
  <2>7. table[loc[r].id].email = loc[r].row.email
    BY <2>5 DEF ForgotSet, Goto, IInv, CopySound
  <2>8. DEFINE key == [tok |-> t, id |-> loc[r].id]
  <2>9. key \in keys' /\ key.tok = m.tok /\ table[key.id].email = m.for
    BY <2>6, <2>7
  <2>10. QED  BY <2>9
<1>3. QED  BY <1>2, Invariance, PTL DEF Spec, ResetLinkIsStored

-----------------------------------------------------------------------------
(* The refinement of Directory.                                            *)

Signing == {"reg_exists", "reg_create", "conflict"}

\* What Directory sees of a request stays, if the request stays where it was or is none
\* that asks for an account, before or after.
LEMMA SignupStays ==
    ASSUME NEW r \in Reqs,
           \/ /\ pc[r] \notin Signing /\ pc'[r] \notin Signing
           \/ /\ pc'[r] = pc[r] /\ req'[r] = req[r] /\ hist'[r].taken = hist[r].taken
           \/ /\ {pc[r], pc'[r]} \subseteq {"reg_exists", "reg_create"}
              /\ req'[r] = req[r] /\ hist'[r].taken = hist[r].taken
    PROVE  DirSignup'[r] = DirSignup[r]
BY DEF DirSignup, Signing

LEMMA SignupFunction ==
    /\ DOMAIN DirSignup = Reqs
    /\ DirSignup = [q \in Reqs |-> DirSignup[q]]
    /\ DirSignup' = [q \in Reqs |-> DirSignup'[q]]
BY DEF DirSignup

\* Steps of a request that Directory does not see.
LEMMA Unseen ==
    ASSUME NEW r \in Reqs, UNCHANGED <<table, promoted>>,
           pc[r] \notin Signing, pc'[r] \notin Signing,
           \A q \in Reqs \ {r} : pc'[q] = pc[q] /\ req'[q] = req[q] /\ hist'[q] = hist[q]
    PROVE  UNCHANGED <<table, promoted, DirSignup>>
<1>1. \A q \in Reqs : DirSignup'[q] = DirSignup[q]
  BY SignupStays
<1>2. QED  BY <1>1, SignupFunction

\* Begin: a registration asks, the others are not seen.
LEMMA BeginDir ==
    ASSUME IInv, NEW r \in Reqs, NEW at, NEW q, Begin(r, at, q),
           at = "reg_exists" => q.email \in Emails, at \notin {"reg_create", "conflict"}
    PROVE  /\ table' = table
           /\ at = "reg_exists" /\ promoted' = promoted => Promise!Ask(r)
           /\ at # "reg_exists" => DirSignup' = DirSignup
<1>1. /\ pc[r] = "idle" /\ pc' = [pc EXCEPT ![r] = at] /\ req' = [req EXCEPT ![r] = q]
      /\ hist' = [hist EXCEPT ![r] = [taken |-> \E e \in Emails : e = q.email /\ Taken(e),
                                      late |-> q.op = "reset" /\ \A k \in keys : k.tok # q.tok,
                                      stale |-> FALSE, err |-> FALSE]]
      /\ table' = table
  BY DEF Begin, Goto
<1>2. pc \in [Reqs -> PC] /\ req \in [Reqs -> Request] /\ DOMAIN hist = Reqs
  BY DEF IInv, TypeOK
<1>3. \A p \in Reqs \ {r} : DirSignup'[p] = DirSignup[p]
  BY <1>1, <1>2, SignupStays
<1>4. CASE at = "reg_exists"
  <2> DEFINE asked == [state |-> "asked", email |-> q.email,
                       claimed |-> \E id \in Ids : Promise!HasEmail(id, q.email)]
  <2>1. (\E e \in Emails : e = q.email /\ Taken(e)) <=> \E id \in Ids : Promise!HasEmail(id, q.email)
    BY <1>4 DEF Taken, Live, Promise!HasEmail
  <2>2. pc'[r] = "reg_exists" /\ req'[r] = q
          /\ hist'[r].taken = \E id \in Ids : Promise!HasEmail(id, q.email)
    BY <1>1, <1>2, <1>4, <2>1
  <2>3. DirSignup'[r] = asked
    BY <2>2 DEF DirSignup
  <2>4. DirSignup[r].state = "none"
    BY <1>1 DEF DirSignup
  <2>5. DirSignup' = [DirSignup EXCEPT ![r] = asked]
    BY <1>3, <2>3, SignupFunction
  <2>6. QED  BY <1>1, <1>4, <2>4, <2>5 DEF Promise!Ask
<1>5. CASE at # "reg_exists"
  <2>1. pc[r] \notin Signing /\ pc'[r] \notin Signing
    BY <1>1, <1>2, <1>5 DEF Signing
  <2>2. DirSignup'[r] = DirSignup[r]
    BY <2>1, SignupStays
  <2>3. QED  BY <1>1, <1>3, <1>5, <2>2, SignupFunction
<1>6. QED  BY <1>4, <1>5

LEMMA ArriveDir ==
    ASSUME IInv, NEW r \in Reqs, Arrive(r)
    PROVE  Promise!Next \/ UNCHANGED <<table, promoted, DirSignup>>
<1>1. CASE Register(r)
  <2>1. PICK e \in Emails, p \in Passwords :
           Begin(r, "reg_exists", [NoReq EXCEPT !.op = "register", !.email = e, !.arg = p])
    BY <1>1 DEF Register
  <2>2. [NoReq EXCEPT !.op = "register", !.email = e, !.arg = p].email = e
    BY DEF NoReq
  <2>3. promoted' = promoted
    BY <1>1 DEF Register
  <2>4. Promise!Ask(r)
    BY <2>1, <2>2, <2>3, BeginDir
  <2>5. QED  BY <2>4 DEF Promise!Next
<1>2. CASE SetUserRole(r)
  <2>1. PICK id \in 1 .. nextId - 1, x \in Roles :
           /\ Begin(r, "find", [NoReq EXCEPT !.op = "role", !.id = id, !.arg = x])
           /\ promoted' = IF x = "admin" THEN promoted \cup {id} ELSE promoted
    BY <1>2 DEF SetUserRole
  <2>2. table' = table /\ DirSignup' = DirSignup
    BY <2>1, BeginDir
  <2>3. id \in Ids
    BY RowsAssumption DEF IInv, TypeOK, Ids
  <2>4. promoted' = promoted \/ Promise!Promote(id)
    BY <2>1, <2>2 DEF Promise!Promote
  <2>5. QED  BY <2>2, <2>3, <2>4 DEF Promise!Next
<1>3. CASE UpdateProfile(r) \/ ChangePassword(r) \/ ForgotPassword(r) \/ ResetPassword(r)
  <2>1. promoted' = promoted
          /\ \E at \in {"find", "forgot_find", "reset_get"} : \E q : Begin(r, at, q)
    BY <1>3 DEF UpdateProfile, ChangePassword, ForgotPassword, ResetPassword
  <2>2. QED  BY <2>1, BeginDir
<1>4. QED  BY <1>1, <1>2, <1>3 DEF Arrive

\* A registration ends, whether or not it was answered.
LEMMA LeaveDir ==
    ASSUME IInv, NEW r \in Reqs, NEW to \in PC \ Signing, pc' = [pc EXCEPT ![r] = to],
           UNCHANGED <<table, promoted>>,
           \A q \in Reqs \ {r} : req'[q] = req[q] /\ hist'[q] = hist[q]
    PROVE  Promise!Leave(r) \/ UNCHANGED <<table, promoted, DirSignup>>
<1>1. pc'[r] = to /\ \A q \in Reqs \ {r} : pc'[q] = pc[q]
  BY DEF IInv, TypeOK
<1>2. CASE pc[r] \notin Signing
  BY <1>1, <1>2, Unseen
<1>3. CASE pc[r] \in Signing
  <2>1. DirSignup[r].state # "none"
    BY <1>3 DEF DirSignup, Signing
  <2>2. DirSignup'[r] = Promise!Quiet
    BY <1>1 DEF DirSignup, Signing, Promise!Quiet
  <2>3. \A q \in Reqs \ {r} : DirSignup'[q] = DirSignup[q]
    BY <1>1, SignupStays
  <2>4. DirSignup' = [DirSignup EXCEPT ![r] = Promise!Quiet]
    BY <2>2, <2>3, SignupFunction
  <2>5. QED  BY <2>1, <2>4 DEF Promise!Leave
<1>4. QED  BY <1>2, <1>3

\* A record of a sign-up with one field changed.
LEMMA SignupConflict ==
    ASSUME NEW d, NEW st, NEW e, NEW c, d = [state |-> st, email |-> e, claimed |-> c]
    PROVE  [d EXCEPT !.state = "conflict"] = [state |-> "conflict", email |-> e, claimed |-> c]
  OBVIOUS

LEMMA SignupClaimed ==
    ASSUME NEW d, NEW st, NEW e, NEW c, d = [state |-> st, email |-> e, claimed |-> c]
    PROVE  [d EXCEPT !.claimed = TRUE] = [state |-> st, email |-> e, claimed |-> TRUE]
<1> DEFINE x == [d EXCEPT !.claimed = TRUE]
<1>1. DOMAIN x = {"state", "email", "claimed"}
  OBVIOUS
<1>2. x.state = st /\ x.email = e /\ x.claimed = TRUE
  OBVIOUS
<1>3. x = [f \in {"state", "email", "claimed"} |-> x[f]]
  BY <1>1
<1> HIDE DEF x
<1>4. x = [state |-> st, email |-> e, claimed |-> TRUE]
  BY <1>1, <1>2, <1>3
<1>5. QED  BY <1>4 DEF x

\* A conflict is answered: the e-mail has been somebody's.
LEMMA ConflictDir ==
    ASSUME IInv, NEW r \in Reqs, pc[r] \in {"reg_exists", "reg_create"},
           pc' = [pc EXCEPT ![r] = "conflict"], Taken(req[r].email),
           UNCHANGED <<table, promoted, req, hist>>
    PROVE  Promise!TurnAway(r)
<1>1. pc'[r] = "conflict" /\ \A q \in Reqs \ {r} : pc'[q] = pc[q]
  BY DEF IInv, TypeOK
<1>2. hist[r].taken
  BY DEF IInv, Shape, HistSound, TypeOK
<1>3. DirSignup[r] = [state |-> "asked", email |-> req[r].email, claimed |-> hist[r].taken]
  BY DEF DirSignup
<1>4. DirSignup'[r] = [state |-> "conflict", email |-> req[r].email, claimed |-> hist[r].taken]
  BY <1>1 DEF DirSignup
<1>5. \A q \in Reqs \ {r} : DirSignup'[q] = DirSignup[q]
  BY <1>1, SignupStays
<1>6. [DirSignup[r] EXCEPT !.state = "conflict"] = DirSignup'[r]
  BY <1>3, <1>4, SignupConflict
<1>7. DirSignup' = [DirSignup EXCEPT ![r] = [DirSignup[r] EXCEPT !.state = "conflict"]]
  BY <1>5, <1>6, SignupFunction
<1>8. DirSignup[r].state = "asked" /\ DirSignup[r].claimed
  BY <1>2, <1>3
<1>9. QED  BY <1>7, <1>8 DEF Promise!TurnAway

\* Requests that ask for an account notice a write as Directory says.
LEMMA WriteNotice ==
    ASSUME IInv, NEW r \in Reqs, NEW id \in Ids, NEW new \in Row, Write(r, id, new),
           NEW q \in Reqs, pc'[q] = pc[q], req'[q] = req[q]
    PROVE  DirSignup'[q] = Promise!Notice(q, new)
<1>1. hist[q] \in [taken : BOOLEAN, late : BOOLEAN, stale : BOOLEAN, err : BOOLEAN]
  BY DEF IInv, TypeOK
<1>2. CASE pc[q] \notin Signing
  BY <1>2 DEF DirSignup, Signing, Promise!Notice
<1>3. CASE pc[q] \in Signing
  <2> DEFINE state == IF pc[q] = "conflict" THEN "conflict" ELSE "asked"
  <2>1. hist'[q].taken = (hist[q].taken \/ (~new.deleted /\ req[q].email = new.email))
    BY <1>1, <1>3 DEF Write, Signing
  <2>2. DirSignup[q] = [state |-> state, email |-> req[q].email, claimed |-> hist[q].taken]
    BY <1>3 DEF DirSignup, Signing
  <2>3. DirSignup'[q] = [state |-> state, email |-> req[q].email, claimed |-> hist'[q].taken]
    BY <1>3 DEF DirSignup, Signing
  <2>4. state # "none"
    OBVIOUS
  <2>5. CASE ~new.deleted /\ req[q].email = new.email
    <3>1. hist'[q].taken = TRUE
      BY <2>1, <2>5
    <3>2. DirSignup'[q] = [DirSignup[q] EXCEPT !.claimed = TRUE]
      BY <2>2, <2>3, <3>1, SignupClaimed
    <3>3. DirSignup[q].state = state /\ DirSignup[q].email = req[q].email
      BY <2>2
    <3>4. QED  BY <2>4, <2>5, <3>2, <3>3 DEF Promise!Notice
  <2>6. CASE ~(~new.deleted /\ req[q].email = new.email)
    <3>1. hist'[q].taken = hist[q].taken
      BY <1>1, <2>1, <2>6
    <3>2. QED  BY <2>2, <2>3, <2>6, <3>1 DEF Promise!Notice
  <2>7. QED  BY <2>5, <2>6
<1>4. QED  BY <1>2, <1>3

LEMMA RegisterCreateDir ==
    ASSUME IInv, NEW r \in Reqs, RegisterCreate(r)
    PROVE  Promise!Next
<1>1. PICK n \in Names :
         LET new == [email |-> req[r].email, password |-> req[r].arg, name |-> n,
                     role |-> "user", deleted |-> FALSE]
         IN  /\ pc[r] = "reg_create"
             /\ \/ /\ IndexAllows(nextId, new)
                   /\ Write(r, nextId, new)
                   /\ pc' = [pc EXCEPT ![r] = "ok"] \/ pc' = [pc EXCEPT ![r] = "denied"]
                \/ /\ ~IndexAllows(nextId, new)
                   /\ pc' = [pc EXCEPT ![r] = "conflict"]
                   /\ UNCHANGED <<table, hist>>
             /\ UNCHANGED <<promoted, req>>
  BY DEF RegisterCreate, Goto
<1> DEFINE new == [email |-> req[r].email, password |-> req[r].arg, name |-> n,
                   role |-> "user", deleted |-> FALSE]
<1>2. /\ pc[r] = "reg_create" /\ req[r].op = "register"
      /\ req[r].email \in Emails /\ req[r].arg \in Passwords
  BY <1>1 DEF IInv, Shape
<1>3. new \in Row /\ nextId \in Ids /\ table[nextId] = NoRow
  <2>1. r \in Registering
    BY <1>2 DEF Registering
  <2>2. Cardinality(Registering) \in Nat /\ Cardinality(Registering) # 0
    BY <2>1, RegisteringFinite, FS_EmptySet
  <2>3. nextId \in Ids
    BY <2>2, RowsAssumption DEF IInv, IdsSound, TypeOK, Ids
  <2>4. QED  BY <1>2, <2>3, RolesAssumption DEF Row, IInv, IdsSound, TypeOK, Ids
<1>4. CASE pc' = [pc EXCEPT ![r] = "conflict"] /\ UNCHANGED <<table, hist>> /\ ~IndexAllows(nextId, new)
  <2>1. Taken(req[r].email)
    BY <1>4 DEF IndexAllows, Taken
  <2>2. Promise!TurnAway(r)
    BY <1>1, <1>2, <1>4, <2>1, ConflictDir
  <2>3. QED  BY <2>2 DEF Promise!Next
<1>5. CASE /\ IndexAllows(nextId, new) /\ Write(r, nextId, new)
           /\ pc' = [pc EXCEPT ![r] = "ok"] \/ pc' = [pc EXCEPT ![r] = "denied"]
  <2>1. table' = [table EXCEPT ![nextId] = new] /\ table'[nextId] = new /\ new # NoRow
    BY <1>3, <1>5, NoRowAssumption DEF Write, IInv, TypeOK
  <2>2. pc'[r] \in {"ok", "denied"} /\ \A q \in Reqs \ {r} : pc'[q] = pc[q]
    BY <1>5 DEF IInv, TypeOK
  <2>3. DirSignup[r].state = "asked" /\ DirSignup[r].email = req[r].email
    BY <1>2 DEF DirSignup
  <2>4. DirSignup'[r] = Promise!Quiet
    BY <2>2 DEF DirSignup, Promise!Quiet
  <2>5. \A q \in Reqs \ {r} : DirSignup'[q] = Promise!Notice(q, new)
    BY <1>1, <1>3, <1>5, <2>2, WriteNotice
  <2>6. DirSignup' = [q \in Reqs |-> IF q = r THEN Promise!Quiet ELSE Promise!Notice(q, new)]
    BY <2>4, <2>5, SignupFunction
  <2>7. Promise!Put(nextId, new)
    BY <1>5, <2>1 DEF Promise!Put, Promise!HasEmail, IndexAllows, Live
  <2>8. Promise!Create(r, nextId)
    <3>1. new.email = DirSignup[r].email /\ new.role = "user" /\ ~new.deleted
      BY <2>3
    <3>2. promoted' = promoted
      BY <1>1
    <3> HIDE DEF new
    <3>3. QED  BY <1>3, <2>1, <2>3, <2>6, <2>7, <3>1, <3>2 DEF Promise!Create
  <2>9. QED  BY <1>3, <2>8 DEF Promise!Next
<1>6. QED  BY <1>1, <1>4, <1>5

\* A save changes an account, keeping its e-mail.
LEMMA SaveDir ==
    ASSUME IInv, NEW r \in Reqs, Save(r)
    PROVE  Promise!Next \/ UNCHANGED <<table, promoted, DirSignup>>
<1> DEFINE id == loc[r].id
           new == Changed(r)
<1>1. /\ pc[r] = "save" /\ UNCHANGED <<promoted, req>>
      /\ pc'[r] \in {"reset_del", "ok", "denied"} /\ \A q \in Reqs \ {r} : pc'[q] = pc[q]
  BY DEF Save, Goto, IInv, TypeOK
<1>2. /\ id \in Ids /\ new \in Row /\ table[id] # NoRow /\ table[id].email = new.email
      /\ new.role = "admin" => id \in promoted
  BY <1>1, ChangedRow DEF IInv, CopySound
<1>3. CASE UNCHANGED <<table, hist>>
  BY <1>1, <1>3, Unseen DEF Signing
<1>4. CASE (Live(id) \/ IndexAllows(id, new)) /\ Write(r, id, new)
  <2>1. table' = [table EXCEPT ![id] = new] /\ table'[id] = new /\ new # NoRow
    BY <1>2, <1>4, NoRowAssumption DEF Write, IInv, TypeOK
  <2>2. DirSignup'[r] = Promise!Notice(r, new)
    BY <1>1 DEF DirSignup, Promise!Notice
  <2>3. \A q \in Reqs \ {r} : DirSignup'[q] = Promise!Notice(q, new)
    BY <1>1, <1>2, <1>4, WriteNotice
  <2>4. DirSignup' = [q \in Reqs |-> Promise!Notice(q, new)]
    BY <2>2, <2>3, SignupFunction
  <2>5. new.deleted \/ \A other \in Ids \ {id} : ~Promise!HasEmail(other, new.email)
    <3>1. CASE Live(id)
      BY <1>2, <3>1 DEF IInv, EmailUnique, Live, Promise!HasEmail
    <3>2. CASE IndexAllows(id, new)
      BY <3>2 DEF IndexAllows, Live, Promise!HasEmail
    <3>3. QED  BY <1>4, <3>1, <3>2
  <2>6. Promise!Change(id)
    BY <1>1, <1>2, <2>1, <2>4, <2>5 DEF Promise!Change, Promise!Put
  <2>7. QED  BY <1>2, <2>6 DEF Promise!Next
<1>5. QED  BY <1>3, <1>4 DEF Save

\* An operator closes an account.
LEMMA DeleteDir ==
    ASSUME IInv, NEW id \in Ids, Delete(id)
    PROVE  Promise!Next
<1> DEFINE new == [table[id] EXCEPT !.deleted = TRUE]
<1>1. /\ Live(id) /\ table' = [table EXCEPT ![id].deleted = TRUE]
      /\ hist' = [q \in Reqs |-> IF loc[q].id = id /\ loc[q].row # NoRow
                                 THEN [hist[q] EXCEPT !.stale = TRUE] ELSE hist[q]]
      /\ UNCHANGED <<promoted, pc, req>>
  BY DEF Delete
<1>2. table[id] \in Row /\ table[id] # NoRow
  BY <1>1 DEF IInv, TypeOK, Live
<1>3. /\ new \in Row /\ new # NoRow /\ new.deleted /\ new.email = table[id].email
      /\ new.role = table[id].role
  BY <1>2, NoRowAssumption DEF Row
<1>4. table' = [table EXCEPT ![id] = new] /\ table'[id] = new
  BY <1>1 DEF IInv, TypeOK
<1>5. ASSUME NEW q \in Reqs PROVE DirSignup'[q] = Promise!Notice(q, new)
  <2>1. hist'[q].taken = hist[q].taken
    BY <1>1 DEF IInv, TypeOK
  <2>2. DirSignup'[q] = DirSignup[q]
    BY <1>1, <2>1, SignupStays
  <2>3. QED  BY <1>3, <2>2 DEF Promise!Notice
<1>6. DirSignup' = [q \in Reqs |-> Promise!Notice(q, new)]
  BY <1>5, SignupFunction
<1>7. new.role = "admin" => id \in promoted
  BY <1>2, <1>3 DEF IInv, AdminsWerePromoted
<1>8. Promise!Change(id)
  BY <1>1, <1>2, <1>3, <1>4, <1>6, <1>7 DEF Promise!Change, Promise!Put
<1>9. QED  BY <1>8 DEF Promise!Next

LEMMA ServeDir ==
    ASSUME IInv, NEW r \in Reqs, Serve(r)
    PROVE  Promise!Next \/ UNCHANGED <<table, promoted, DirSignup>>
<1>1. CASE RegisterExists(r)
  <2>1. UNCHANGED <<table, promoted, req, hist>>
    BY <1>1 DEF RegisterExists
  <2>2. CASE Taken(req[r].email) /\ Goto(r, "reg_exists", "conflict")
    BY <2>1, <2>2, ConflictDir DEF Goto, Promise!Next
  <2>3. CASE Goto(r, "reg_exists", "reg_create")
    <3>1. /\ pc[r] = "reg_exists" /\ pc'[r] = "reg_create"
          /\ \A q \in Reqs \ {r} : pc'[q] = pc[q]
      BY <2>3 DEF Goto, IInv, TypeOK
    <3>2. \A q \in Reqs : DirSignup'[q] = DirSignup[q]
      BY <2>1, <3>1, SignupStays
    <3>3. QED  BY <2>1, <3>2, SignupFunction
  <2>4. QED  BY <1>1, <2>2, <2>3 DEF RegisterExists
<1>2. CASE RegisterCreate(r)
  BY <1>2, RegisterCreateDir
<1>3. CASE RegisterFails(r) \/ FindFails(r) \/ SaveFails(r) \/ ResetGetFails(r)
  <2>1. pc' = [pc EXCEPT ![r] = "denied"] /\ UNCHANGED <<table, promoted, req, hist>>
    BY <1>3 DEF RegisterFails, FindFails, SaveFails, ResetGetFails, Fail, Goto
  <2>2. "denied" \in PC \ Signing
    BY DEF PC, Signing
  <2>3. QED  BY <2>1, <2>2, LeaveDir DEF Promise!Next
<1>4. CASE Find(r) \/ ForgotFind(r) \/ ForgotSet(r) \/ ResetGet(r) \/ ResetDel(r)
  <2>1. \E to \in PC \ Signing : pc' = [pc EXCEPT ![r] = to]
    BY <1>4 DEF Find, ForgotFind, ForgotSet, ResetGet, ResetDel, Goto, PC, Signing
  <2>2. /\ UNCHANGED <<table, promoted, req>>
        /\ hist' = hist \/ hist' = [hist EXCEPT ![r].err = TRUE]
    BY <1>4 DEF Find, ForgotFind, ForgotSet, ResetGet, ResetDel
  <2>3. \A q \in Reqs \ {r} : hist'[q] = hist[q]
    BY <2>2 DEF IInv, TypeOK
  <2>4. QED  BY <2>1, <2>2, <2>3, LeaveDir DEF Promise!Next
<1>5. CASE Save(r)
  BY <1>5, SaveDir
<1>6. QED  BY <1>1, <1>2, <1>3, <1>4, <1>5 DEF Serve

LEMMA StepDir ==
    ASSUME IInv, [Next]_vars
    PROVE  [Promise!Next]_<<table, promoted, DirSignup>>
<1>1. CASE Expire \/ SendMail
  <2>1. UNCHANGED <<table, promoted, pc, req, hist>>
    BY <1>1 DEF Expire, SendMail
  <2>2. QED  BY <2>1 DEF DirSignup
<1>2. ASSUME NEW id \in Ids, Delete(id) PROVE Promise!Next
  BY <1>2, DeleteDir
<1>3. ASSUME NEW r \in Reqs, Arrive(r) PROVE Promise!Next \/ UNCHANGED <<table, promoted, DirSignup>>
  BY <1>3, ArriveDir
<1>4. ASSUME NEW r \in Reqs, Serve(r) PROVE Promise!Next \/ UNCHANGED <<table, promoted, DirSignup>>
  BY <1>4, ServeDir
<1>5. ASSUME NEW r \in Reqs, Finish(r) PROVE Promise!Next \/ UNCHANGED <<table, promoted, DirSignup>>
  <2>1. /\ pc' = [pc EXCEPT ![r] = "idle"] /\ UNCHANGED <<table, promoted>>
        /\ req' = [req EXCEPT ![r] = NoReq] /\ hist' = [hist EXCEPT ![r] = NoHist]
    BY <1>5 DEF Finish
  <2>2. \A q \in Reqs \ {r} : req'[q] = req[q] /\ hist'[q] = hist[q]
    BY <2>1 DEF IInv, TypeOK
  <2>3. "idle" \in PC \ Signing
    BY DEF PC, Signing
  <2>4. QED  BY <2>1, <2>2, <2>3, LeaveDir DEF Promise!Next
<1>6. CASE UNCHANGED vars
  BY <1>6 DEF vars, DirSignup
<1>7. QED  BY <1>1, <1>2, <1>3, <1>4, <1>5, <1>6 DEF Next, Environment

\* Every step of the account operations is one that Directory allows, or one it does
\* not see.
THEOREM ImplementsDirectoryHolds == Spec => ImplementsDirectory
<1>1. Init => Promise!Init
  BY DEF Init, DirSignup, Promise!Init, Promise!Quiet
<1>2. IInv /\ [Next]_vars => [Promise!Next]_<<table, promoted, DirSignup>>
  BY StepDir
<1>3. IInv /\ [Next]_vars => [Promise!Next]_(Promise!vars)
  BY <1>2 DEF Promise!vars
<1>4. QED  BY <1>1, <1>3, Invariance, PTL DEF Spec, ImplementsDirectory, Promise!Spec
=============================================================================
