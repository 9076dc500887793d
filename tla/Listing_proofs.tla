--------------------------- MODULE Listing_proofs ---------------------------
(***************************************************************************)
(* Proofs about the two listings, for tables and pages of any size, any    *)
(* set of filters and any width of int, whatever the table does between    *)
(* two pages.                                                              *)
(***************************************************************************)
EXTENDS Listing, FiniteSetTheorems, TLAPS

LEMMA IdsFinite == IsFiniteSet(Ids) /\ Cardinality(Ids) = MaxRows
  BY RowsAssumption, FS_Interval DEF Ids

\* Sets of ids are finite, and of two of them, one within the other, with as many
\* elements, there is one.
LEMMA Sizes ==
    ASSUME NEW S \in SUBSET Ids, NEW P \in SUBSET S
    PROVE  /\ Cardinality(S) \in 0 .. MaxRows
           /\ Cardinality(P) \in 0 .. MaxRows
           /\ Cardinality(P) = Cardinality(S) => P = S
<1>1. IsFiniteSet(S) /\ Cardinality(S) \in Nat /\ Cardinality(S) <= MaxRows
  BY IdsFinite, FS_Subset, FS_CardinalityType
<1>2. IsFiniteSet(P) /\ Cardinality(P) \in Nat /\ Cardinality(P) <= Cardinality(S)
         /\ (Cardinality(P) = Cardinality(S) => P = S)
  BY <1>1, FS_Subset, FS_CardinalityType
<1>3. QED  BY <1>1, <1>2, RowsAssumption

\* ORDER BY id LIMIT k leaves out only rows behind those it gives, and none if it
\* gives fewer than k.
LEMMA LimitById ==
    ASSUME NEW S \in SUBSET Ids, NEW k \in Nat, NEW P \in Limit(k, S, ById)
    PROVE  /\ P \subseteq S
           /\ \A i \in S \ P, j \in P : j < i
           /\ Cardinality(P) < k => P = S
<1>1. P \subseteq S /\ Cardinality(P) = AtMost(k, Cardinality(S))
  BY DEF Limit
<1>2. Cardinality(P) < k => P = S
  BY <1>1, Sizes DEF AtMost
<1>3. ASSUME NEW i \in S \ P, NEW j \in P PROVE j < i
  <2>1. ~Before(ById, i, j)
    BY DEF Limit
  <2>2. i \in Nat /\ j \in Nat /\ i # j
    BY <1>1 DEF Ids
  <2>3. QED  BY <2>1, <2>2 DEF Before, ById
<1>4. QED  BY <1>1, <1>2, <1>3

LEMMA LimitOfType == ASSUME NEW n \in Int PROVE LimitOf(n) \in 1 .. MaxLimit
  BY LimitAssumption DEF LimitOf

LEMMA CursorType ==
    ASSUME NEW c \in Cursor
    PROVE  DecodeCursor(c) \in Nat
  BY DEF Cursor, DecodeCursor, NoCursor, Ids

LEMMA DecodeEncode ==
    ASSUME NEW i \in Ids
    PROVE  EncodeCursor(i) \in Cursor /\ DecodeCursor(EncodeCursor(i)) = i
  BY DEF Cursor, DecodeCursor, EncodeCursor, NoCursor

LEMMA InitInv == Init => ScanInv
<1> SUFFICES ASSUME Init PROVE ScanInv
  OBVIOUS
<1>1. (CHOOSE k \in Keys : TRUE) \in Keys
  BY KeysAssumption
<1>2. NewScan(NoFilter) \in [filter : Keys \cup {NoFilter}, cursor : Cursor, seen : SUBSET Ids,
                             page : SUBSET Ids, done : BOOLEAN]
  BY DEF NewScan, Cursor
<1>3. NewWalk(ById, DefaultLimit) \in
        [opts : Options, size : 1 .. MaxLimit, at : {"idle", "counted"},
         page : Nat \ {0}, total : 0 .. MaxRows, fresh : BOOLEAN]
  BY LimitAssumption, RowsAssumption DEF NewWalk, ById, Options, Sorts
<1>4. TypeOK
  BY <1>1, <1>2, <1>3, RowsAssumption DEF Init, TypeOK, RowState, NoPages
<1>5. QED  BY <1>4 DEF Init, ScanInv, CursorOnce, NewScan

\* What the history keeps when a row changes still matches, and lies after the cursor
\* unless it was given.
LEMMA SetRowInv ==
    ASSUME ScanInv, NEW i \in Ids, row[i].state # "none",
           NEW new \in [state : RowState, key : Keys], SetRow(i, new)
    PROVE  ScanInv'
<1> USE DEF SetRow
<1>1. TypeOK'
  <2>1. row' \in [Ids -> [state : RowState, key : Keys]]
    BY DEF ScanInv, TypeOK
  <2>2. walk' \in [opts : Options, size : 1 .. MaxLimit, at : {"idle", "counted"},
                   page : Nat \ {0}, total : 0 .. MaxRows, fresh : BOOLEAN]
    BY DEF ScanInv, TypeOK
  <2>3. QED  BY <2>1, <2>2 DEF ScanInv, TypeOK, NoPages
<1>2. ASSUME NEW k \in steady'
      PROVE  /\ Passes(row'[k], scan'.filter)
             /\ k \in steady \/ (k = i /\ ~scan.done /\ k > DecodeCursor(scan.cursor))
  <2>1. k \in Ids /\ (k = i => Passes(new, scan.filter)) /\ (k # i => k \in steady)
    BY DEF ScanInv, TypeOK
  <2>2. k \in steady \/ (~scan.done /\ ~(i <= DecodeCursor(scan.cursor)) /\ k = i)
    OBVIOUS
  <2>3. DecodeCursor(scan.cursor) \in Nat
    BY CursorType DEF ScanInv, TypeOK
  <2>4. row'[k] = IF k = i THEN new ELSE row[k]
    BY <2>1 DEF ScanInv, TypeOK
  <2>5. QED  BY <2>1, <2>2, <2>3, <2>4 DEF ScanInv, Ids
<1>3. \A k \in Ids : k >= nextId' => row'[k].state = "none"
  BY DEF ScanInv, TypeOK
<1>4. QED  BY <1>1, <1>2, <1>3 DEF ScanInv, CursorOnce

\* The other steps of the table change no row a query can see.
LEMMA DrawInv ==
    ASSUME ScanInv, Draw \/ \E i \in Ids : Rollback(i)
    PROVE  ScanInv'
<1>1. TypeOK' /\ UNCHANGED <<scan, steady>>
  <2>1. CASE Draw
    BY <2>1, RowsAssumption DEF Draw, ScanInv, TypeOK, RowState, Ids
  <2>2. ASSUME NEW i \in Ids, Rollback(i) PROVE TypeOK' /\ UNCHANGED <<scan, steady>>
    BY <2>2 DEF Rollback, ScanInv, TypeOK, RowState
  <2>3. QED  BY <2>1, <2>2
<1>2. ASSUME NEW k \in steady PROVE row'[k] = row[k]
  <2>1. row[k].state = "live" /\ k \in Ids
    BY DEF ScanInv, TypeOK, Passes
  <2>2. CASE Draw
    BY <2>1, <2>2 DEF Draw, ScanInv, TypeOK, Ids
  <2>3. ASSUME NEW i \in Ids, Rollback(i) PROVE row'[k] = row[k]
    BY <2>1, <2>3 DEF Rollback, ScanInv, TypeOK
  <2>4. QED  BY <2>2, <2>3
<1>3. \A i \in Ids : i >= nextId' => row'[i].state = "none"
  <2>1. CASE Draw
    BY <2>1 DEF Draw, ScanInv, TypeOK, Ids
  <2>2. ASSUME NEW i \in Ids, Rollback(i) PROVE \A k \in Ids : k >= nextId' => row'[k].state = "none"
    BY <2>2 DEF Rollback, ScanInv, TypeOK
  <2>3. QED  BY <2>1, <2>2
<1>4. QED  BY <1>1, <1>2, <1>3 DEF ScanInv, CursorOnce

LEMMA TableInv == ScanInv /\ Table => ScanInv'
<1> SUFFICES ASSUME ScanInv, Table PROVE ScanInv'
  OBVIOUS
<1>1. CASE Draw \/ \E i \in Ids : Rollback(i)
  BY <1>1, DrawInv
<1>2. ASSUME NEW i \in Ids, Commit(i) \/ Update(i) \/ Delete(i) \/ Revive(i) PROVE ScanInv'
  <2>1. \E new \in [state : RowState, key : Keys] : row[i].state # "none" /\ SetRow(i, new)
    BY <1>2 DEF Commit, Update, Delete, Revive, Live, ScanInv, TypeOK, RowState
  <2>2. QED  BY <2>1, SetRowInv
<1>3. QED  BY <1>1, <1>2 DEF Table

\* A page continues where the last one ended, and leaves nothing out.
LEMMA ScanStep == ASSUME ScanInv, NEW n \in Param, ListUsersCursor(n) PROVE ScanInv'
<1> DEFINE limit == LimitOf(n)
           c == DecodeCursor(scan.cursor)
           S == AfterCursor(scan.cursor, scan.filter)
<1>1. limit \in 1 .. MaxLimit /\ limit \in Nat /\ limit + 1 \in Nat
  BY LimitOfType, LimitAssumption DEF Param
<1>2. c \in Nat
  BY CursorType DEF ScanInv, TypeOK
<1>3. S \in SUBSET Ids /\ \A i \in S : i > c
  BY DEF AfterCursor
<1>4. \A i \in steady : i \in scan.seen \cup scan.page \/ i \in S
  <2>1. ~scan.done
    BY DEF ListUsersCursor
  <2>2. QED  BY <2>1 DEF ScanInv, TypeOK, AfterCursor, Matches
<1>5. \A i \in scan.seen \cup scan.page : i \in Ids /\ i <= c
  BY DEF ScanInv, TypeOK, ListUsersCursor
<1>6. PICK users \in Limit(limit + 1, S, ById) :
        IF Cardinality(users) > limit
        THEN \E page \in Limit(limit, users, ById), last \in users :
                /\ IsLast(last, page)
                /\ scan' = [scan EXCEPT !.cursor = EncodeCursor(last),
                                        !.seen = @ \cup scan.page, !.page = page]
        ELSE scan' = [scan EXCEPT !.done = TRUE,
                                  !.seen = @ \cup scan.page, !.page = users]
  BY DEF ListUsersCursor
<1>7. UNCHANGED <<row, nextId, client, steady, walk, shown>> /\ ~scan.done
  BY DEF ListUsersCursor
<1>8. users \subseteq S /\ (\A i \in S \ users, j \in users : j < i)
         /\ (Cardinality(users) < limit + 1 => users = S)
  BY <1>1, <1>3, LimitById
<1>9. CASE Cardinality(users) > limit
  <2>1. PICK page \in Limit(limit, users, ById), last \in users :
                /\ IsLast(last, page)
                /\ scan' = [scan EXCEPT !.cursor = EncodeCursor(last),
                                        !.seen = @ \cup scan.page, !.page = page]
    BY <1>6, <1>9
  <2>2. page \subseteq users /\ \A i \in users \ page, j \in page : j < i
    <3>1. users \in SUBSET Ids /\ page \in Limit(limit, users, ById)
      BY <1>3, <1>8
    <3>2. QED  BY <1>1, <3>1, LimitById
  <2>3. last \in page /\ last \in Ids /\ (\A j \in page : j <= last) /\ last > c
    BY <1>3, <1>8, <2>1 DEF IsLast
  <2>4. /\ scan'.filter = scan.filter /\ scan'.done = FALSE
        /\ scan'.seen = scan.seen \cup scan.page /\ scan'.page = page
        /\ scan'.cursor = EncodeCursor(last)
    BY <1>7, <2>1 DEF ScanInv, TypeOK
  <2>5. scan'.cursor \in Cursor /\ DecodeCursor(scan'.cursor) = last
    BY <2>3, <2>4, DecodeEncode
  <2>6. TypeOK'
    BY <1>3, <1>7, <1>8, <2>1, <2>2, <2>3, DecodeEncode DEF ScanInv, TypeOK
  <2>7. CursorOnce'
    BY <1>2, <1>3, <1>5, <1>8, <2>2, <2>4 DEF CursorOnce, Ids
  <2>8. \A i \in scan'.seen \cup scan'.page : i <= last
    <3>1. last \in Nat
      BY <2>3 DEF Ids
    <3>2. \A i \in scan.seen \cup scan.page : i <= last
      BY <1>2, <1>5, <2>3, <3>1 DEF Ids
    <3>3. QED  BY <2>3, <2>4, <3>2
  <2>9. \A i \in S : i \in page \/ i > last
    BY <1>3, <1>8, <2>2, <2>3 DEF Ids
  <2>10. \A i \in steady : i \in scan'.seen \cup scan'.page \/ i > last
    BY <1>4, <2>4, <2>9
  <2>11. QED
    BY <1>7, <2>4, <2>5, <2>6, <2>7, <2>8, <2>10 DEF ScanInv
<1>10. CASE ~(Cardinality(users) > limit)
  <2>1. /\ scan' = [scan EXCEPT !.done = TRUE, !.seen = @ \cup scan.page, !.page = users]
        /\ users = S
    <3>1. Cardinality(users) \in Nat
      BY <1>3, <1>8, Sizes
    <3>2. QED  BY <1>1, <1>6, <1>8, <1>10, <3>1
  <2>2. /\ scan'.filter = scan.filter /\ scan'.done = TRUE
        /\ scan'.seen = scan.seen \cup scan.page /\ scan'.page = S
    BY <2>1 DEF ScanInv, TypeOK
  <2>3. TypeOK'
    BY <1>3, <1>7, <2>1 DEF ScanInv, TypeOK
  <2>4. CursorOnce'
    BY <1>2, <1>3, <1>5, <2>2 DEF CursorOnce, Ids
  <2>5. QED
    BY <1>4, <1>7, <2>2, <2>3, <2>4 DEF ScanInv
<1>11. QED  BY <1>9, <1>10

LEMMA ClientInv == ScanInv /\ Client => ScanInv'
<1> SUFFICES ASSUME ScanInv, Client PROVE ScanInv'
  OBVIOUS
<1>1. CASE StartScan
  <2>1. PICK filter \in Keys \cup {NoFilter} :
             scan' = NewScan(filter) /\ steady' = {i \in Ids : Matches(i, filter)}
    BY <1>1 DEF StartScan
  <2>2. UNCHANGED <<row, nextId, client, walk, shown>>
    BY <1>1 DEF StartScan
  <2>3. NewScan(filter) \in [filter : Keys \cup {NoFilter}, cursor : Cursor, seen : SUBSET Ids,
                             page : SUBSET Ids, done : BOOLEAN]
    BY DEF NewScan, Cursor
  <2>4. TypeOK'
    BY <2>1, <2>2, <2>3 DEF ScanInv, TypeOK
  <2>5. \A i \in steady' : i > 0 /\ Passes(row[i], filter)
    BY <2>1 DEF Ids, Matches
  <2>6. /\ scan'.seen = {} /\ scan'.page = {} /\ ~scan'.done
        /\ DecodeCursor(scan'.cursor) = 0 /\ scan'.filter = filter
    BY <2>1 DEF NewScan, DecodeCursor
  <2>7. QED  BY <2>2, <2>4, <2>5, <2>6 DEF ScanInv, CursorOnce
<1>2. ASSUME NEW n \in Param, ListUsersCursor(n) PROVE ScanInv'
  BY <1>2, ScanStep
<1>3. CASE StartWalk \/ (\E n \in Param : CountUsers(n)) \/ ListUsers
  <2>1. UNCHANGED <<row, nextId, client, scan, steady>>
    BY <1>3 DEF StartWalk, CountUsers, ListUsers
  <2>2. /\ walk' \in [opts : Options, size : 1 .. MaxLimit, at : {"idle", "counted"},
                      page : Nat \ {0}, total : 0 .. MaxRows, fresh : BOOLEAN]
        /\ \A p \in DOMAIN shown' : shown'[p] \subseteq Ids
    <3>1. CASE StartWalk
      <4>1. PICK sort \in Sorts \cup {"other"}, order \in {"asc", "desc", "other"},
                 filter \in Keys \cup {NoFilter}, n \in Param :
                   walk' = NewWalk(Parse(sort, order, filter), LimitOf(n))
        BY <3>1 DEF StartWalk
      <4>2. Parse(sort, order, filter) \in Options /\ LimitOf(n) \in 1 .. MaxLimit
        BY LimitOfType DEF Parse, Options, Sorts, Param
      <4>3. QED  BY <3>1, <4>1, <4>2, RowsAssumption DEF NewWalk, StartWalk, NoPages
    <3>2. ASSUME NEW n \in Param, CountUsers(n)
          PROVE  /\ walk' \in [opts : Options, size : 1 .. MaxLimit, at : {"idle", "counted"},
                               page : Nat \ {0}, total : 0 .. MaxRows, fresh : BOOLEAN]
                 /\ shown' = shown
      <4>1. Cardinality(Matching(walk.opts)) \in 0 .. MaxRows
        BY Sizes DEF Matching
      <4>2. PageOf(n) \in Nat \ {0}
        BY DEF PageOf, Param
      <4>3. QED  BY <3>2, <4>1, <4>2 DEF CountUsers, ScanInv, TypeOK
    <3>3. CASE ListUsers
      <4>1. walk' \in [opts : Options, size : 1 .. MaxLimit, at : {"idle", "counted"},
                       page : Nat \ {0}, total : 0 .. MaxRows, fresh : BOOLEAN]
        BY <3>3 DEF ListUsers, ScanInv, TypeOK
      <4>2. PICK page \in SUBSET Ids :
              shown' = IF walk.fresh
                       THEN [p \in DOMAIN shown \cup {walk.page} |->
                                IF p = walk.page THEN page ELSE shown[p]]
                       ELSE shown
        BY <3>3 DEF ListUsers, Limit, Matching
      <4>3. QED  BY <4>1, <4>2 DEF ScanInv, TypeOK
    <3>4. QED  BY <1>3, <3>1, <3>2, <3>3 DEF ScanInv, TypeOK
  <2>3. TypeOK'
    BY <2>1, <2>2 DEF ScanInv, TypeOK
  <2>4. QED  BY <2>1, <2>3 DEF ScanInv, CursorOnce
<1>4. QED  BY <1>1, <1>2, <1>3 DEF Client

-----------------------------------------------------------------------------
(* The numbered listing: its invariant.                                    *)

\* What a query gives is a page for as long as the options and the rows it selects
\* do not change.
LEMMA PageNext ==
    ASSUME walk'.opts = walk.opts, walk'.size = walk.size,
           Matching(walk.opts)' = Matching(walk.opts),
           \A i \in Matching(walk.opts) : row'[i] = row[i],
           NEW p, NEW skipped \in Limit(Skip(p, walk.size), Matching(walk.opts), walk.opts),
           shown'[p] \in Limit(walk.size, Matching(walk.opts) \ skipped, walk.opts)
    PROVE  IsPage(p)'
<1> DEFINE S == Matching(walk.opts)
           k == Skip(p, walk.size)
           order(i, j) == Before(walk.opts, i, j)
<1>1. S' = S /\ k' = k
  BY DEF Skip, Offset, Wrap
<1>2. \A i, j \in S : order(i, j)' <=> order(i, j)
  BY DEF Before
<1>3. skipped \in Limit(k, S, walk.opts)'
  <2>1. /\ skipped \in SUBSET S /\ Cardinality(skipped) = AtMost(k, Cardinality(S))
        /\ \A i \in skipped, j \in S \ skipped : ~order(j, i)
    BY DEF Limit
  <2>2. \A i \in skipped, j \in S \ skipped : ~order(j, i)'
    BY <1>2, <2>1
  <2>3. QED  BY <1>1, <2>1, <2>2 DEF Limit, AtMost
<1>4. shown'[p] \in Limit(walk.size, S \ skipped, walk.opts)'
  <2>1. /\ shown'[p] \in SUBSET (S \ skipped)
        /\ Cardinality(shown'[p]) = AtMost(walk.size, Cardinality(S \ skipped))
        /\ \A i \in shown'[p], j \in (S \ skipped) \ shown'[p] : ~order(j, i)
    BY DEF Limit
  <2>2. \A i \in shown'[p], j \in (S \ skipped) \ shown'[p] : ~order(j, i)'
    BY <1>2, <2>1
  <2>3. QED  BY <1>1, <2>1, <2>2 DEF Limit, AtMost
<1>5. QED  BY <1>3, <1>4 DEF IsPage

LEMMA PageStays ==
    ASSUME walk'.opts = walk.opts, walk'.size = walk.size,
           Matching(walk.opts)' = Matching(walk.opts),
           \A i \in Matching(walk.opts) : row'[i] = row[i],
           NEW p, shown'[p] = shown[p], IsPage(p)
    PROVE  IsPage(p)'
<1>1. PICK skipped \in Limit(Skip(p, walk.size), Matching(walk.opts), walk.opts) :
             shown[p] \in Limit(walk.size, Matching(walk.opts) \ skipped, walk.opts)
  BY DEF IsPage
<1>2. QED  BY <1>1, PageNext

\* Steps that leave alone the walk, its pages and the rows it selects.
LEMMA WalkStays ==
    ASSUME WalkInv, UNCHANGED <<walk, shown>>,
           Matching(walk.opts)' = Matching(walk.opts),
           \A i \in Matching(walk.opts) : row'[i] = row[i]
    PROVE  WalkInv'
<1>1. \A p \in DOMAIN shown : IsPage(p)'
  BY PageStays DEF WalkInv
<1>2. QED  BY <1>1 DEF WalkInv

\* A change of a row a query can see leaves no page and no fresh total.
LEMMA SetRowWalk ==
    ASSUME NEW i, NEW new, SetRow(i, new),
           walk \in [opts : Options, size : 1 .. MaxLimit, at : {"idle", "counted"},
                     page : Nat \ {0}, total : 0 .. MaxRows, fresh : BOOLEAN]
    PROVE  WalkInv'
<1>1. DOMAIN shown' = {} /\ ~walk'.fresh
  BY DEF SetRow, NoPages
<1>2. QED  BY <1>1 DEF WalkInv

LEMMA TableWalk == ScanInv /\ WalkInv /\ Table => WalkInv'
<1> SUFFICES ASSUME ScanInv, WalkInv, Table PROVE WalkInv'
  OBVIOUS
<1>1. ASSUME NEW i \in Ids, row[i].state # "live", UNCHANGED <<walk, shown>>,
             NEW new, new.state # "live", row' = [row EXCEPT ![i] = new]
      PROVE  WalkInv'
  <2>1. row \in [Ids -> [state : RowState, key : Keys]]
    BY DEF ScanInv, TypeOK
  <2>2. \A j \in Ids : row'[j] = IF j = i THEN new ELSE row[j]
    BY <1>1, <2>1
  <2>3. /\ Matching(walk.opts)' = Matching(walk.opts)
        /\ \A j \in Matching(walk.opts) : row'[j] = row[j]
    BY <1>1, <2>2 DEF Matching, Matches, Passes
  <2>4. QED  BY <1>1, <2>3, WalkStays
<1>2. CASE Draw
  <2>1. nextId \in Ids /\ row[nextId].state = "none" /\ row[nextId].state # "live"
    BY <1>2, RowsAssumption DEF Draw, ScanInv, TypeOK, Ids
  <2>2. PICK k \in Keys : row' = [row EXCEPT ![nextId] = [state |-> "drawn", key |-> k]]
    BY <1>2 DEF Draw
  <2>3. UNCHANGED <<walk, shown>> /\ [state |-> "drawn", key |-> k].state # "live"
    BY <1>2 DEF Draw
  <2>4. QED  BY <1>1, <2>1, <2>2, <2>3
<1>3. ASSUME NEW i \in Ids, Rollback(i) PROVE WalkInv'
  <2> DEFINE new == [row[i] EXCEPT !.state = "none"]
  <2>1. row[i].state # "live" /\ UNCHANGED <<walk, shown>>
    BY <1>3 DEF Rollback
  <2>2. row' = [row EXCEPT ![i] = new] /\ new.state # "live"
    BY <1>3 DEF Rollback, ScanInv, TypeOK
  <2>3. QED  BY <1>1, <2>1, <2>2
<1>4. ASSUME NEW i \in Ids, Commit(i) \/ Update(i) \/ Delete(i) \/ Revive(i) PROVE WalkInv'
  <2>1. \E new : SetRow(i, new)
    BY <1>4 DEF Commit, Update, Delete, Revive
  <2>2. QED  BY <2>1, SetRowWalk DEF ScanInv, TypeOK
<1>5. QED  BY <1>2, <1>3, <1>4 DEF Table

\* What ListUsers gives is a page, and the earlier ones stay.
LEMMA ListUsersWalk == ASSUME ScanInv, WalkInv, ListUsers PROVE WalkInv'
<1> DEFINE S == Matching(walk.opts)
           opts == walk.opts
<1>1. /\ walk \in [opts : Options, size : 1 .. MaxLimit, at : {"idle", "counted"},
                   page : Nat \ {0}, total : 0 .. MaxRows, fresh : BOOLEAN]
      /\ walk.at = "counted" /\ walk' = [walk EXCEPT !.at = "idle"] /\ UNCHANGED row
  BY DEF ScanInv, TypeOK, ListUsers
<1>2. /\ walk'.opts = walk.opts /\ walk'.size = walk.size /\ walk'.total = walk.total
      /\ walk'.at = "idle" /\ walk.page \in Nat \ {0}
  BY <1>1
<1>3. PICK skipped \in Limit(Skip(walk.page, walk.size), S, opts) :
        \E page \in Limit(walk.size, S \ skipped, opts) :
           shown' = IF walk.fresh
                    THEN [p \in DOMAIN shown \cup {walk.page} |->
                             IF p = walk.page THEN page ELSE shown[p]]
                    ELSE shown
  BY DEF ListUsers
<1>4. PICK page \in Limit(walk.size, S \ skipped, opts) :
        shown' = IF walk.fresh
                 THEN [p \in DOMAIN shown \cup {walk.page} |->
                          IF p = walk.page THEN page ELSE shown[p]]
                 ELSE shown
  BY <1>3
<1>5. Matching(walk.opts)' = S /\ \A i \in S : row'[i] = row[i]
  BY <1>1, <1>2 DEF Matching, Matches
<1>6. ASSUME NEW p \in DOMAIN shown' PROVE p \in Nat \ {0} /\ IsPage(p)'
  <2>1. CASE walk.fresh /\ p = walk.page
    <3>1. shown'[p] = page
      BY <1>4, <2>1
    <3>2. QED  BY <1>2, <1>3, <1>4, <1>5, <2>1, <3>1, PageNext
  <2>2. CASE ~(walk.fresh /\ p = walk.page)
    <3>1. p \in DOMAIN shown /\ shown'[p] = shown[p]
      BY <1>4, <2>2
    <3>2. p \in Nat \ {0} /\ IsPage(p)
      BY <3>1 DEF WalkInv
    <3>3. QED  BY <1>2, <1>5, <3>1, <3>2, PageStays
  <2>3. QED  BY <2>1, <2>2
<1>7. DOMAIN shown' # {} => walk.fresh \/ DOMAIN shown # {}
  BY <1>4
<1>8. DOMAIN shown' # {} => walk'.total = Cardinality(Matching(walk.opts)')
  BY <1>1, <1>2, <1>5, <1>7 DEF WalkInv
<1>9. QED  BY <1>2, <1>6, <1>8 DEF WalkInv

LEMMA ClientWalk == ScanInv /\ WalkInv /\ Client => WalkInv'
<1> SUFFICES ASSUME ScanInv, WalkInv, Client PROVE WalkInv'
  OBVIOUS
<1>1. CASE StartScan \/ (\E n \in Param : ListUsersCursor(n))
  <2>1. UNCHANGED <<row, walk, shown>>
    BY <1>1 DEF StartScan, ListUsersCursor
  <2>2. Matching(walk.opts)' = Matching(walk.opts)
    BY <2>1 DEF Matching, Matches
  <2>3. QED  BY <2>1, <2>2, WalkStays
<1>2. CASE StartWalk
  <2>1. DOMAIN shown' = {} /\ walk'.at = "idle"
    BY <1>2 DEF StartWalk, NoPages, NewWalk
  <2>2. QED  BY <2>1 DEF WalkInv
<1>3. ASSUME NEW n \in Param, CountUsers(n) PROVE WalkInv'
  <2>1. /\ walk \in [opts : Options, size : 1 .. MaxLimit, at : {"idle", "counted"},
                     page : Nat \ {0}, total : 0 .. MaxRows, fresh : BOOLEAN]
        /\ UNCHANGED <<row, shown>>
    BY <1>3 DEF ScanInv, TypeOK, CountUsers
  <2>2. /\ walk'.opts = walk.opts /\ walk'.size = walk.size
        /\ walk'.total = Cardinality(Matching(walk.opts))
    BY <1>3, <2>1 DEF CountUsers
  <2>3. Matching(walk.opts)' = Matching(walk.opts)
    BY <2>1, <2>2 DEF Matching, Matches
  <2>4. \A p \in DOMAIN shown : IsPage(p)'
    BY <2>1, <2>2, <2>3, PageStays DEF WalkInv
  <2>5. QED  BY <2>1, <2>2, <2>3, <2>4 DEF WalkInv
<1>4. CASE ListUsers
  BY <1>4, ListUsersWalk
<1>5. QED  BY <1>1, <1>2, <1>3, <1>4 DEF Client

-----------------------------------------------------------------------------
(* The numbered listing: what its pages are together.                      *)

\* Pages that fit an int skip the rows of the pages before them.
LEMMA SkipFits ==
    ASSUME NEW p \in Nat \ {0}, NEW size \in Nat \ {0}, (p - 1) * size <= MaxInt
    PROVE  Skip(p, size) = (p - 1) * size /\ (p - 1) * size \in Nat
<1>1. (p - 1) * size \in Nat
  OBVIOUS
<1>2. Offset(p, size) = (p - 1) * size
  BY <1>1, IntAssumption DEF Offset, Wrap
<1>3. QED  BY <1>1, <1>2 DEF Skip

\* The rows of an ORDER BY that come first: none outside precedes one inside.
Front(A, S, opts) == A \subseteq S /\ \A i \in A, j \in S \ A : ~Before(opts, j, i)

\* How ORDER BY orders: a row precedes what follows the rows that do not come after it,
\* and under a unique column two rows have an order.
LEMMA OrderFacts ==
    ASSUME ScanInv, NEW opts \in Options, NEW i \in Ids, NEW j \in Ids
    PROVE  /\ ~Before(opts, i, i)
           /\ \A k \in Ids : ~Before(opts, j, i) /\ Before(opts, j, k) => Before(opts, i, k)
           /\ opts.sort = "id" /\ i # j => Before(opts, i, j) \/ Before(opts, j, i)
<1>1. \A k \in Ids : row[k].key \in Nat /\ k \in Nat
  <2>1. row \in [Ids -> [state : RowState, key : Keys]] /\ Ids \subseteq Nat
    BY DEF ScanInv, TypeOK, Ids
  <2>2. QED  BY <2>1, KeysAssumption
<1>2. QED  BY <1>1 DEF Before

\* Page p is the rows between two fronts of the listing: those its offset skips, and
\* those with it.
LEMMA PageShape ==
    ASSUME ScanInv, WalkInv, NEW p \in DOMAIN shown, Fits(p)
    PROVE  \E A \in SUBSET Matching(walk.opts) :
              LET S == Matching(walk.opts)
                  T == A \cup shown[p]
              IN  /\ p \in Nat \ {0} /\ shown[p] \subseteq S \ A
                  /\ Cardinality(A) = AtMost((p - 1) * walk.size, Cardinality(S))
                  /\ Cardinality(T) = AtMost(p * walk.size, Cardinality(S))
                  /\ Front(A, S, walk.opts) /\ Front(T, S, walk.opts)
<1> DEFINE S == Matching(walk.opts)
           z == walk.size
           B == shown[p]
<1>1. p \in Nat \ {0} /\ z \in Nat \ {0} /\ S \in SUBSET Ids
  BY LimitAssumption DEF WalkInv, ScanInv, TypeOK, Matching
<1>2. Skip(p, z) = (p - 1) * z /\ (p - 1) * z \in Nat
  BY <1>1, SkipFits DEF Fits
<1>3. PICK A \in Limit(Skip(p, z), S, walk.opts) : B \in Limit(z, S \ A, walk.opts)
  BY DEF WalkInv, IsPage
<1>4. /\ A \subseteq S /\ B \subseteq S \ A
      /\ Cardinality(A) = AtMost((p - 1) * z, Cardinality(S))
      /\ Cardinality(B) = AtMost(z, Cardinality(S \ A))
      /\ \A i \in A, j \in S \ A : ~Before(walk.opts, j, i)
      /\ \A i \in B, j \in (S \ A) \ B : ~Before(walk.opts, j, i)
  BY <1>2, <1>3 DEF Limit
<1>5. Cardinality(S \ A) = Cardinality(S) - Cardinality(A)
        /\ Cardinality(A \cup B) = Cardinality(A) + Cardinality(B)
        /\ Cardinality(S) \in Nat /\ Cardinality(A) \in Nat /\ Cardinality(B) \in Nat
  <2>1. IsFiniteSet(S) /\ IsFiniteSet(A) /\ IsFiniteSet(B)
    BY <1>1, <1>4, IdsFinite, FS_Subset
  <2>2. A \cap B = {} /\ S \cap A = A /\ Cardinality({}) = 0
    BY <1>4, FS_EmptySet
  <2>3. Cardinality(S \ A) = Cardinality(S) - Cardinality(S \cap A)
    BY <2>1, FS_Difference
  <2>4. Cardinality(A \cup B) = Cardinality(A) + Cardinality(B) - Cardinality(A \cap B)
    BY <2>1, FS_Union
  <2>5. Cardinality(S \cap A) = Cardinality(A) /\ Cardinality(A \cap B) = 0
    BY <2>2
  <2>6. Cardinality(S) \in Nat /\ Cardinality(A) \in Nat /\ Cardinality(B) \in Nat
    BY <2>1, FS_CardinalityType
  <2>7. QED  BY <2>3, <2>4, <2>5, <2>6
<1>6. p * z = (p - 1) * z + z
  BY <1>1
<1>7. Cardinality(A \cup B) = AtMost(p * z, Cardinality(S))
  BY <1>1, <1>2, <1>4, <1>5, <1>6 DEF AtMost
<1>8. Front(A, S, walk.opts) /\ Front(A \cup B, S, walk.opts)
  BY <1>4 DEF Front
<1>9. QED  BY <1>1, <1>4, <1>7, <1>8

\* A row of a later page is outside some front of the listing no smaller than the
\* earlier page and all before it.
LEMMA LaterPage ==
    ASSUME ScanInv, WalkInv, NEW p \in DOMAIN shown, NEW q \in DOMAIN shown,
           Fits(p), Fits(q), p < q, NEW j \in shown[q],
           NEW T \in SUBSET Matching(walk.opts),
           Cardinality(T) = AtMost(p * walk.size, Cardinality(Matching(walk.opts))),
           \A A \in SUBSET Matching(walk.opts) :
              (Front(A, Matching(walk.opts), walk.opts) /\ j \notin A) => A \cup {j} \subseteq T
    PROVE  FALSE
<1> DEFINE S == Matching(walk.opts)
           z == walk.size
<1>1. PICK A \in SUBSET S :
         /\ q \in Nat \ {0} /\ shown[q] \subseteq S \ A
         /\ Cardinality(A) = AtMost((q - 1) * z, Cardinality(S))
         /\ Front(A, S, walk.opts)
  BY PageShape
<1>2. A \cup {j} \subseteq T /\ j \notin A /\ T \in SUBSET Ids
  BY <1>1 DEF Matching
<1>3. IsFiniteSet(T) /\ IsFiniteSet(A) /\ IsFiniteSet(A \cup {j}) /\ IsFiniteSet(S)
  BY <1>2, IdsFinite, FS_Subset DEF Matching
<1>4. Cardinality(A \cup {j}) = Cardinality(A) + 1
  BY <1>2, <1>3, FS_AddElement
<1>5. Cardinality(A) + 1 <= Cardinality(T) /\ Cardinality(A) \in Nat /\ Cardinality(S) \in Nat
  BY <1>2, <1>3, <1>4, FS_Subset, FS_CardinalityType
<1>6. p * z <= (q - 1) * z /\ p * z \in Nat /\ (q - 1) * z \in Nat
  <2>1. p \in Nat /\ q \in Nat /\ z \in Nat /\ p < q
    BY DEF WalkInv, ScanInv, TypeOK
  <2>2. QED  BY <2>1
<1>7. QED  BY <1>1, <1>5, <1>6 DEF AtMost

LEMMA PagesInOrder ==
    ASSUME ScanInv, WalkInv, NEW p \in DOMAIN shown, NEW q \in DOMAIN shown,
           Fits(p), Fits(q), p < q
    PROVE  /\ \A i \in shown[p], j \in shown[q] : ~Before(walk.opts, j, i)
           /\ UniqueSort => shown[p] \cap shown[q] = {}
<1> DEFINE S == Matching(walk.opts)
           opts == walk.opts
<1>1. PICK A \in SUBSET S :
         LET T == A \cup shown[p] IN
         /\ p \in Nat \ {0} /\ shown[p] \subseteq S \ A
         /\ Cardinality(T) = AtMost(p * walk.size, Cardinality(S))
         /\ Front(T, S, opts)
  BY PageShape
<1> DEFINE T == A \cup shown[p]
<1>2. shown[q] \subseteq S /\ S \subseteq Ids /\ opts \in Options /\ T \in SUBSET S
  BY <1>1, PageShape DEF Matching, ScanInv, TypeOK
<1>3. ASSUME NEW i \in shown[p], NEW j \in shown[q], Before(opts, j, i) PROVE FALSE
  <2>1. ASSUME NEW C \in SUBSET S, Front(C, S, opts), j \notin C PROVE C \cup {j} \subseteq T
    <3>1. \A x \in C \cup {j} : x = j \/ ~Before(opts, j, x)
      BY <1>2, <2>1 DEF Front
    <3>2. \A x \in C \cup {j} : Before(opts, x, i)
      BY <1>1, <1>2, <1>3, <3>1, OrderFacts
    <3>3. QED  BY <1>1, <1>2, <1>3, <3>2 DEF Front
  <2>2. QED  BY <1>1, <1>2, <2>1, LaterPage
<1>4. ASSUME UniqueSort, NEW i \in shown[p] \cap shown[q] PROVE FALSE
  <2>1. ASSUME NEW C \in SUBSET S, Front(C, S, opts), i \notin C PROVE C \cup {i} \subseteq T
    <3>1. \A x \in C : x # i /\ ~Before(opts, i, x) /\ x \in Ids /\ i \in Ids
      BY <1>2, <2>1 DEF Front
    <3>2. \A x \in C : Before(opts, x, i)
      BY <1>2, <1>4, <3>1, OrderFacts DEF UniqueSort
    <3>3. QED  BY <1>1, <1>2, <1>4, <3>2 DEF Front
  <2>2. QED  BY <1>1, <1>2, <1>4, <2>1, LaterPage
<1>5. QED  BY <1>3, <1>4

LEMMA Division ==
    ASSUME NEW r \in Nat, NEW z \in Nat \ {0}
    PROVE  r \div z \in Nat /\ (r \div z) * z <= r /\ r < (r \div z + 1) * z
  OBVIOUS

\* The row that has r rows before it is on page r \div size + 1.
LEMMA PagesCover ==
    ASSUME ScanInv, WalkInv, UniqueSort, NEW n \in DOMAIN shown, Fits(n),
           1 .. n \subseteq DOMAIN shown, n * walk.size >= walk.total,
           NEW i \in Matching(walk.opts)
    PROVE  \E p \in 1 .. n : i \in shown[p]
<1> DEFINE S == Matching(walk.opts)
           opts == walk.opts
           z == walk.size
           R == {j \in S : Before(opts, j, i)}
           r == Cardinality(R)
           p == r \div z + 1
<1>1. /\ z \in Nat \ {0} /\ n \in Nat \ {0} /\ S \subseteq Ids /\ i \in Ids /\ opts \in Options
      /\ opts.sort = "id" /\ walk.total = Cardinality(S)
  BY LimitAssumption DEF WalkInv, ScanInv, TypeOK, Matching, UniqueSort
<1>2. IsFiniteSet(S) /\ IsFiniteSet(R) /\ i \notin R /\ i \in S /\ R \subseteq S
  BY <1>1, IdsFinite, FS_Subset, OrderFacts
<1>3. r \in Nat /\ Cardinality(S) \in Nat /\ r + 1 <= Cardinality(S)
  <2>1. Cardinality(R \cup {i}) = r + 1 /\ IsFiniteSet(R \cup {i})
    BY <1>2, FS_AddElement
  <2>2. R \cup {i} \in SUBSET S
    BY <1>2
  <2>3. Cardinality(R \cup {i}) <= Cardinality(S)
    BY <1>2, <2>2, FS_Subset
  <2>4. QED  BY <1>2, <2>1, <2>3, FS_CardinalityType
<1>4. p \in Nat \ {0} /\ (p - 1) * z <= r /\ r < p * z
  <2> HIDE DEF r
  <2>1. r \div z \in Nat /\ (r \div z) * z <= r /\ r < (r \div z + 1) * z
    BY <1>1, <1>3, Division
  <2>2. p \in Nat \ {0} /\ p - 1 = r \div z
    BY <2>1
  <2>3. QED  BY <2>1, <2>2
<1> HIDE DEF r, p
<1>5. p \in 1 .. n
  <2>1. n * z \in Nat /\ r < n * z
    BY <1>1, <1>3
  <2>2. (p - 1) * z < n * z /\ p - 1 \in Nat
    BY <1>1, <1>3, <1>4, <2>1
  <2>3. p - 1 < n
    BY <1>1, <2>2
  <2>4. QED  BY <1>1, <1>4, <2>3
<1>6. p \in DOMAIN shown /\ Fits(p)
  <2>1. (p - 1) * z <= (n - 1) * z /\ (p - 1) * z \in Nat /\ (n - 1) * z \in Nat
    BY <1>1, <1>4, <1>5
  <2>2. (n - 1) * z <= MaxInt
    BY DEF Fits
  <2>3. QED  BY <1>5, <2>1, <2>2, IntAssumption DEF Fits
<1>7. PICK A \in SUBSET S :
         LET T == A \cup shown[p] IN
         /\ shown[p] \subseteq S \ A
         /\ Cardinality(A) = AtMost((p - 1) * z, Cardinality(S))
         /\ Cardinality(T) = AtMost(p * z, Cardinality(S))
         /\ Front(A, S, opts) /\ Front(T, S, opts)
  BY <1>6, PageShape
<1>8. \A C \in SUBSET S : (Front(C, S, opts) /\ i \in C) => Cardinality(C) > r
  <2> SUFFICES ASSUME NEW C \in SUBSET S, Front(C, S, opts), i \in C PROVE Cardinality(C) > r
    OBVIOUS
  <2>1. R \cup {i} \subseteq C
    BY DEF Front
  <2>2. IsFiniteSet(C)
    BY <1>2, FS_Subset
  <2>3. Cardinality(R \cup {i}) = r + 1
    BY <1>2, FS_AddElement DEF r
  <2>4. QED  BY <1>3, <2>1, <2>2, <2>3, FS_Subset, FS_CardinalityType
<1>9. \A C \in SUBSET S : (Front(C, S, opts) /\ i \notin C) => Cardinality(C) <= r
  <2> SUFFICES ASSUME NEW C \in SUBSET S, Front(C, S, opts), i \notin C PROVE Cardinality(C) <= r
    OBVIOUS
  <2>1. \A x \in C : x # i /\ ~Before(opts, i, x) /\ x \in Ids
    BY <1>1, <1>2 DEF Front
  <2>2. C \in SUBSET R
    BY <1>1, <2>1, OrderFacts
  <2>3. QED  BY <1>2, <2>2, FS_Subset DEF r
<1>10. i \notin A
  <2>1. Cardinality(A) <= r /\ Cardinality(A) \in Nat
    BY <1>1, <1>3, <1>4, <1>7 DEF AtMost
  <2>2. QED  BY <1>3, <1>7, <1>8, <2>1
<1>11. i \in A \cup shown[p]
  <2>1. A \cup shown[p] \in SUBSET S
    BY <1>7
  <2>2. Cardinality(A \cup shown[p]) > r /\ Cardinality(A \cup shown[p]) \in Nat
    BY <1>1, <1>3, <1>4, <1>7 DEF AtMost
  <2>3. QED  BY <1>3, <1>7, <1>9, <2>1, <2>2
<1>12. QED  BY <1>5, <1>10, <1>11

-----------------------------------------------------------------------------
\* Listings by cursor keep their invariant whatever happens to the table.
THEOREM ScanInvHolds == Spec => []ScanInv
<1>1. ScanInv /\ [Next]_vars => ScanInv'
  <2>1. ScanInv /\ UNCHANGED vars => ScanInv'
    BY DEF vars, ScanInv, TypeOK, CursorOnce
  <2>2. QED  BY <2>1, TableInv, ClientInv DEF Next
<1>2. QED  BY InitInv, <1>1, PTL DEF Spec

\* The numbered pages in the history are the pages their numbers say, of the table as
\* it is, and the total is that of the rows they are taken from.
THEOREM ListingInvHolds == Spec => []ListingInv
<1>1. Init => WalkInv
  BY DEF Init, WalkInv, NoPages, NewWalk
<1>2. ScanInv /\ WalkInv /\ [Next]_vars => WalkInv'
  <2>1. ScanInv /\ WalkInv /\ UNCHANGED vars => WalkInv'
    <3> SUFFICES ASSUME ScanInv, WalkInv, UNCHANGED vars PROVE WalkInv'
      OBVIOUS
    <3>1. UNCHANGED <<row, walk, shown>>
      BY DEF vars
    <3>2. Matching(walk.opts)' = Matching(walk.opts)
      BY <3>1 DEF Matching, Matches
    <3>3. QED  BY <3>1, <3>2, WalkStays
  <2>2. QED  BY <2>1, TableWalk, ClientWalk DEF Next
<1>3. QED  BY <1>1, <1>2, ScanInvHolds, PTL DEF Spec, ListingInv

\* While the table rests, numbered pages partition what is listed: no row comes after
\* one it precedes, no row comes twice under a unique column, and the pages up to the
\* total have every row.
THEOREM PagesPartitionHolds == Spec => []PagesPartition
<1>1. ListingInv => PagesPartition
  <2> SUFFICES ASSUME ScanInv, WalkInv PROVE PagesPartition
    BY DEF ListingInv
  <2>1. \A n \in {m \in DOMAIN shown : Fits(m)} :
          (UniqueSort /\ 1 .. n \subseteq DOMAIN shown /\ n * walk.size >= walk.total) =>
             Matching(walk.opts) \subseteq UNION {shown[p] : p \in 1 .. n}
    BY PagesCover
  <2>2. QED  BY <2>1, PagesInOrder DEF PagesPartition
<1>2. QED  BY <1>1, ListingInvHolds, PTL

\* A traversal to the end gives every row that matched since before its place came.
THEOREM CursorCompleteHolds == Spec => []CursorComplete
<1>1. ScanInv => CursorComplete
  BY DEF ScanInv, CursorComplete
<1>2. QED  BY <1>1, ScanInvHolds, PTL

\* A traversal never gives a row twice.
THEOREM CursorOnceHolds == Spec => []CursorOnce
<1>1. ScanInv => CursorOnce
  BY DEF ScanInv
<1>2. QED  BY <1>1, ScanInvHolds, PTL
=============================================================================
