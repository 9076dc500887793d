------------------------------- MODULE Listing -------------------------------
(***************************************************************************)
(* The two listings of users, by cursor and by page number, read by one    *)
(* client while the table changes.                                         *)
(*                                                                         *)
(* A client of the cursor listing follows next_cursor from the first page  *)
(* to the last; a client of the numbered listing asks for pages in any     *)
(* order.  A behaviour has one of the two.  A page is one SELECT, so it is *)
(* one step; the numbered listing counts the rows in a statement before    *)
(* it.  A listing that fails changes nothing: it is left out, and the      *)
(* client may present the same cursor or page again.                       *)
(*                                                                         *)
(* A page is a set of ids.  The column key stands for every column that is *)
(* not unique (role, names, created_at, active); e-mail sorts like id.     *)
(***************************************************************************)
EXTENDS Integers, FiniteSets

CONSTANTS
    MaxRows,      \* bound: ids ever drawn
    Keys,         \* values of a column that is not unique
    NoFilter,     \* no filter[...] parameter
    MaxLimit,     \* the largest page a client gets
    DefaultLimit, \* the page size when the parameter is absent or out of range
    MaxInt        \* the largest int

ASSUME RowsAssumption == MaxRows \in Nat
ASSUME KeysAssumption == Keys \subseteq Nat /\ Keys # {} /\ NoFilter \notin Keys
ASSUME LimitAssumption == MaxLimit \in Nat /\ DefaultLimit \in 1 .. MaxLimit
ASSUME IntAssumption == MaxInt \in Nat

VARIABLES
    row,     \* users: whether each id is drawn, visible, deleted, and its key
    nextId,  \* users_id_seq
    client,  \* which of the listings the client of this behaviour uses
    scan,    \* the cursor client: filter, cursor, ids of earlier pages, the last page
    steady,  \* history: ids that have matched since before the cursor passed them
    walk,    \* the page client: its options, the request under way
    shown    \* history: pages given since the table or the options last changed

vars == <<row, nextId, client, scan, steady, walk, shown>>

Ids == 1 .. MaxRows

RowState == {"none", "drawn", "live", "deleted"}

Sorts == {"id", "key"}

Options == [sort : Sorts, order : {"asc", "desc"}, filter : Keys \cup {NoFilter}]

\* A cursor is "" on the first page, the text of an id afterwards.
NoCursor == << >>
Cursor == {NoCursor} \cup {<<id>> : id \in Ids}

EncodeCursor(id) == <<id>>

DecodeCursor(c) == IF c = NoCursor THEN 0 ELSE c[1]

-----------------------------------------------------------------------------
(* Parameters of a request.                                                *)

\* filtering.Parse: a field that may not be sorted by is replaced by "id", an order
\* that is not "desc" by "asc".
Parse(sort, order, filter) ==
    [sort |-> IF sort \in Sorts THEN sort ELSE "id",
     order |-> IF order = "desc" THEN "desc" ELSE "asc",
     filter |-> filter]

\* What Atoi makes of a parameter: zero of one that is no number, the largest int of
\* one that is too large.
Param == -1 .. MaxInt

LimitOf(n) == IF n < 1 \/ n > MaxLimit THEN DefaultLimit ELSE n

PageOf(n) == IF n < 1 THEN 1 ELSE n

\* int arithmetic wraps around, from MaxInt to -MaxInt - 1.
Wrap(n) == ((n + (MaxInt + 1)) % (2 * (MaxInt + 1))) - (MaxInt + 1)

\* Mutation: pages are counted from zero.
OffsetFromZero(page, size) == Wrap(page * size)

Offset(page, size) == Wrap((page - 1) * size)

\* gorm writes no OFFSET unless it is positive.
Skip(page, size) == IF Offset(page, size) > 0 THEN Offset(page, size) ELSE 0

-----------------------------------------------------------------------------
(* Queries.                                                                *)

\* applyUserFilters, and the "deleted_at IS NULL" gorm adds.
Passes(r, filter) == r.state = "live" /\ (filter = NoFilter \/ r.key = filter)

Live(i) == row[i].state = "live"

Matches(i, filter) == Passes(row[i], filter)

\* ORDER BY one column: rows with equal keys have no order.
Before(opts, i, j) ==
    LET a == IF opts.sort = "id" THEN i ELSE row[i].key
        b == IF opts.sort = "id" THEN j ELSE row[j].key
    IN  IF opts.order = "desc" THEN a > b ELSE a < b

AtMost(k, n) == IF k < n THEN k ELSE n

\* Mutation: no ORDER BY.
LimitUnsorted(k, S, opts) == {P \in SUBSET S : Cardinality(P) = AtMost(k, Cardinality(S))}

\* ORDER BY ... LIMIT k: the sets of rows the query may give.
Limit(k, S, opts) ==
    {P \in SUBSET S : /\ Cardinality(P) = AtMost(k, Cardinality(S))
                      /\ \A i \in P, j \in S \ P : ~Before(opts, j, i)}

ById == [sort |-> "id", order |-> "asc", filter |-> NoFilter]

\* Mutation: the row under the cursor is given again.
AfterCursorIncl(c, filter) == {i \in Ids : i >= DecodeCursor(c) /\ Matches(i, filter)}

\* WHERE id > ?
AfterCursor(c, filter) == {i \in Ids : i > DecodeCursor(c) /\ Matches(i, filter)}

\* The last row of a page that is sorted by id.
IsLast(i, P) == i \in P /\ \A j \in P : j <= i

-----------------------------------------------------------------------------
NewScan(filter) ==
    [filter |-> filter, cursor |-> NoCursor, seen |-> {}, page |-> {}, done |-> FALSE]

NewWalk(opts, size) ==
    [opts |-> opts, size |-> size, at |-> "idle", page |-> 1, total |-> 0, fresh |-> TRUE]

NoPages == [p \in {} |-> {}]

Init ==
    /\ row = [i \in Ids |-> [state |-> "none", key |-> CHOOSE k \in Keys : TRUE]]
    /\ nextId = 1
    /\ client \in {"cursor", "page"}
    /\ scan = NewScan(NoFilter)
    /\ steady = {}
    /\ walk = NewWalk(ById, DefaultLimit)
    /\ shown = NoPages

-----------------------------------------------------------------------------
(* The table changes.                                                      *)

\* A change of a row that queries can see, and what it means for the history.
SetRow(i, new) ==
    /\ row' = [row EXCEPT ![i] = new]
    /\ steady' = IF ~Passes(new, scan.filter) THEN steady \ {i}
                 ELSE IF scan.done \/ i <= DecodeCursor(scan.cursor) THEN steady
                 ELSE steady \cup {i}
    /\ walk' = [walk EXCEPT !.fresh = FALSE]
    /\ shown' = NoPages
    /\ UNCHANGED <<nextId, client, scan>>

\* An INSERT takes its id before its transaction commits, and keeps it if it fails.
Draw ==
    /\ nextId <= MaxRows
    /\ \E k \in Keys : row' = [row EXCEPT ![nextId] = [state |-> "drawn", key |-> k]]
    /\ nextId' = nextId + 1
    /\ UNCHANGED <<client, scan, steady, walk, shown>>

Rollback(i) ==
    /\ row[i].state = "drawn"
    /\ row' = [row EXCEPT ![i].state = "none"]
    /\ UNCHANGED <<nextId, client, scan, steady, walk, shown>>

Commit(i) == row[i].state = "drawn" /\ SetRow(i, [row[i] EXCEPT !.state = "live"])

Update(i) == Live(i) /\ \E k \in Keys \ {row[i].key} : SetRow(i, [row[i] EXCEPT !.key = k])

Delete(i) == Live(i) /\ SetRow(i, [row[i] EXCEPT !.state = "deleted"])

\* A save that overlaps a deletion brings the row back.
Revive(i) == row[i].state = "deleted" /\ SetRow(i, [row[i] EXCEPT !.state = "live"])

-----------------------------------------------------------------------------
(* GET /admin/users/cursor                                                 *)

StartScan ==
    /\ client = "cursor"
    /\ \E filter \in Keys \cup {NoFilter} :
          /\ scan' = NewScan(filter)
          /\ steady' = {i \in Ids : Matches(i, filter)}
    /\ UNCHANGED <<row, nextId, client, walk, shown>>

\* Mutation: the cursor is the extra row.
ListUsersCursorSkips(n) ==
    /\ client = "cursor"
    /\ ~scan.done
    /\ LET limit == LimitOf(n)
       IN \E users \in Limit(limit + 1, AfterCursor(scan.cursor, scan.filter), ById) :
             IF Cardinality(users) > limit
             THEN \E page \in Limit(limit, users, ById), last \in users :
                     /\ IsLast(last, users)
                     /\ scan' = [scan EXCEPT !.cursor = EncodeCursor(last),
                                             !.seen = @ \cup scan.page, !.page = page]
             ELSE scan' = [scan EXCEPT !.done = TRUE,
                                       !.seen = @ \cup scan.page, !.page = users]
    /\ UNCHANGED <<row, nextId, client, steady, walk, shown>>

\* One row more than the page is fetched: if it is there, there is a next page, and
\* its cursor is the last row of this one.  The sort options do not count.
ListUsersCursor(n) ==
    /\ client = "cursor"
    /\ ~scan.done
    /\ LET limit == LimitOf(n)
       IN \E users \in Limit(limit + 1, AfterCursor(scan.cursor, scan.filter), ById) :
             IF Cardinality(users) > limit
             THEN \E page \in Limit(limit, users, ById), last \in users :
                     /\ IsLast(last, page)
                     /\ scan' = [scan EXCEPT !.cursor = EncodeCursor(last),
                                             !.seen = @ \cup scan.page, !.page = page]
             ELSE scan' = [scan EXCEPT !.done = TRUE,
                                       !.seen = @ \cup scan.page, !.page = users]
    /\ UNCHANGED <<row, nextId, client, steady, walk, shown>>

-----------------------------------------------------------------------------
(* GET /admin/users                                                        *)

StartWalk ==
    /\ client = "page"
    /\ walk.at = "idle"
    /\ \E sort \in Sorts \cup {"other"}, order \in {"asc", "desc", "other"},
          filter \in Keys \cup {NoFilter}, n \in Param :
             walk' = NewWalk(Parse(sort, order, filter), LimitOf(n))
    /\ shown' = NoPages
    /\ UNCHANGED <<row, nextId, client, scan, steady>>

Matching(opts) == {i \in Ids : Matches(i, opts.filter)}

\* The first statement of List; if it fails so does the second, which gorm then skips.
CountUsers(n) ==
    /\ client = "page"
    /\ walk.at = "idle"
    /\ walk' = [walk EXCEPT !.at = "counted", !.page = PageOf(n), !.fresh = TRUE,
                            !.total = Cardinality(Matching(walk.opts))]
    /\ UNCHANGED <<row, nextId, client, scan, steady, shown>>

\* The second.  What was counted before a change of the table is not part of the
\* history after it.
ListUsers ==
    /\ walk.at = "counted"
    /\ LET S == Matching(walk.opts)
       IN \E skipped \in Limit(Skip(walk.page, walk.size), S, walk.opts) :
          \E page \in Limit(walk.size, S \ skipped, walk.opts) :
             shown' = IF walk.fresh
                      THEN [p \in DOMAIN shown \cup {walk.page} |->
                               IF p = walk.page THEN page ELSE shown[p]]
                      ELSE shown
    /\ walk' = [walk EXCEPT !.at = "idle"]
    /\ UNCHANGED <<row, nextId, client, scan, steady>>

-----------------------------------------------------------------------------
Table ==
    \/ Draw
    \/ \E i \in Ids : Rollback(i) \/ Commit(i) \/ Update(i) \/ Delete(i) \/ Revive(i)

Client ==
    \/ StartScan
    \/ \E n \in Param : ListUsersCursor(n)
    \/ StartWalk
    \/ \E n \in Param : CountUsers(n)
    \/ ListUsers

Next == Table \/ Client

Spec == Init /\ [][Next]_vars

-----------------------------------------------------------------------------
(* Properties.                                                             *)

\* Every variable stays in its range.
TypeOK ==
    /\ row \in [Ids -> [state : RowState, key : Keys]]
    /\ nextId \in 1 .. MaxRows + 1
    /\ client \in {"cursor", "page"}
    /\ scan \in [filter : Keys \cup {NoFilter}, cursor : Cursor, seen : SUBSET Ids,
                 page : SUBSET Ids, done : BOOLEAN]
    /\ steady \subseteq Ids
    /\ walk \in [opts : Options, size : 1 .. MaxLimit, at : {"idle", "counted"},
                 page : Nat \ {0}, total : 0 .. MaxRows, fresh : BOOLEAN]
    /\ \A p \in DOMAIN shown : shown[p] \subseteq Ids

\* Following next_cursor to the end lists every row that has matched ever since
\* before the cursor passed its place, however many rows came, went or changed
\* meanwhile: the fetch of one row more, the cut of the page and the choice of the
\* cursor leave no gap.  (A row committed after the cursor passed its id is not
\* among them: ids are drawn before they are committed.)
CursorComplete == (client = "cursor" /\ scan.done) => steady \subseteq scan.seen \cup scan.page

\* No row is listed twice in one traversal, and the ids go up from page to page,
\* whatever becomes of the table between two of them.
CursorOnce == \A i \in scan.seen, j \in scan.page : i < j

\* The inductive invariant of the cursor listing: what was given lies before the cursor,
\* and every steady row was given or lies after it; at the end every one was given.
ScanInv ==
    /\ TypeOK
    /\ CursorOnce
    /\ \A i \in Ids : i >= nextId => row[i].state = "none"
    /\ \A i \in steady : Passes(row[i], scan.filter)
    /\ ~scan.done =>
          /\ \A i \in scan.seen \cup scan.page : i <= DecodeCursor(scan.cursor)
          /\ \A i \in steady : i \in scan.seen \cup scan.page \/ i > DecodeCursor(scan.cursor)
    /\ scan.done => steady \subseteq scan.seen \cup scan.page

UniqueSort == walk.opts.sort = "id"

\* The product (page - 1) * size fits an int.
Fits(p) == (p - 1) * walk.size <= MaxInt

\* While the table rests, numbered pages are what their numbers say.  Under any sort
\* column, ties or not, a row never comes on a later page than a row it precedes.
\* Under a unique one no row is on two pages, and the pages from the first to the one
\* the total calls the last have every row.  Pages so far out that their offset
\* overflows an int are excepted: they give the first rows again.
PagesPartition ==
    /\ \A p, q \in {n \in DOMAIN shown : Fits(n)} :
          p < q => /\ \A i \in shown[p], j \in shown[q] : ~Before(walk.opts, j, i)
                   /\ UniqueSort => shown[p] \cap shown[q] = {}
    /\ \A n \in {m \in DOMAIN shown : Fits(m)} :
          (UniqueSort /\ 1 .. n \subseteq DOMAIN shown /\ n * walk.size >= walk.total) =>
             Matching(walk.opts) \subseteq UNION {shown[p] : p \in 1 .. n}

\* What page p is, as the table rests: the rows after those its offset skips.
IsPage(p) ==
    \E skipped \in Limit(Skip(p, walk.size), Matching(walk.opts), walk.opts) :
       shown[p] \in Limit(walk.size, Matching(walk.opts) \ skipped, walk.opts)

\* The inductive invariant of the numbered listing: the history has pages of the table
\* as it is, and the total beside them is that of the rows they are taken from.
WalkInv ==
    /\ \A p \in DOMAIN shown : p \in Nat \ {0} /\ IsPage(p)
    /\ (DOMAIN shown # {} \/ (walk.at = "counted" /\ walk.fresh)) =>
          walk.total = Cardinality(Matching(walk.opts))

\* The inductive invariant of both listings.
ListingInv == ScanInv /\ WalkInv
=============================================================================
