----------------------------- MODULE Pagination -----------------------------
(***************************************************************************)
(* Cursor pages: BuildPage (src/cursor/page.go:36-57), an application that *)
(* reads its pages the way src/docs/cursor.md:5-8 and 47-51 ask, and a     *)
(* client that follows the cursors both ways while rows come and go.       *)
(*                                                                         *)
(* A row is its position: its value under the requested sort and, last,    *)
(* the tie-breaker.  A cursor is the position and the direction it was     *)
(* encoded for; the codec and the compiler have checked it (CursorCodec,   *)
(* QueryService), so an application is handed exactly these two.           *)
(***************************************************************************)
EXTENDS Collections, FiniteSets

CONSTANTS
    Rows,         \* [key |-> ..., id |-> ...], no two with one id
    Size,         \* page size
    MaxChanges    \* bound on inserted and deleted rows

\* A value is its rank in the order of the column.
ASSUME PaginationAssumption ==
    /\ IsFiniteSet(Rows) /\ \A r \in Rows : r.key \in Nat /\ r.id \in Nat
    /\ \A r, s \in Rows : r.id = s.id => r = s
    /\ Size \in Nat \ {0} /\ MaxChanges \in Nat

VARIABLES
    table,        \* rows stored now
    page,         \* the page the client holds
    resolved,     \* the client means to walk on to the end
    changes,      \* inserts and deletes so far
    stable,       \* rows stored ever since the client's walk began (history)
    seen          \* rows of the walk forward, in the order they came (history)

pvars == <<table, page, resolved, changes, stable, seen>>

Directions == {"forward", "backward"}
NoCursor   == <<>>

\* The declared sort, ascending by key, then the tie-breaker.
Before(r, s) == r.key < s.key \/ (r.key = s.key /\ r.id < s.id)

\* The row that comes next has all before it that came.
InOrder(rows) == [i \in 1..Cardinality(rows) |->
    CHOOSE r \in rows : Cardinality({s \in rows : Before(s, r)}) = i - 1]

-----------------------------------------------------------------------------
\* BuildPage.

NoPage == [ok |-> FALSE, items |-> <<>>, hasPrevious |-> FALSE, hasNext |-> FALSE,
           previous |-> NoCursor, next |-> NoCursor]

\* The application's PageEncoder: a cursor of the item, unless it fails.
Encode(item, direction, failing) ==
    IF direction \in failing THEN NoCursor
    ELSE <<[position |-> item, direction |-> direction]>>

LastAgain(items) == Last(items)                                 \* mutant
PreviousItem(items) == Head(items)

FirstAgain(items) == Head(items)                                \* mutant
NextItem(items) == Last(items)

Turned == "backward"                                            \* mutant
Onwards == "forward"

Wanted(items, hasPrevious, hasNext) ==
    {d \in Directions : items # <<>> /\ IF d = "backward" THEN hasPrevious ELSE hasNext}

Never(wanted, failing) == FALSE                                 \* mutant
Abort(wanted, failing) == wanted \cap failing # {}

\* The boundaries come from the caller; a boundary's cursor is encoded only if
\* it exists and the page has items, and one failure leaves no page at all.
BuildPage(items, hasPrevious, hasNext, failing) ==
    LET wanted == Wanted(items, hasPrevious, hasNext) IN
    IF Abort(wanted, failing) THEN NoPage
    ELSE [ok |-> TRUE, items |-> items, hasPrevious |-> hasPrevious, hasNext |-> hasNext,
          previous |-> IF "backward" \notin wanted THEN NoCursor
                       ELSE Encode(PreviousItem(items), "backward", failing),
          next     |-> IF "forward" \notin wanted THEN NoCursor
                       ELSE Encode(NextItem(items), Onwards, failing)]

-----------------------------------------------------------------------------
\* The application's storage read: one row more than the page tells whether
\* there is a page beyond it; the other boundary is looked up.

Beyond(cursor) == IF cursor = NoCursor THEN table
                  ELSE IF cursor[1].direction = "forward"
                       THEN {r \in table : Before(cursor[1].position, r)}
                       ELSE {r \in table : Before(r, cursor[1].position)}

Backward(cursor) == cursor # NoCursor /\ cursor[1].direction = "backward"

\* Read backward from the boundary, then put back into canonical order.
Fetched(cursor) ==
    LET rows == InOrder(Beyond(cursor)) IN
    IF Len(rows) <= Size THEN rows
    ELSE IF Backward(cursor) THEN SubSeq(rows, Len(rows) - Size + 1, Len(rows))
    ELSE SubSeq(rows, 1, Size)

Answer(cursor, failing) ==
    LET items == Fetched(cursor)
        beyond == \E r \in Beyond(cursor) : ~Contains(items, r)
        behind == table # Beyond(cursor) IN
    BuildPage(items, IF Backward(cursor) THEN beyond ELSE behind,
                     IF Backward(cursor) THEN behind ELSE beyond, failing)

-----------------------------------------------------------------------------
PaginationInit ==
    /\ table \in SUBSET Rows
    /\ page = NoPage /\ resolved = FALSE /\ changes = 0 /\ stable = {} /\ seen = <<>>

\* An empty page has no cursors, also where it says that there is more.
DeadEnd == page.items = <<>> /\ page.hasNext

\* The first page, or the walk begun again.
Open(failing) ==
    LET answer == Answer(NoCursor, failing) IN
    /\ resolved => DeadEnd
    /\ answer.ok
    /\ page' = answer /\ seen' = answer.items /\ stable' = table
    /\ UNCHANGED <<table, resolved, changes>>

\* A failed answer leaves the client its page, to try again.
Follow(cursor, failing) ==
    LET answer == Answer(cursor, failing) IN
    /\ page.ok /\ cursor # NoCursor
    /\ \/ answer.ok /\ page' = answer
       \/ ~answer.ok /\ UNCHANGED page
    /\ UNCHANGED <<table, resolved, changes, stable>>

FollowNext(failing) ==
    /\ Follow(page.next, failing)
    /\ seen' = IF page' = page THEN seen ELSE seen \o page'.items

\* Going back, the walk forward is taken up again from the earlier page.
FollowPrevious(failing) ==
    /\ ~resolved /\ Follow(page.previous, failing)
    /\ seen' = IF page' = page \/ page'.items = <<>> THEN seen
               ELSE Only(seen, LAMBDA r : Before(r, Head(page'.items))) \o page'.items

Resolve ==
    /\ page.ok /\ ~resolved /\ resolved' = TRUE
    /\ UNCHANGED <<table, page, changes, stable, seen>>

Insert(r) ==
    /\ changes < MaxChanges /\ r \in Rows \ table
    /\ table' = table \cup {r} /\ changes' = changes + 1
    /\ UNCHANGED <<page, resolved, stable, seen>>

Delete(r) ==
    /\ changes < MaxChanges /\ r \in table
    /\ table' = table \ {r} /\ stable' = stable \ {r} /\ changes' = changes + 1
    /\ UNCHANGED <<page, resolved, seen>>

PaginationNext ==
    \/ Resolve
    \/ \E failing \in SUBSET Directions :
          Open(failing) \/ FollowNext(failing) \/ FollowPrevious(failing)
    \/ \E r \in Rows : Insert(r) \/ Delete(r)

\* A client that means to come to the end goes on, also after failed answers and
\* from a dead end, and an encoder does not fail for ever.
PaginationSpec == /\ PaginationInit /\ [][PaginationNext]_pvars
                  /\ WF_pvars(resolved /\ (FollowNext({}) \/ Open({})))

-----------------------------------------------------------------------------
Ascending(rows) == \A i \in 2..Len(rows) : Before(rows[i - 1], rows[i])

\* However the client turns back and forth, and whatever is inserted or deleted
\* meanwhile, the rows of its walk come in order and none twice, and no row
\* that was there all along is missing before the boundary it has reached
\* (src/cursor/page.go:44-55; src/docs/cursor.md:5-8, 47-49).
NoneSkippedNoneTwice ==
    /\ Ascending(seen)
    /\ seen # <<>> => \A r \in stable :
          ~Before(Last(seen), r) => Contains(seen, r)

\* A page with items and no cursor onwards is the end: everything that was there
\* all along has been seen.  A failed encoder therefore never looks like an end
\* (src/cursor/page.go:46-54).
EndMeansComplete ==
    page.items # <<>> /\ page.next = NoCursor => \A r \in stable : Contains(seen, r)

\* A page adjoins the one it was reached from: no row stored at that moment lies
\* between the two, and none is in both (src/cursor/page.go:44-55).
PagesAdjoin ==
    [][\A failing \in SUBSET Directions : page' # page /\ page'.items # <<>> =>
        /\ FollowNext(failing) =>
             /\ Before(Last(page.items), Head(page'.items))
             /\ ~\E r \in table : /\ Before(Last(page.items), r)
                                  /\ Before(r, Head(page'.items))
        /\ FollowPrevious(failing) =>
             /\ Before(Last(page'.items), Head(page.items))
             /\ ~\E r \in table : /\ Before(Last(page'.items), r)
                                  /\ Before(r, Head(page.items))]_pvars

\* A client that walks on to the end gets there, from wherever its turns have
\* taken it, however often the encoder fails on the way; from an empty page that
\* says there is more, which has no cursor to it, by beginning again
\* (src/cursor/page.go:39-54).
WalkEnds == resolved ~> ~page.hasNext
=============================================================================
