------------------------------- MODULE Pages --------------------------------
(***************************************************************************)
(* One client pages through orders while others insert orders and delete   *)
(* or restore the maps the orders belong to.  Each page is one SELECT, so  *)
(* each sees another state.  There are three kinds of page:                *)
(*   cursor   GET /users/:id/activity and /reports/orders/page by cursor,  *)
(*   offset   the same with OFFSET, in the same total order,               *)
(*   list     GET /orders, /users, /maps and their variants: OFFSET in the *)
(*            order of created_at alone.                                   *)
(* An order's created_at is the time of its INSERT; the transaction that   *)
(* inserts it commits later, so an older row may appear after a newer one. *)
(***************************************************************************)
EXTENDS Integers, Sequences, FiniteSets, SequencesExt

CONSTANTS
  MaxOrder,   \* bound: order ids, which are AUTO_INCREMENT
  MaxTime,    \* bound: milliseconds
  PageLimit   \* the limit parameter

ASSUME PagesAssumption ==
  MaxOrder \in Nat /\ MaxTime \in Nat \ {0} /\ PageLimit \in Nat \ {0}

VARIABLES
  made,    \* made[i]: order i's created_at and map, in the order of ids
  open,    \* orders of transactions not committed yet
  gone,    \* orders whose transaction rolled back
  hidden,  \* deleted maps
  now,     \* the clock, in milliseconds
  walk,    \* the client: kind, whether it sees the orders of
           \* deleted maps, the place of the next page, and pages
  always,  \* history: orders the walk's queries could see from its start on
  quiet    \* history: what the queries see has not changed since the start

pageVars == <<made, open, gone, hidden, now, walk, always, quiet>>
writes   == <<made, open, gone, hidden, now>>

PlaceMap == {1, 2}
Order    == [at : 1 .. MaxTime, map : PlaceMap]

\* The report, and the plain lists of orders.
AllOrders(orders, uncommitted, rolledBack) ==
  DOMAIN orders \ (uncommitted \union rolledBack)

\* The activity query and the overview of orders leave deleted maps out.
Sees(all, orders, uncommitted, rolledBack, maps) ==
  {i \in AllOrders(orders, uncommitted, rolledBack) :
     all \/ orders[i].map \notin maps}

Seen == Sees(walk.all, made, open, gone, hidden)

\* ORDER BY created_at DESC, id DESC.
Newer(i, j) == \/ made[i].at > made[j].at
               \/ made[i].at = made[j].at /\ i > j

PagesTypeOK ==
  /\ made \in Seq(Order) /\ Len(made) <= MaxOrder
  /\ open \union gone \subseteq DOMAIN made /\ hidden \subseteq PlaceMap
  /\ now \in 1 .. MaxTime
  /\ walk \in [kind : {"cursor", "offset", "list"}, all : BOOLEAN,
               pc : {"new", "more", "end"}, place : Nat, pages : Seq(DOMAIN made)]
  /\ walk.place <= MaxOrder + (IF walk.pc = "end" THEN PageLimit ELSE 0)
  /\ always \subseteq DOMAIN made /\ quiet \in BOOLEAN

PagesInit ==
  /\ \E n \in 0 .. MaxOrder - 1 :
       made \in {m \in [1 .. n -> Order] :
                   \A i \in 1 .. n - 1 : m[i].at <= m[i + 1].at}
  /\ open = {} /\ gone = {} /\ hidden = {}
  /\ now = IF made = << >> THEN 1 ELSE made[Len(made)].at
  /\ \E kind \in {"cursor", "offset", "list"}, all \in BOOLEAN :
       walk = [kind |-> kind, all |-> all, pc |-> "new", place |-> 0,
               pages |-> << >>]
  /\ always = {} /\ quiet = TRUE

-----------------------------------------------------------------------------
(* The client.                                                              *)

First == IF walk.pc = "new"
           THEN always' = Seen /\ quiet' = TRUE
           ELSE UNCHANGED <<always, quiet>>

\* decodeCursor: the first page is asked for without a cursor.
NoCursor == walk.place = 0

\* Injected bug: the predicate compares created_at only.
AfterByTime(i) == NoCursor \/ made[i].at < made[walk.place].at

\* The keyset predicate; the cursor names the last order of the page before.
After(i) == NoCursor \/ Newer(walk.place, i)

\* LIMIT n OFFSET offset.
Cut(rows, offset, n) ==
  SubSeq(rows, offset + 1, IF offset + n < Len(rows) THEN offset + n ELSE Len(rows))

\* The rows of LIMIT n + 1, cut to n; the extra row only tells that there are more.
Answered(rows, place) ==
  walk' = [walk EXCEPT !.pages = @ \o Cut(rows, 0, PageLimit),
                       !.place = place,
                       !.pc = IF Len(rows) > PageLimit THEN "more" ELSE "end"]

\* The rows in the one order that the two keys allow.
Sorted(rows) ==
  {s \in SetToSeqs(rows) : \A i, j \in DOMAIN s : i < j => Newer(s[i], s[j])}

\* The cursor names the last order of the page; an empty page has none.
NextCursor(page) == IF page = << >> THEN walk.place ELSE Last(page)

CursorPage ==
  /\ walk.kind = "cursor" /\ walk.pc # "end"
  /\ \E rows \in Sorted({i \in Seen : After(i)}) :
       Answered(rows, NextCursor(Cut(rows, 0, PageLimit)))
  /\ First /\ UNCHANGED writes

\* Injected bug: the offset counts the extra row of the page.
NextOffsetExtra(offset) == offset + PageLimit + 1

NextOffset(offset) == offset + PageLimit

OffsetPage ==
  /\ walk.kind = "offset" /\ walk.pc # "end"
  /\ \E rows \in Sorted(Seen) :
       Answered(Cut(rows, walk.place, PageLimit + 1), NextOffset(walk.place))
  /\ First /\ UNCHANGED writes

\* The orders in which the server may return rows of the same created_at.
Sortings(rows) ==
  {s \in SetToSeqs(rows) :
     \A i, j \in DOMAIN s : i < j => made[s[i]].at >= made[s[j]].at}

\* A list says nothing of more rows: the client asks again until a page is short.
ListPage ==
  /\ walk.kind = "list" /\ walk.pc # "end"
  /\ \E rows \in Sortings(Seen) :
       LET page == Cut(rows, walk.place, PageLimit) IN
       walk' = [walk EXCEPT !.pages = @ \o page, !.place = @ + PageLimit,
                            !.pc = IF Len(page) = PageLimit THEN "more" ELSE "end"]
  /\ First /\ UNCHANGED writes

-----------------------------------------------------------------------------
(* The others.                                                              *)

Wrote == LET seen == Sees(walk.all, made', open', gone', hidden') IN
         /\ always' = always \intersect seen
         /\ quiet' = (quiet /\ seen = Seen)

\* createWithOutbox: the INSERT takes its id and created_at ...
InsertOrder ==
  /\ Len(made) < MaxOrder
  /\ \E m \in PlaceMap : made' = Append(made, [at |-> now, map |-> m])
  /\ open' = open \union {Len(made) + 1}
  /\ UNCHANGED <<gone, hidden, now, walk>> /\ Wrote

\* ... and shows at the commit, or never.
EndInsert(i) ==
  /\ open' = open \ {i}
  /\ gone' \in {gone, gone \union {i}}
  /\ UNCHANGED <<made, hidden, now, walk>> /\ Wrote

\* delete and restore of a map.
Hide(m) ==
  /\ hidden' = IF m \in hidden THEN hidden \ {m} ELSE hidden \union {m}
  /\ UNCHANGED <<made, open, gone, now, walk>> /\ Wrote

Tick ==
  /\ now < MaxTime /\ now' = now + 1
  /\ UNCHANGED <<made, open, gone, hidden, walk, always, quiet>>

PagesNext ==
  \/ CursorPage \/ OffsetPage \/ ListPage
  \/ InsertOrder \/ Tick
  \/ \E i \in open : EndInsert(i)
  \/ \E m \in PlaceMap : Hide(m)

PagesSpec == PagesInit /\ [][PagesNext]_pageVars

-----------------------------------------------------------------------------
(* Properties.                                                              *)

\* A walk by cursor never returns an order twice, and by its end it has returned
\* every order that it could see all the time, whatever was written meanwhile.
CursorExact ==
  walk.kind = "cursor" =>
    /\ IsInjective(walk.pages)
    /\ walk.pc = "end" => always \subseteq ToSet(walk.pages)

\* Nothing changed between the pages and, in a list, no two rows were created in the
\* same millisecond.
Undisturbed ==
  /\ walk.kind # "cursor" /\ walk.pc # "new" /\ quiet
  /\ walk.kind = "list" =>
       ~\E i, j \in Seen : i # j /\ made[i].at = made[j].at

\* A walk by offset or in a list that nothing disturbs is exact.
OffsetExact ==
  Undisturbed =>
    /\ IsInjective(walk.pages)
    /\ walk.pc = "end" => ToSet(walk.pages) = Seen

\* Whichever way a client walks.
PagesExact == CursorExact /\ OffsetExact

-----------------------------------------------------------------------------
(* The inductive invariant.  TLC checks it on a small instance,             *)
(* DatabaseProofs proves it for every one.                                  *)

Returned == ToSet(walk.pages)

\* Nothing newer comes after a row.
Descending == \A i, j \in DOMAIN walk.pages :
                i < j => Newer(walk.pages[i], walk.pages[j])

\* The cursor is the last row returned, and what the walk still owes is after it.
CursorWalk ==
  /\ Descending
  /\ walk.pc = "more" =>
       /\ walk.pages # << >> /\ walk.place = Last(walk.pages)
       /\ \A i \in always \ Returned : Newer(walk.place, i)
  /\ walk.pc = "end" => always \subseteq Returned

\* The offset counts the rows returned, which are the newest of those there are.
OffsetWalk ==
  /\ Descending
  /\ Returned \subseteq Seen
  /\ \A i \in Returned, j \in Seen : Newer(j, i) => j \in Returned
  /\ walk.pc = "more" => walk.place = Len(walk.pages)
  /\ walk.pc = "end" => Seen \subseteq Returned

PagesInv ==
  /\ PagesTypeOK
  /\ always \subseteq Seen
  /\ walk.pc = "new" => walk.pages = << >> /\ walk.place = 0
  /\ walk.kind = "cursor" => CursorWalk
  /\ Undisturbed => OffsetWalk
=============================================================================
