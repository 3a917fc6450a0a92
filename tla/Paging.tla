------------------------------- MODULE Paging -------------------------------
(* The infinite lists of both clients: pages fetched one after the other     *)
(* while rows come, go and, in a ranking, move.  A keyset cursor is the row  *)
(* a page ended with; the ranking of markets has an offset for a cursor; the *)
(* lists of followers have no cursor at all and end with their first page.   *)
(* A row is its place by (created_at, id).                                   *)
EXTENDS Naturals, Sequences, FiniteSets, SequencesExt

CONSTANTS
  Rows,           \* bound: rows 1 .. Rows
  Limit           \* rows of a page

ASSUME PagingAssumption == Rows \in Nat /\ Limit \in Nat \ {0}

(* The lists, by the order and the cursor of the query behind them.          *)
MobileFeed == "newest"
MobileReels == "newest"
MobileExplorePosts == "newest"
MobileProfilePosts == "newest"
MobileTrades == "newest"
MobileNotifications == "newest"
MobileComments == "oldest"
MobileMarkets == "ranked"
MobileFollows == "capped"
WebFeed == "newest"
WebReels == "newest"
WebExplorePosts == "newest"
WebProfilePosts == "newest"
WebTrades == "newest"
WebNotifications == "newest"
WebComments == "oldest"
WebMarkets == "ranked"
WebFollows == "capped"

AllLists ==
  {MobileFeed, MobileReels, MobileExplorePosts, MobileProfilePosts, MobileTrades,
   MobileNotifications, MobileComments, MobileMarkets, MobileFollows, WebFeed, WebReels,
   WebExplorePosts, WebProfilePosts, WebTrades, WebNotifications, WebComments, WebMarkets,
   WebFollows}

VARIABLES
  surface,    \* the list of this behaviour
  order,      \* the rows there are, in the query's order
  pages,      \* pages on screen: sequence of [rows, next]
  fetch,      \* [kind, pages, wanted, disturbed]: the fetch under way
  disturbed   \* history: rows that came or moved since the pages on screen
              \* began to be read

pagingVars == <<surface, order, pages, fetch, disturbed>>

NoCursor == 0
Idle == [kind |-> "none", pages |-> <<>>, wanted |-> 0, disturbed |-> {}]

(* The query's order; a ranking can be any, of different rows.               *)
Precedes(a, b) ==
  CASE surface = "ranked" -> a # b
    [] surface = "oldest" -> a < b
    [] OTHER -> a > b
InListOrder(rows) == \A i, j \in DOMAIN rows : i < j => Precedes(rows[i], rows[j])

PagingInit ==
  /\ surface \in AllLists
  /\ order \in BoundedSeq(1 .. Rows, Rows) /\ InListOrder(order)
  /\ pages = <<>> /\ fetch = Idle /\ disturbed = {}

-----------------------------------------------------------------------------
(* The backend. *)

(* In a ranking, rows that pass each other change the offsets of all.        *)
Disturb(row) ==
  LET touched == IF surface = "ranked" THEN 1 .. Rows ELSE {row} IN
  /\ disturbed' = disturbed \cup touched
  /\ fetch' = IF fetch.kind = "all" /\ fetch.pages # <<>>
              THEN [fetch EXCEPT !.disturbed = @ \cup touched] ELSE fetch
  /\ UNCHANGED <<surface, pages>>

WithRow(rows, row) ==
  {all \in {InsertAt(rows, i, row) : i \in 1 .. Len(rows) + 1} : InListOrder(all)}

(* created_at is when the transaction began: a row may come in under rows    *)
(* that have been read.                                                      *)
RowAdded(row) ==
  /\ row \notin ToSet(order) /\ order' \in WithRow(order, row)
  /\ Disturb(row)

RowRemoved(i) ==
  /\ order' = RemoveAt(order, i)
  /\ Disturb(order[i])

(* A trade moves its market.                                                 *)
RowMoved(i) ==
  /\ surface = "ranked" /\ order' \in WithRow(RemoveAt(order, i), order[i])
  /\ Disturb(order[i])

(* A page begins strictly after the cursor: after that many rows.            *)
AfterInclusive(row, cursor) == IF surface = "oldest" THEN row >= cursor ELSE row <= cursor
After(row, cursor) == IF surface = "oldest" THEN row > cursor ELSE row < cursor

Passed(cursor) ==
  CASE cursor = NoCursor \/ surface = "capped" -> {0}
    [] cursor # NoCursor /\ surface = "ranked" -> {cursor}
    [] OTHER -> {k \in 0 .. Len(order) :
                   \A i \in DOMAIN order : i <= k <=> ~ After(order[i], cursor)}

(* A short page ends a list. *)
NextCursorOf(rows, passed) ==
  CASE Len(rows) < Limit \/ surface = "capped" -> NoCursor
    [] Len(rows) >= Limit /\ surface = "ranked" -> passed + Limit
    [] OTHER -> Last(rows)

PageAfter(passed) ==
  LET end == IF passed + Limit < Len(order) THEN passed + Limit ELSE Len(order)
      rows == SubSeq(order, passed + 1, end)
  IN [rows |-> rows, next |-> NextCursorOf(rows, passed)]

-----------------------------------------------------------------------------
(* The client. *)

HasNextPage == pages # <<>> /\ Last(pages).next # NoCursor

(* fetchNextPage: takes the place of a refetch under way.                    *)
FetchNextPage ==
  /\ HasNextPage /\ fetch.kind # "next"
  /\ fetch' = [kind |-> "next", pages |-> pages, wanted |-> Len(pages) + 1, disturbed |-> {}]
  /\ UNCHANGED <<surface, order, pages, disturbed>>

(* The first load, a pull, an invalidation: all pages again, from the first. *)
(* It takes the place of what is under way.                                  *)
Refetch ==
  /\ pages = <<>> => fetch = Idle
  /\ fetch' = [kind |-> "all", pages |-> <<>>, disturbed |-> {},
               wanted |-> IF pages = <<>> THEN 1 ELSE Len(pages)]
  /\ UNCHANGED <<surface, order, pages, disturbed>>

Complete ==
  \/ Len(fetch.pages) = fetch.wanted
  \/ fetch.pages # <<>> /\ Last(fetch.pages).next = NoCursor

(* One request: the page after the last one. *)
ReadPage ==
  /\ fetch.kind # "none" /\ ~ Complete
  /\ \E passed \in Passed(IF fetch.pages = <<>> THEN NoCursor ELSE Last(fetch.pages).next) :
       fetch' = [fetch EXCEPT !.pages = Append(@, PageAfter(passed))]
  /\ UNCHANGED <<surface, order, pages, disturbed>>

FetchEnds ==
  /\ fetch.kind # "none" /\ Complete
  /\ pages' = fetch.pages /\ fetch' = Idle
  /\ disturbed' = IF fetch.kind = "all" THEN fetch.disturbed ELSE disturbed
  /\ UNCHANGED <<surface, order>>

FetchFails ==
  /\ fetch.kind # "none" /\ fetch' = Idle
  /\ UNCHANGED <<surface, order, pages, disturbed>>

PagingNext ==
  \/ \E row \in 1 .. Rows : RowAdded(row)
  \/ \E i \in DOMAIN order : RowRemoved(i) \/ RowMoved(i)
  \/ FetchNextPage \/ Refetch \/ ReadPage \/ FetchEnds \/ FetchFails

-----------------------------------------------------------------------------
Listed == UNION {ToSet(pages[n].rows) : n \in DOMAIN pages}

(* The rows a list has to show: those that stayed where they were since its  *)
(* first page was read, down to the last row on screen, all of them once the *)
(* list has ended.                                                           *)
Due ==
  {order[i] : i \in {i \in DOMAIN order :
     /\ pages # <<>> /\ order[i] \notin disturbed
     /\ \/ ~ HasNextPage /\ surface # "capped"
        \/ \E j \in DOMAIN order : i <= j /\ order[j] \in Listed \ disturbed}}

(* Scrolling and refreshing while rows come and go never show a row twice,   *)
(* or out of order, and never skip a row that was there all along.  The      *)
(* ranking of markets keeps this only as long as no row comes, goes or moves *)
(* while its pages are read.                                                 *)
ListSound ==
  (surface = "ranked" => disturbed = {}) =>
    /\ \A m, n \in DOMAIN pages : \A i \in DOMAIN pages[m].rows, j \in DOMAIN pages[n].rows :
         m < n \/ (m = n /\ i < j) => Precedes(pages[m].rows[i], pages[n].rows[j])
    /\ Due \subseteq Listed
=============================================================================
