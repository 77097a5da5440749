------------------------------ MODULE IndexLists ------------------------------
(***************************************************************************)
(* The index lists of one database and one index type, from the views of    *)
(* SQL Server to the page of the console.  The collector counts and reads   *)
(* the view page by page while SQL Server reorders it, keeps what it can    *)
(* use, and replaces the stored rows and the status row in one commit.  An  *)
(* API handler reads the total, one page of rows and the status in three    *)
(* statements, between which the collector may commit.                      *)
(*                                                                          *)
(* The collector's list is a set of listings, a row with the page it was read *)
(* from: the order of the list is lost in the table.  The table's rows are a  *)
(* sequence in the order of the API's queries.                              *)
(***************************************************************************)
EXTENDS Naturals, Sequences, FiniteSets, SequencesExt

CONSTANTS
    Candidates,  \* rows SQL Server may list: missing indexes, or indexes to inspect
    PageSize,    \* INDEX_COLLECT_PAGE_SIZE
    ViewSize,    \* page_size of the API
    Interval,    \* seconds between collections, also what makes a page stale, in ticks
    MaxPage,     \* bound: pages asked for
    MaxClock,    \* bound: the clock stops here
    MaxChanges   \* bound: changes of SQL Server's view

\* name is the place of an index in the order of table name, index name and index_id.
Candidate ==
    [id : Nat, name : Nat, resolved : BOOLEAN, keys : Nat, percent : Nat, pages : Nat]

ASSUME CandidatesAssumption == IsFiniteSet(Candidates) /\ Candidates \subseteq Candidate
ASSUME SizesAssumption == PageSize \in Nat \ {0} /\ ViewSize \in Nat \ {0}
ASSUME TimesAssumption == Interval \in Nat \ {0} /\ MaxClock \in Nat
ASSUME BoundsAssumption == MaxPage \in Nat /\ MaxChanges \in Nat

VARIABLES
    type,         \* "missing" or "fragmentation"
    clock,
    view,         \* SQL Server's rows, by row_number
    changes,
    pc,           \* where the collector's thread is
    collectedAt,  \* when the collection began
    page, total, items,  \* the loop of list_missing_indexes or list_index_fragmentation
    moved,        \* history: candidates whose row_number changed since the loop began
    hollow,       \* history: the loop ended at a page of which it kept nothing
    rows,         \* stored rows, with their collected_at
    status,       \* the row of index_collection_status (success 0: none yet)
    plan,         \* statements the API handler has still to execute
    asked,        \* history: the page asked for, and the success stored then
    read,         \* what it has read
    answer

server == <<type, clock, view, changes>>
loop == <<pc, collectedAt, page, total, items, moved, hollow>>
tables == <<rows, status>>
handler == <<plan, asked, read, answer>>
vars == <<server, loop, tables, handler>>

Time == 0..(MaxClock + 1)
Statements == {"total", "rows", "status"}
NoStatus == [state |-> "unknown", success |-> 0]
NothingAsked == [page |-> 0, success |-> 0]
NothingRead == [total |-> 0, rows |-> <<>>, status |-> NoStatus]
NoAnswer == [items |-> <<>>, total |-> 0, checked |-> 0, stale |-> TRUE, now |-> 0]

TypeOK ==
    /\ type \in {"missing", "fragmentation"}
    /\ clock \in Time \ {0}
    /\ IsInjective(view) /\ ToSet(view) \subseteq Candidates
    /\ changes \in 0..MaxChanges
    /\ pc \in {"idle", "count", "page", "listed"}
    /\ collectedAt \in Time
    /\ page \in Nat \ {0}
    /\ page = 1 \/ (page - 1) * PageSize < Cardinality(Candidates)
    /\ total \in 0..Cardinality(Candidates)
    /\ items \subseteq [page : 1..page, row : Candidates]
    /\ moved \subseteq Candidates
    /\ hollow \in BOOLEAN
    /\ \A r \in ToSet(rows) : r.row \in Candidates /\ r.at \in Time
    /\ status.state \in {"unknown", "success", "failed"} /\ status.success \in Time
    /\ ToSet(plan) \subseteq Statements
    /\ ToSet(read.rows) \subseteq [row : Candidates, at : Time]
    /\ ToSet(answer.items) \subseteq [row : Candidates, at : Time]

\* Missing indexes are ordered by their cost and use, which queries change; the indexes
\* of a database by their names without the schema, so that those of two schemas may tie.
InOrder(s) ==
    type = "fragmentation" => \A j, k \in DOMAIN s : j < k => s[j].name <= s[k].name

Init ==
    /\ type \in {"missing", "fragmentation"}
    /\ clock = 1
    /\ view \in UNION {{s \in [1..n -> Candidates] : IsInjective(s)} :
                          n \in 0..Cardinality(Candidates)}
    /\ InOrder(view)
    /\ changes = 0
    /\ pc = "idle"
    /\ collectedAt = 0
    /\ page = 1 /\ total = 0 /\ items = {}
    /\ moved = {} /\ hollow = FALSE
    /\ rows = <<>>
    /\ status = NoStatus
    /\ plan = <<>>
    /\ asked = NothingAsked
    /\ read = NothingRead
    /\ answer = NoAnswer

-----------------------------------------------------------------------------
(* SQL Server.                                                             *)

Tick ==
    /\ clock <= MaxClock
    /\ clock' = clock + 1
    /\ UNCHANGED <<type, view, changes, loop, tables, handler>>

Places(s, c) == {k \in 1..Len(s) : s[k] = c}

\* The view becomes s.
ViewBecomes(s) ==
    /\ InOrder(s)
    /\ changes < MaxChanges
    /\ changes' = changes + 1
    /\ view' = s
    /\ moved' = moved \cup {c \in Candidates : Places(s, c) # Places(view, c)}
    /\ UNCHANGED <<type, clock, pc, collectedAt, page, total, items, hollow, tables, handler>>

\* A candidate is seen for the first time, or an index is created, with any place in
\* the order.
Appear(c) ==
    /\ c \notin ToSet(view)
    /\ \E k \in 1..(Len(view) + 1) : ViewBecomes(InsertAt(view, k, c))

\* It is created after all, or an index is dropped.
Vanish(k) == ViewBecomes(RemoveAt(view, k))

\* Two rows change places: missing indexes by their cost and use, indexes that tie.
Overtake(k) ==
    /\ k < Len(view)
    /\ ViewBecomes([view EXCEPT ![k] = view[k + 1], ![k + 1] = view[k]])

-----------------------------------------------------------------------------
(* The collector.                                                          *)

StartListing ==
    /\ pc = "idle"
    /\ status.success = 0 \/ clock - status.success >= Interval
    /\ pc' = "count"
    /\ collectedAt' = clock
    /\ page' = 1 /\ total' = 0 /\ items' = {}
    /\ moved' = {} /\ hollow' = FALSE
    /\ UNCHANGED <<server, tables, handler>>

\* Each page begins by counting.
CountRows ==
    /\ pc = "count"
    /\ total' = Len(view)
    /\ pc' = "page"
    /\ UNCHANGED <<server, collectedAt, page, items, moved, hollow, tables, handler>>

RowsBetween(s, first, last) == {s[k] : k \in {k \in 1..Len(s) : first <= k /\ k <= last}}

\* Mutant: BETWEEN from the last row of the page before.
OverlappingPage(s, n) == RowsBetween(s, (n - 1) * PageSize, n * PageSize)

\* WHERE row_number BETWEEN start_row AND end_row.
PageOf(s, n) == RowsBetween(s, (n - 1) * PageSize + 1, n * PageSize)

\* A missing index whose object cannot be named, or without key columns, is skipped.
Usable(c) == type = "missing" => c.resolved /\ c.keys > 0

\* recommend_fragmentation_action.
RecommendedAction(c) ==
    CASE c.pages < 1000 -> "NONE"
      [] c.pages >= 1000 /\ c.percent > 30 -> "REBUILD"
      [] c.pages >= 1000 /\ c.percent \in 5..30 -> "REORGANIZE"
      [] OTHER -> "NONE"

\* Only indexes with something to do are stored; all missing indexes are.
Worthwhile(c) == type = "fragmentation" => RecommendedAction(c) # "NONE"

\* Mutant: only an empty page ends the loop.
EndsWhenEmpty(kept) == kept = {}

\* The loop ends at the last page, or at one of which nothing was kept.
Ends(kept) == page * PageSize >= total \/ kept = {}

ReadPage ==
    /\ pc = "page"
    /\ LET seen == PageOf(view, page)
           kept == {c \in seen : Usable(c)}
       IN  /\ items' = items \cup [page : {page}, row : kept]
           /\ pc' = IF Ends(kept) THEN "listed" ELSE "count"
           /\ page' = IF Ends(kept) THEN page ELSE page + 1
           /\ hollow' = (seen # {} /\ kept = {})
    /\ UNCHANGED <<server, collectedAt, total, moved, tables, handler>>

\* The thread forgets its list.
EndListing ==
    /\ pc' = "idle"
    /\ collectedAt' = 0
    /\ page' = 1 /\ total' = 0 /\ items' = {}
    /\ moved' = {} /\ hollow' = FALSE

\* The order of the API's queries: the largest first, and equal ones by id, which is
\* drawn at random when a row is stored and stays.
LargestFirst(s) == \A j, k \in DOMAIN s : j < k => s[j].row.percent >= s[k].row.percent

\* The stored rows are replaced and the status row is written in one commit.
Persist ==
    /\ pc = "listed"
    /\ \E s \in SetToSeqs({i \in items : Worthwhile(i.row)}) :
           /\ LargestFirst(s)
           /\ rows' = [k \in DOMAIN s |-> [row |-> s[k].row, at |-> collectedAt]]
    /\ status' = [state |-> "success", success |-> collectedAt]
    /\ EndListing
    /\ UNCHANGED <<server, handler>>

\* A query fails or the database times out: rows and last_success_at stay.
PersistFailure ==
    /\ pc \in {"count", "page", "listed"}
    /\ status' = [status EXCEPT !.state = "failed"]
    /\ EndListing
    /\ UNCHANGED <<server, rows, handler>>

-----------------------------------------------------------------------------
(* The API handler.                                                        *)

\* Mutant: the status is read before the rows.
StatusFirst == <<"status", "total", "rows">>

\* get_missing_indexes and get_index_fragmentation.
ReadOrder == <<"total", "rows", "status">>

Ask(n) ==
    /\ asked = NothingAsked
    /\ asked' = [page |-> n, success |-> status.success]
    /\ plan' = ReadOrder
    /\ UNCHANGED <<server, loop, tables, read, answer>>

Executes(statement) ==
    /\ plan # <<>> /\ Head(plan) = statement
    /\ plan' = Tail(plan)
    /\ UNCHANGED <<server, loop, tables, asked, answer>>

ReadTotal ==
    /\ Executes("total")
    /\ read' = [read EXCEPT !.total = Len(rows)]

\* ORDER BY ... OFFSET (page - 1) * page_size LIMIT page_size.
ReadRows ==
    /\ Executes("rows")
    /\ LET offset == (asked.page - 1) * ViewSize
           end == IF offset + ViewSize < Len(rows) THEN offset + ViewSize ELSE Len(rows)
       IN  read' = [read EXCEPT !.rows = SubSeq(rows, offset + 1, end)]

ReadStatus ==
    /\ Executes("status")
    /\ read' = [read EXCEPT !.status = status]

\* Of a database without a status row, the newest row tells the time.
CheckedAt ==
    IF read.status.state # "unknown" THEN read.status.success
    ELSE IF read.rows = <<>> THEN 0
    ELSE CHOOSE t \in {r.at : r \in ToSet(read.rows)} : \A r \in ToSet(read.rows) : r.at <= t

\* _snapshot_stale.
Stale == CheckedAt = 0 \/ clock - CheckedAt > Interval

Answer ==
    /\ asked # NothingAsked /\ plan = <<>> /\ answer = NoAnswer
    /\ answer' = [items |-> read.rows, total |-> read.total, checked |-> CheckedAt,
                  stale |-> Stale, now |-> clock]
    /\ read' = NothingRead
    /\ UNCHANGED <<server, loop, tables, plan, asked>>

\* The page is shown; the next one may be asked for.
Forget ==
    /\ answer # NoAnswer
    /\ asked' = NothingAsked
    /\ answer' = NoAnswer
    /\ UNCHANGED <<server, loop, tables, plan, read>>

Next ==
    \/ Tick
    \/ \E c \in Candidates : Appear(c)
    \/ \E k \in 1..Len(view) : Vanish(k) \/ Overtake(k)
    \/ StartListing
    \/ CountRows
    \/ ReadPage
    \/ Persist
    \/ PersistFailure
    \/ \E n \in 1..MaxPage : Ask(n)
    \/ ReadTotal
    \/ ReadRows
    \/ ReadStatus
    \/ Answer
    \/ Forget

Spec == Init /\ [][Next]_vars

-----------------------------------------------------------------------------
(* Correctness.                                                            *)

\* However SQL Server changes its view between the statements of the loop, a usable
\* row whose row_number stays is listed exactly once; only a page made of unusable
\* missing indexes may hide those after it.
ListedOnce ==
    pc = "listed" => \A k \in 1..Len(view) :
        Usable(view[k]) /\ view[k] \notin moved
        => LET listed == {i \in items : i.row = view[k]}
           IN  \/ Cardinality(listed) = 1
               \/ hollow /\ type = "missing" /\ listed = {}

\* A page mixes no two collections; it is never newer than checked_at says, nor
\* older than what was stored when it was asked for.  With no collection in between
\* its rows and its total agree, and what is not stale is not older than the interval.
PageDated ==
    answer # NoAnswer =>
        /\ \A r \in ToSet(answer.items) :
               /\ asked.success <= r.at /\ r.at <= answer.checked
               /\ \A s \in ToSet(answer.items) : s.at = r.at
        /\ answer.checked = asked.success =>
               LET before == (asked.page - 1) * ViewSize
               IN  /\ answer.total <= before => answer.items = <<>>
                   /\ answer.total \in before..(before + ViewSize)
                      => Len(answer.items) = answer.total - before
                   /\ answer.total > before + ViewSize => Len(answer.items) = ViewSize
                   /\ ~answer.stale => \A r \in ToSet(answer.items) : r.at + Interval >= answer.now
=============================================================================
